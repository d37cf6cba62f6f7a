-------------------------- MODULE Directory_proofs --------------------------
(***************************************************************************)
(* Theorems about Directory, for all names, directories and trees, paths   *)
(* of any length and any number of changes by others.                      *)
(***************************************************************************)
EXTENDS Directory, SequenceTheorems, WellFoundedInduction, TLAPS

\* The first k names of two paths are the same.
Agree(p, q, k) == \A i \in 1..k : p[i] = q[i]

\* The walk is at a path, which is that of Target.
AtPath == at \in {"user", "test", "open"}

\* Every directory that is open leaves room for a name, an iterator is only
\* left by exceptions when it says so, and every increment finds one.
Sound ==
  /\ TypeOK /\ StackLives
  /\ \A i \in 1..Len(stack) : Len(stack[i].path) < MaxDepth
  /\ at = "thrown" => threw

\* Each directory on the stack is the last one listed by those below.
Chain ==
  \A j \in 1..Len(stack) :
    /\ Len(stack[j].path) = j - 1
    /\ \A i \in 1..(j - 1) :
         Agree(stack[j].path, stack[i].path, i - 1) /\ stack[j].path[i] \in stack[i].listed

\* So is the path the walk is at.
Leads ==
  AtPath =>
    /\ Len(Target) = Len(stack)
    /\ \A i \in 1..Len(stack) : Agree(Target, stack[i].path, i - 1) /\ Target[i] \in stack[i].listed

\* What was shown inside a directory on the stack has been listed by it, and
\* nothing was shown inside the path the walk is at.
Listed ==
  \A p \in visited, i \in 1..Len(stack) :
    Len(p) >= i /\ Agree(p, stack[i].path, i - 1) => p[i] \in stack[i].listed
Fresh ==
  AtPath => \A p \in visited : Len(p) > Len(Target) => ~Agree(p, Target, Len(Target))

IInv == Sound /\ (~threw => Chain /\ Leads /\ Listed /\ Fresh)

\* Path p is inside path q.
Below(p, q) == Len(q) < Len(p) /\ Agree(p, q, Len(q))

\* What has been there from the beginning is there, and each directory on the
\* stack that leads to it is sure to list its next name.
There == \A p \in steady : p # <<>> /\ Lookup(p) # None
Sure ==
  \A p \in steady, i \in 1..Len(stack) :
    Below(p, stack[i].path) =>
      Lookup(stack[i].path) = stack[i].dir /\ p[Len(stack[i].path) + 1] \in stack[i].sure

\* It has been shown, or it is inside the path the walk may open next, or a
\* directory on the stack has yet to list its next name.
AtName == at \in {"open", "test", "user", "thrown"}
Pending ==
  \A p \in steady : walk.deep \/ Len(p) = 1 =>
    \/ p \in visited
    \/ AtName /\ Below(p, name)
    \/ \E i \in 1..Len(stack) :
         Below(p, stack[i].path) /\ p[Len(stack[i].path) + 1] \notin stack[i].listed

\* The walk shows its own path only before it has found an entry, and an iterator
\* that is being made is that of the path shown.
Named ==
  /\ name = <<>> /\ stack # <<>> => at = "skip" /\ Len(stack) = 1
  /\ at = "skip" => Top.path = name
  /\ at = "open" /\ stack = <<>> => name = <<>>
  /\ at = "end" => stack = <<>>

Held == There /\ Sure /\ Pending /\ Named
CInv == Sound /\ Held

-----------------------------------------------------------------------------
(* Paths                                                                   *)

LEMMA PathType ==
  \A p : p \in Paths <=> p \in Seq(Names) /\ Len(p) <= MaxDepth
<1> USE DirectoryAssumption
<1>1. ASSUME NEW p \in Paths PROVE p \in Seq(Names) /\ Len(p) <= MaxDepth
  <2>1. PICK k \in 0..MaxDepth : p \in [1..k -> Names]
    BY DEF Paths
  <2> QED BY <2>1
<1>2. ASSUME NEW p \in Seq(Names), Len(p) <= MaxDepth PROVE p \in Paths
  <2>1. Len(p) \in 0..MaxDepth /\ p \in [1..Len(p) -> Names]
    BY <1>2
  <2> QED BY <2>1 DEF Paths
<1> QED BY <1>1, <1>2

LEMMA Appended ==
  ASSUME NEW p \in Seq(Names), NEW n \in Names
  PROVE  /\ Append(p, n) \in Seq(Names) /\ Len(Append(p, n)) = Len(p) + 1
         /\ Agree(Append(p, n), p, Len(p)) /\ Append(p, n)[Len(p) + 1] = n
BY DEF Agree

\* A path that agrees with another to its end is its beginning.
LEMMA Beginning ==
  ASSUME NEW p \in Seq(Names), NEW q \in Seq(Names), Len(q) <= Len(p), Agree(p, q, Len(q))
  PROVE  q = SubSeq(p, 1, Len(q))
<1>1. Len(SubSeq(p, 1, Len(q))) = Len(q) /\ \A i \in 1..Len(q) : SubSeq(p, 1, Len(q))[i] = q[i]
  BY DEF Agree
<1>2. SubSeq(p, 1, Len(q)) \in Seq(Names)
  OBVIOUS
<1> QED BY <1>1, <1>2, SeqEqual

LEMMA TargetType ==
  ASSUME TypeOK PROVE Target \in Paths
<1> DEFINE e == <<>>
<1>1. e \in Seq(Names) /\ Len(e) = 0
  OBVIOUS
<1> HIDE DEF e
<1>2. Len(e) <= MaxDepth
  BY <1>1, DirectoryAssumption
<1>3. e \in Paths
  BY <1>1, <1>2, PathType
<1> QED BY <1>3 DEF e, Target, TypeOK

-----------------------------------------------------------------------------
(* What a path leads to                                                    *)

\* A set of numbers that is not empty has a least one.
LEMMA Least ==
  ASSUME NEW T, T \subseteq Nat, T # {}
  PROVE  \E x \in T : \A y \in T : x <= y
<1> DEFINE R == {ss \in Nat \X Nat : ss[1] < ss[2]}
<1>1. R = OpToRel(<, Nat)
  BY Zenon DEF OpToRel
<1>2. IsWellFoundedOn(R, Nat)
  BY <1>1, NatLessThanWellFounded
<1> HIDE DEF R
<1>3. PICK x \in T : \A y \in T : ~(<<y, x>> \in R)
  BY <1>2, WFMin, Zenon
<1>4. ASSUME NEW y \in T PROVE x <= y
  <2>1. x \in Nat /\ y \in Nat
    OBVIOUS
  <2>2. y < x => <<y, x>> \in R
    BY <2>1 DEF R
  <2> QED BY <1>3, <2>1, <2>2
<1> QED BY <1>4

\* Lookup in the table t, and the nodes on the first n names of its way.
At(t, p) ==
  LET node[k \in 0..Len(p)] ==
        IF k = 0 THEN Root ELSE IF node[k - 1] \in Dirs THEN t[node[k - 1]][p[k]] ELSE None
  IN  node[Len(p)]
Way(t, p, n, f) ==
  f = [k \in 0..n |-> IF k = 0 THEN Root ELSE IF f[k - 1] \in Dirs THEN t[f[k - 1]][p[k]] ELSE None]

LEMMA WayUnique ==
  ASSUME NEW t, NEW p, NEW n \in Nat, NEW f, NEW g, Way(t, p, n, f), Way(t, p, n, g)
  PROVE  f = g
<1> DEFINE D == {k \in 0..n : f[k] # g[k]}
<1>1. SUFFICES ASSUME D # {} PROVE FALSE
  BY DEF Way
<1>2. PICK k \in D : \A j \in D : k <= j
  <2>1. D \subseteq Nat
    OBVIOUS
  <2> HIDE DEF D
  <2> QED BY <1>1, <2>1, Least
<1>3. CASE k = 0
  BY <1>2, <1>3 DEF Way
<1>4. CASE k # 0
  <2>1. k - 1 \in 0..n /\ ~(k <= k - 1)
    BY <1>2, <1>4
  <2>2. f[k - 1] = g[k - 1]
    BY <1>2, <2>1
  <2> QED BY <1>2, <1>4, <2>2 DEF Way
<1> QED BY <1>3, <1>4

LEMMA WayExists ==
  ASSUME NEW t, NEW p, NEW n \in Nat PROVE \E f : Way(t, p, n, f)
<1> DEFINE D == {k \in Nat : ~\E f : Way(t, p, k, f)}
<1>1. SUFFICES ASSUME D # {} PROVE FALSE
  OBVIOUS
<1>2. PICK k \in D : \A j \in D : k <= j
  BY <1>1, Least
<1>3. CASE k = 0
  <2> DEFINE f == [j \in 0..k |-> Root]
  <2>1. Way(t, p, k, f)
    BY <1>3 DEF Way
  <2> QED BY <1>2, <2>1
<1>4. CASE k # 0
  <2>1. k - 1 \in Nat /\ ~(k <= k - 1)
    BY <1>2, <1>4
  <2>2. PICK f : Way(t, p, k - 1, f)
    BY <1>2, <2>1
  <2> DEFINE g == [j \in 0..k |-> IF j < k THEN f[j] ELSE IF f[k - 1] \in Dirs THEN t[f[k - 1]][p[k]] ELSE None]
  <2>3. ASSUME NEW j \in 0..k
        PROVE  g[j] = IF j = 0 THEN Root ELSE IF g[j - 1] \in Dirs THEN t[g[j - 1]][p[j]] ELSE None
    <3>1. CASE j = k
      BY <1>4, <2>1, <3>1
    <3>2. CASE j # k
      <4>1. j \in 0..(k - 1) /\ (j # 0 => j - 1 \in 0..(k - 1))
        BY <2>1, <3>2
      <4>2. g[j] = f[j] /\ (j # 0 => g[j - 1] = f[j - 1])
        BY <2>1, <4>1
      <4> QED BY <2>2, <4>1, <4>2 DEF Way
    <3> QED BY <3>1, <3>2
  <2>4. Way(t, p, k, g)
    BY <2>3 DEF Way
  <2> QED BY <1>2, <2>4
<1> QED BY <1>3, <1>4

LEMMA AtIsWay ==
  ASSUME NEW t, NEW p, Len(p) \in Nat, NEW f, Way(t, p, Len(p), f)
  PROVE  At(t, p) = f[Len(p)]
<1> DEFINE node == CHOOSE node : node = [k \in 0..Len(p) |->
             IF k = 0 THEN Root ELSE IF node[k - 1] \in Dirs THEN t[node[k - 1]][p[k]] ELSE None]
<1>1. At(t, p) = node[Len(p)]
  BY DEF At
<1>2. Way(t, p, Len(p), node)
  BY DEF Way
<1> HIDE DEF node
<1> QED BY <1>1, <1>2, WayUnique

LEMMA AtPrefixes ==
  ASSUME NEW t, NEW p \in Seq(Names)
  PROVE  \E f : Way(t, p, Len(p), f) /\ \A k \in 0..Len(p) : At(t, SubSeq(p, 1, k)) = f[k]
<1>1. Len(p) \in Nat
  OBVIOUS
<1>2. PICK f : Way(t, p, Len(p), f)
  BY <1>1, WayExists
<1>3. ASSUME NEW k \in 0..Len(p) PROVE At(t, SubSeq(p, 1, k)) = f[k]
  <2> DEFINE g == [j \in 0..k |-> f[j]]
             q == SubSeq(p, 1, k)
  <2>1. Len(q) = k /\ \A j \in 1..k : q[j] = p[j]
    OBVIOUS
  <2>2. ASSUME NEW j \in 0..k
        PROVE  g[j] = IF j = 0 THEN Root ELSE IF g[j - 1] \in Dirs THEN t[g[j - 1]][q[j]] ELSE None
    <3>1. j \in 0..Len(p) /\ (j # 0 => j - 1 \in 0..k /\ j \in 1..k)
      BY <1>1
    <3> HIDE DEF q
    <3> QED BY <1>2, <2>1, <3>1 DEF Way
  <2> HIDE DEF q
  <2>3. Way(t, q, k, g)
    BY <2>2 DEF Way
  <2>4. At(t, q) = g[k]
    BY <2>1, <2>3, AtIsWay
  <2> QED BY <2>4 DEF q
<1> QED BY <1>2, <1>3

\* A path that is there leads through directories, each with the next name.
LEMMA OnTheWay ==
  ASSUME DirectoryAssumption,
         NEW t, NEW p \in Seq(Names), NEW q \in Seq(Names), Below(p, q), At(t, p) # None
  PROVE  At(t, q) \in Dirs /\ t[At(t, q)][p[Len(q) + 1]] # None
<1> DEFINE n == Len(p)
<1>1. PICK f : Way(t, p, n, f) /\ \A k \in 0..n : At(t, SubSeq(p, 1, k)) = f[k]
  BY AtPrefixes
<1>2. n \in Nat /\ Len(q) \in 0..(n - 1) /\ q = SubSeq(p, 1, Len(q)) /\ p = SubSeq(p, 1, n)
  BY Beginning DEF Below
<1> HIDE DEF n
<1>3. At(t, q) = f[Len(q)] /\ f[n] # None
  <2>1. Len(q) \in 0..n /\ n \in 0..n
    BY <1>2
  <2>2. At(t, SubSeq(p, 1, Len(q))) = f[Len(q)] /\ At(t, SubSeq(p, 1, n)) = f[n]
    BY <1>1, <2>1
  <2>3. At(t, SubSeq(p, 1, n)) = At(t, p) /\ At(t, SubSeq(p, 1, Len(q))) = At(t, q)
    BY <1>2, Zenon
  <2> QED BY <2>2, <2>3
<1>4. \A k \in 0..(n - 1) : f[k + 1] = IF f[k] \in Dirs THEN t[f[k]][p[k + 1]] ELSE None
  BY <1>1, <1>2 DEF Way
<1>5. f[Len(q) + 1] # None
  <2> DEFINE D == {k \in 0..n : f[n - k] = None}
  <2>1. SUFFICES ASSUME f[Len(q) + 1] = None PROVE FALSE
    OBVIOUS
  <2>2. D \subseteq Nat /\ n - (Len(q) + 1) \in D
    BY <1>2, <2>1
  <2>3. PICK k \in D : \A j \in D : k <= j
    <3> HIDE DEF D
    <3> QED BY <2>2, Least
  <2>4. k # 0 /\ k - 1 \in 0..n /\ ~(k <= k - 1) /\ n - k \in 0..(n - 1) /\ (n - k) + 1 = n - (k - 1)
    BY <1>2, <1>3, <2>3
  <2>5. f[n - (k - 1)] # None
    BY <2>3, <2>4
  <2>6. f[n - k] = None /\ f[(n - k) + 1] = None
    BY <1>4, <2>3, <2>4, DirectoryAssumption DEF Nodes
  <2> QED BY <2>4, <2>5, <2>6
<1> QED BY <1>2, <1>3, <1>4, <1>5

\* When names only go, a path leads where it led or nowhere.
LEMMA Fewer ==
  ASSUME DirectoryAssumption, NEW t, NEW u, NEW p \in Seq(Names),
         \A x \in Dirs, m \in Names : u[x][m] \in {t[x][m], None}
  PROVE  At(u, p) \in {At(t, p), None}
<1> DEFINE n == Len(p)
<1>1. PICK f : Way(t, p, n, f) /\ \A k \in 0..n : At(t, SubSeq(p, 1, k)) = f[k]
  BY AtPrefixes
<1>2. PICK g : Way(u, p, n, g) /\ \A k \in 0..n : At(u, SubSeq(p, 1, k)) = g[k]
  BY AtPrefixes
<1>3. n \in Nat /\ p = SubSeq(p, 1, n) /\ \A k \in 1..n : p[k] \in Names
  OBVIOUS
<1> HIDE DEF n
<1>4. \A k \in 0..n : g[k] \in {f[k], None}
  <2> DEFINE D == {k \in 0..n : g[k] \notin {f[k], None}}
  <2>1. SUFFICES ASSUME D # {} PROVE FALSE
    OBVIOUS
  <2>2. PICK k \in D : \A j \in D : k <= j
    <3>1. D \subseteq Nat
      OBVIOUS
    <3> HIDE DEF D
    <3> QED BY <2>1, <3>1, Least
  <2>3. CASE k = 0
    BY <1>1, <1>2, <2>2, <2>3 DEF Way
  <2>4. CASE k # 0
    <3>1. k \in 1..n /\ k - 1 \in 0..n /\ ~(k <= k - 1)
      BY <1>3, <2>2, <2>4
    <3>2. g[k - 1] \in {f[k - 1], None}
      BY <2>2, <3>1
    <3>3. /\ f[k] = IF f[k - 1] \in Dirs THEN t[f[k - 1]][p[k]] ELSE None
          /\ g[k] = IF g[k - 1] \in Dirs THEN u[g[k - 1]][p[k]] ELSE None
      BY <1>1, <1>2, <3>1, <2>4 DEF Way
    <3>4. g[k] \in {f[k], None}
      BY <1>3, <3>1, <3>2, <3>3, DirectoryAssumption DEF Nodes
    <3> QED BY <2>2, <3>4
  <2> QED BY <2>3, <2>4
<1>5. At(t, SubSeq(p, 1, n)) = At(t, p) /\ At(u, SubSeq(p, 1, n)) = At(u, p)
  BY <1>3, Zenon
<1>6. n \in 0..n
  BY <1>3
<1> QED BY <1>1, <1>2, <1>4, <1>5, <1>6

\* Lookup, and Lookup after a step, by the table of each.
LEMMA LookupAt ==
  \A p : Lookup(p) = At(table, p) /\ Lookup(p)' = At(table', p)
BY DEF Lookup, At

-----------------------------------------------------------------------------
(* Steps                                                                   *)

\* A new iterator of the path of Target, which has found its first entry.
Pushes(it, n) ==
  /\ at = "open" /\ Len(Target) < MaxDepth /\ at' = IF n \in Dots THEN "skip" ELSE "user"
  /\ it.path = Target /\ it.listed = {n} /\ stack' = Append(stack, it) /\ Shown(it, n)
  /\ it.dir = Lookup(Target) /\ it.sure = Listing(it.dir)
  /\ UNCHANGED <<table, walk, threw, steady, changes>>

\* There is nothing in the directory of Target.
FindsNothing ==
  /\ at = "open" /\ at' = IF stack = <<>> THEN "end" ELSE "next"
  /\ Listing(Lookup(Target)) = {}
  /\ UNCHANGED <<table, walk, stack, name, threw, visited, steady, changes>>

LEMMA FindFirstForm ==
  ASSUME TypeOK, FindFirst
  PROVE  FindsNothing \/ \E it \in Iterators, n \in Names \cup Dots : Pushes(it, n)
<1>1. PICK d \in {Lookup(Target)} \cap Dirs :
        \/ /\ Listing(d) = {} /\ at' = IF stack = <<>> THEN "end" ELSE "next"
           /\ UNCHANGED <<stack, name, visited>>
        \/ \E n \in Listing(d) :
             LET it == [path |-> Target, dir |-> d, sure |-> Listing(d), listed |-> {n}]
             IN  /\ stack' = Append(stack, it) /\ Shown(it, n)
                 /\ at' = IF n \in Dots THEN "skip" ELSE "user"
  BY DEF FindFirst
<1>2. Listing(d) \subseteq Names \cup Dots
  BY DEF Listing
<1>3. ASSUME NEW n \in Listing(d)
      PROVE  [path |-> Target, dir |-> d, sure |-> Listing(d), listed |-> {n}] \in Iterators
  BY <1>2, <1>3, TargetType DEF Iterators
<1>4. /\ at = "open" /\ Len(Target) < MaxDepth
      /\ UNCHANGED <<table, walk, threw, steady, changes>>
  BY DEF FindFirst
<1>5. CASE \E n \in Listing(d) :
             LET it == [path |-> Target, dir |-> d, sure |-> Listing(d), listed |-> {n}]
             IN  /\ stack' = Append(stack, it) /\ Shown(it, n)
                 /\ at' = IF n \in Dots THEN "skip" ELSE "user"
  <2>1. PICK n \in Listing(d) :
             LET it == [path |-> Target, dir |-> d, sure |-> Listing(d), listed |-> {n}]
             IN  /\ stack' = Append(stack, it) /\ Shown(it, n)
                 /\ at' = IF n \in Dots THEN "skip" ELSE "user"
    BY <1>5
  <2> DEFINE it == [path |-> Target, dir |-> d, sure |-> Listing(d), listed |-> {n}]
  <2>2. it.path = Target /\ it.listed = {n} /\ it.dir = Lookup(Target) /\ it.sure = Listing(it.dir)
    OBVIOUS
  <2>3. Pushes(it, n)
    BY <1>4, <2>1, <2>2 DEF Pushes
  <2> QED BY <1>2, <1>3, <2>3
<1> QED BY <1>1, <1>4, <1>5 DEF FindsNothing

LEMMA ShownType ==
  ASSUME TypeOK, NEW it \in Iterators, Len(it.path) < MaxDepth, NEW n \in Names \cup Dots, Shown(it, n)
  PROVE  name' \in Paths /\ visited' \subseteq Paths
<1> USE DirectoryAssumption
<1>1. it.path \in Seq(Names)
  BY PathType DEF Iterators
<1>2. CASE n \in Dots
  BY <1>2 DEF Shown, TypeOK
<1>3. CASE n \notin Dots
  <2>1. Append(it.path, n) \in Seq(Names) /\ Len(Append(it.path, n)) <= MaxDepth
    BY <1>1, <1>3, Appended
  <2>2. Append(it.path, n) \in Paths
    BY <2>1, PathType
  <2> QED BY <1>3, <2>2 DEF Shown, TypeOK
<1> QED BY <1>2, <1>3

\* The stack without its last iterator.
LEMMA Popped ==
  ASSUME stack \in Seq(Iterators), stack # <<>>
  PROVE  /\ Parent(stack) \in Seq(Iterators) /\ Len(Parent(stack)) = Len(stack) - 1
         /\ \A i \in 1..Len(Parent(stack)) : i \in 1..Len(stack) /\ Parent(stack)[i] = stack[i]
         /\ Parent(stack) = <<>> => Len(stack) = 1
<1> DEFINE k == Len(stack) - 1
<1>1. k \in Nat /\ Len(stack) = k + 1
  BY EmptySeq
<1>2. /\ SubSeq(stack, 1, k) \in Seq(Iterators) /\ Len(SubSeq(stack, 1, k)) = k
      /\ \A i \in 1..k : SubSeq(stack, 1, k)[i] = stack[i]
  BY <1>1
<1>3. Len(<<>>) = 0
  OBVIOUS
<1> QED BY <1>1, <1>2, <1>3 DEF Parent

\* The stack after an increment found an entry.
LEMMA Marked ==
  ASSUME TypeOK, stack # <<>>, NEW n \in Names \cup Dots, More(n)
  PROVE  /\ stack' \in Seq(Iterators) /\ Len(stack') = Len(stack) /\ Top \in Iterators
         /\ \A i \in 1..Len(stack) :
              /\ stack'[i].path = stack[i].path
              /\ stack'[i].listed = IF i = Len(stack) THEN stack[i].listed \cup {n} ELSE stack[i].listed
              /\ stack'[i].dir = stack[i].dir /\ stack'[i].sure = stack[i].sure
<1>1. Len(stack) \in 1..Len(stack) /\ \A i \in 1..Len(stack) : stack[i] \in Iterators
  BY DEF TypeOK
<1>2. stack' = [stack EXCEPT ![Len(stack)] = [Top EXCEPT !.listed = @ \cup {n}]]
  BY DEF More, Top
<1>3. [Top EXCEPT !.listed = @ \cup {n}] \in Iterators
  BY <1>1 DEF Top, Iterators
<1>4. stack' \in Seq(Iterators) /\ Len(stack') = Len(stack)
  BY <1>2, <1>3 DEF TypeOK
<1>5. \A i \in 1..Len(stack) : stack'[i] = IF i = Len(stack) THEN [Top EXCEPT !.listed = @ \cup {n}] ELSE stack[i]
  BY <1>2 DEF TypeOK
<1>6. /\ [Top EXCEPT !.listed = @ \cup {n}].path = Top.path
      /\ [Top EXCEPT !.listed = @ \cup {n}].listed = Top.listed \cup {n}
      /\ [Top EXCEPT !.listed = @ \cup {n}].dir = Top.dir /\ [Top EXCEPT !.listed = @ \cup {n}].sure = Top.sure
  BY <1>1 DEF Top, Iterators
<1> QED BY <1>1, <1>4, <1>5, <1>6 DEF Top

\* The stack after others removed a name.
SameStack ==
  /\ stack' \in Seq(Iterators) /\ Len(stack') = Len(stack)
  /\ \A i \in 1..Len(stack) :
       stack'[i].path = stack[i].path /\ stack'[i].dir = stack[i].dir /\ stack'[i].listed = stack[i].listed

\* It is no longer sure to list the name n of d.
Loses(d, n) ==
  /\ \A i \in 1..Len(stack) : stack'[i].sure = IF stack[i].dir = d THEN stack[i].sure \ {n} ELSE stack[i].sure
  /\ table' = [table EXCEPT ![d][n] = None]
  /\ steady' = {p \in steady : Lookup(p)' = Lookup(p)}

\* There are only more names.
Gains ==
  /\ \A d \in Dirs, n \in Names : table[d][n] \in {table'[d][n], None}
  /\ stack' = stack /\ steady' = steady

LEMMA RemoveForm ==
  ASSUME TypeOK, NEW d \in Dirs, NEW n \in Names, Remove(d, n)
  PROVE  SameStack /\ Loses(d, n)
<1> DEFINE F(i) == IF stack[i].dir = d THEN [stack[i] EXCEPT !.sure = @ \ {n}] ELSE stack[i]
<1>1. ASSUME NEW i \in 1..Len(stack)
      PROVE  /\ F(i) \in Iterators /\ F(i).path = stack[i].path
             /\ F(i).dir = stack[i].dir /\ F(i).listed = stack[i].listed
             /\ F(i).sure = IF stack[i].dir = d THEN stack[i].sure \ {n} ELSE stack[i].sure
  <2>1. stack[i] \in Iterators
    BY DEF TypeOK
  <2> QED BY <2>1 DEF Iterators
<1>2. stack' = [i \in 1..Len(stack) |-> F(i)]
  BY DEF Remove
<1> HIDE DEF F
<1>3. stack' \in Seq(Iterators) /\ Len(stack') = Len(stack)
  <2>1. Len(stack) \in Nat
    BY DEF TypeOK
  <2>2. \A i \in 1..Len(stack) : F(i) \in Iterators
    BY <1>1
  <2> QED BY <1>2, <2>1, <2>2, IsASeq
<1>4. \A i \in 1..Len(stack) : stack'[i] = F(i)
  BY <1>2
<1>5. SameStack
  BY <1>1, <1>3, <1>4 DEF SameStack
<1> QED BY <1>1, <1>4, <1>5 DEF Remove, Loses

\* What a step does to the walk: it closes the directory on top, or passes on.
Pops ==
  /\ at \in {"skip", "next"} /\ at' = IF Len(stack) = 1 THEN "end" ELSE "next"
  /\ Top.sure \subseteq Top.listed
  /\ stack' = Parent(stack) /\ UNCHANGED <<table, walk, name, threw, visited, steady, changes>>
Marks(n) ==
  /\ at \in {"skip", "next"} /\ at' = IF n \in Dots THEN at ELSE "user"
  /\ More(n) /\ UNCHANGED <<table, walk, threw, steady, changes>>
Goes ==
  /\ UNCHANGED <<table, walk, stack, name, threw, visited, steady, changes>>
  /\ at \in {"user", "thrown", "test"} /\ stack # <<>>
  /\ \/ at # "test" /\ at' = IF walk.deep THEN "test" ELSE "next"
     \/ at = "test" /\ at' = IF Lookup(name) \in Dirs THEN "open" ELSE "next"
Others ==
  /\ SameStack /\ UNCHANGED <<walk, at, name, threw, visited>>
  /\ table' \in [Dirs -> [Names -> Nodes \cup {None}]] /\ steady' \subseteq steady
  /\ changes' \in 0..MaxChanges
  /\ Gains \/ \E d \in Dirs, n \in Names : Loses(d, n)

LEMMA StepForm ==
  ASSUME TypeOK, StackLives, [Next]_vars
  PROVE  \/ FindsNothing \/ \E it \in Iterators, n \in Names \cup Dots : Pushes(it, n)
         \/ Pops \/ \E n \in Names \cup Dots : Marks(n)
         \/ Goes \/ Throw \/ Others
<1> USE DirectoryAssumption
<1>1. CASE FindFirst
  BY <1>1, FindFirstForm
<1>2. CASE FindNext
  <2>1. CASE NoMore
    BY <1>2, <2>1 DEF FindNext, NoMore, Pops
  <2>2. ASSUME NEW n \in Names \cup Dots, More(n) PROVE Marks(n)
    BY <1>2, <2>2 DEF FindNext, More, Marks
  <2> QED BY <1>2, <2>1, <2>2 DEF FindNext
<1>3. CASE IsDirectory
  BY <1>3 DEF IsDirectory, Goes, StackLives
<1>4. CASE Increment
  BY <1>4 DEF Increment, Goes
<1>5. SameStack \/ stack' # stack
  BY DEF SameStack, TypeOK
<1>6. ASSUME NEW d \in Dirs, NEW n \in Names, Remove(d, n) PROVE Others
  <2>1. table' \in [Dirs -> [Names -> Nodes \cup {None}]]
    BY <1>6 DEF Remove, TypeOK
  <2>2. steady' \subseteq steady /\ changes' \in 0..MaxChanges
    BY <1>6 DEF Remove, TypeOK
  <2> QED BY <1>6, <2>1, <2>2, RemoveForm DEF Remove, Others
<1>7. ASSUME NEW d \in Dirs, NEW n \in Names, NEW x \in Nodes, Create(d, n, x) PROVE Others
  <2>1. table' \in [Dirs -> [Names -> Nodes \cup {None}]]
    BY <1>7 DEF Create, TypeOK
  <2>2. changes' \in 0..MaxChanges
    BY <1>7 DEF Create, TypeOK
  <2>3. Gains
    <3>1. ASSUME NEW e \in Dirs, NEW m \in Names PROVE table[e][m] \in {table'[e][m], None}
      BY <1>7 DEF Create, TypeOK
    <3> QED BY <1>7, <3>1 DEF Create, Gains
  <2> QED BY <1>5, <1>7, <2>1, <2>2, <2>3 DEF Create, Others
<1>8. CASE UNCHANGED vars
  BY <1>5, <1>8 DEF vars, Others, Gains, TypeOK
<1> QED BY <1>1, <1>2, <1>3, <1>4, <1>6, <1>7, <1>8 DEF Next, Step

-----------------------------------------------------------------------------
(* Type correctness, and the stack that every increment finds              *)

LEMMA SoundStep ==
  ASSUME Sound, [Next]_vars PROVE Sound'
<1> USE DirectoryAssumption
<1>1. TypeOK /\ StackLives /\ (at = "thrown" => threw)
  BY DEF Sound
<1>2. \A i \in 1..Len(stack) : stack[i] \in Iterators /\ Len(stack[i].path) < MaxDepth
  BY <1>1 DEF Sound, TypeOK
<1>3. CASE FindsNothing
  BY <1>1, <1>2, <1>3 DEF FindsNothing, Sound, TypeOK, StackLives
<1>4. ASSUME NEW it \in Iterators, NEW n \in Names \cup Dots, Pushes(it, n) PROVE Sound'
  <2>1. /\ stack' \in Seq(Iterators) /\ Len(stack') = Len(stack) + 1 /\ stack' # <<>>
        /\ \A i \in 1..Len(stack') : stack'[i] = IF i = Len(stack) + 1 THEN it ELSE stack[i]
    BY <1>1, <1>4, AppendProperties DEF Pushes, TypeOK
  <2>2. Len(it.path) < MaxDepth
    BY <1>4 DEF Pushes
  <2>3. name' \in Paths /\ visited' \subseteq Paths
    BY <1>1, <1>4, <2>2, ShownType DEF Pushes
  <2>4. TypeOK'
    BY <1>1, <1>4, <2>1, <2>3 DEF Pushes, TypeOK
  <2>5. \A i \in 1..Len(stack') : Len(stack'[i].path) < MaxDepth
    BY <1>1, <1>2, <2>1, <2>2 DEF TypeOK
  <2> QED BY <1>4, <2>1, <2>4, <2>5 DEF Pushes, Sound, StackLives
<1>5. CASE Pops
  <2>1. /\ stack' \in Seq(Iterators) /\ (stack' = <<>> => at' = "end")
        /\ \A i \in 1..Len(stack') : i \in 1..Len(stack) /\ stack'[i] = stack[i]
    BY <1>1, <1>5, Popped DEF Pops, TypeOK, StackLives
  <2>2. TypeOK' /\ StackLives'
    BY <1>1, <1>5, <2>1 DEF Pops, TypeOK, StackLives
  <2>3. \A i \in 1..Len(stack') : Len(stack'[i].path) < MaxDepth
    BY <1>2, <2>1
  <2> QED BY <1>5, <2>2, <2>3 DEF Pops, Sound
<1>6. ASSUME NEW n \in Names \cup Dots, Marks(n) PROVE Sound'
  <2>1. stack # <<>>
    BY <1>1, <1>6 DEF Marks, StackLives
  <2>2. /\ stack' \in Seq(Iterators) /\ Len(stack') = Len(stack) /\ Top \in Iterators
        /\ \A i \in 1..Len(stack) : stack'[i].path = stack[i].path
    BY <1>1, <1>6, <2>1, Marked DEF Marks
  <2>3. stack' # <<>> /\ Len(stack) \in 1..Len(stack)
    BY <1>1, <2>1, <2>2 DEF TypeOK
  <2>4. name' \in Paths /\ visited' \subseteq Paths
    BY <1>1, <1>2, <1>6, <2>2, <2>3, ShownType DEF Marks, More, Top
  <2>5. TypeOK' /\ StackLives'
    BY <1>1, <1>6, <2>2, <2>3, <2>4 DEF Marks, TypeOK, StackLives
  <2>6. \A i \in 1..Len(stack') : Len(stack'[i].path) < MaxDepth
    BY <1>2, <2>2
  <2> QED BY <1>6, <2>5, <2>6 DEF Marks, Sound
<1>7. CASE Goes
  BY <1>1, <1>2, <1>7 DEF Goes, Sound, TypeOK, StackLives
<1>8. CASE Throw
  <2>1. /\ stack' \in Seq(Iterators)
        /\ \A i \in 1..Len(stack') : i \in 1..Len(stack) /\ stack'[i] = stack[i]
    BY <1>1, <1>8, Popped DEF Throw, TypeOK, StackLives
  <2>2. TypeOK' /\ StackLives'
    BY <1>1, <1>8, <2>1 DEF Throw, TypeOK, StackLives
  <2>3. \A i \in 1..Len(stack') : Len(stack'[i].path) < MaxDepth
    BY <1>2, <2>1
  <2> QED BY <1>8, <2>2, <2>3 DEF Throw, Sound
<1>9. CASE Others
  <2>1. TypeOK' /\ StackLives'
    BY <1>1, <1>9 DEF Others, SameStack, TypeOK, StackLives
  <2>2. \A i \in 1..Len(stack') : Len(stack'[i].path) < MaxDepth
    BY <1>2, <1>9 DEF Others, SameStack
  <2> QED BY <1>1, <1>9, <2>1, <2>2 DEF Others, Sound
<1> QED BY <1>1, <1>3, <1>4, <1>5, <1>6, <1>7, <1>8, <1>9, StepForm

-----------------------------------------------------------------------------
(* The path to what is shown                                               *)

PathInv == Chain /\ Leads /\ Listed /\ Fresh

\* The types the lemmas below rest on.
LEMMA PathTypes ==
  ASSUME Sound
  PROVE  /\ Len(stack) \in Nat /\ stack \in Seq(Iterators)
         /\ \A i \in 1..Len(stack) : stack[i].path \in Seq(Names) /\ Len(stack[i].path) \in Nat
         /\ name \in Seq(Names) /\ Target \in Seq(Names) /\ Len(Target) \in Nat
         /\ \A p \in visited : p \in Seq(Names) /\ Len(p) \in Nat
<1>1. TypeOK
  BY DEF Sound
<1>2. Target \in Paths
  BY <1>1, TargetType
<1>3. ASSUME NEW i \in 1..Len(stack) PROVE stack[i].path \in Paths
  <2>1. stack[i] \in Iterators
    BY <1>1 DEF TypeOK
  <2> QED BY <2>1 DEF Iterators
<1>4. name \in Paths /\ visited \subseteq Paths /\ stack \in Seq(Iterators)
  BY <1>1 DEF TypeOK
<1> QED BY <1>2, <1>3, <1>4, PathType

LEMMA PushPaths ==
  ASSUME Sound, PathInv, NEW it \in Iterators, NEW n \in Names \cup Dots, Pushes(it, n)
  PROVE  PathInv'
<1> DEFINE L == Len(stack)
<1>1. /\ at = "open" /\ L \in Nat /\ Target \in Seq(Names) /\ it.path = Target /\ it.listed = {n}
      /\ \A p \in visited : p \in Seq(Names) /\ Len(p) \in Nat
  BY PathTypes DEF Pushes
<1>2. /\ Len(stack') = L + 1 /\ stack' # <<>>
      /\ \A i \in 1..L : stack'[i] = stack[i]
      /\ stack'[L + 1] = it
  BY PathTypes, AppendProperties DEF Pushes
<1>3. Len(Target) = L /\ \A i \in 1..L : Agree(Target, stack[i].path, i - 1) /\ Target[i] \in stack[i].listed
  BY <1>1 DEF PathInv, Leads, AtPath
<1>4. Chain'
  <2>1. SUFFICES ASSUME NEW j \in 1..(L + 1)
                 PROVE  /\ Len(stack'[j].path) = j - 1
                        /\ \A i \in 1..(j - 1) : /\ Agree(stack'[j].path, stack'[i].path, i - 1)
                                                 /\ stack'[j].path[i] \in stack'[i].listed
    BY <1>2 DEF Chain, Agree
  <2>2. CASE j = L + 1
    BY <1>1, <1>2, <1>3, <2>2
  <2>3. CASE j # L + 1
    <3>1. j \in 1..L /\ \A i \in 1..(j - 1) : i \in 1..L
      BY <1>1, <2>3
    <3> QED BY <1>2, <3>1 DEF PathInv, Chain
  <2> QED BY <2>2, <2>3
<1>5. CASE n \in Dots
  <2>1. visited' = visited /\ at' = "skip"
    BY <1>5 DEF Pushes, Shown
  <2>2. Listed'
    <3>1. SUFFICES ASSUME NEW p \in visited, NEW i \in 1..(L + 1), Len(p) >= i, Agree(p, stack'[i].path, i - 1)
                   PROVE  p[i] \in stack'[i].listed
      BY <1>2, <2>1 DEF Listed, Agree
    <3>2. CASE i = L + 1
      BY <1>1, <1>2, <1>3, <3>1, <3>2 DEF PathInv, Fresh, AtPath
    <3>3. CASE i # L + 1
      <4>1. i \in 1..L
        BY <1>1, <3>3
      <4> QED BY <1>2, <3>1, <4>1 DEF PathInv, Listed
    <3> QED BY <3>2, <3>3
  <2> QED BY <1>4, <2>1, <2>2 DEF PathInv, Leads, Fresh, AtPath
<1>6. CASE n \notin Dots
  <2>1. /\ name' = Append(Target, n) /\ visited' = visited \cup {name'} /\ at' = "user"
        /\ Target' = name'
    BY <1>1, <1>2, <1>6 DEF Pushes, Shown, Target
  <2>2. Len(name') = L + 1 /\ Agree(name', Target, L) /\ name'[L + 1] = n
    BY <1>1, <1>3, <1>6, <2>1, Appended
  <2>3. \A i \in 1..(L + 1) : Agree(name', stack'[i].path, i - 1) /\ name'[i] \in stack'[i].listed
    BY <1>1, <1>2, <1>3, <2>2 DEF Agree
  <2>4. Leads'
    BY <1>2, <2>1, <2>2, <2>3 DEF Leads, Agree
  <2>5. \A p \in visited : Len(p) > L => ~Agree(p, Target, L)
    BY <1>1, <1>3 DEF PathInv, Fresh, AtPath
  <2>6. Listed'
    <3>1. SUFFICES ASSUME NEW p \in visited', NEW i \in 1..(L + 1), Len(p) >= i, Agree(p, stack'[i].path, i - 1)
                   PROVE  p[i] \in stack'[i].listed
      BY <1>2 DEF Listed, Agree
    <3>2. CASE p = name'
      BY <2>3, <3>2
    <3>3. CASE p \in visited /\ i = L + 1
      BY <1>1, <1>2, <2>5, <3>1, <3>3
    <3>4. CASE p \in visited /\ i # L + 1
      <4>1. i \in 1..L
        BY <1>1, <3>4
      <4> QED BY <1>2, <3>1, <3>4, <4>1 DEF PathInv, Listed
    <3> QED BY <2>1, <3>2, <3>3, <3>4
  <2>7. Fresh'
    <3>1. SUFFICES ASSUME NEW p \in visited', Len(p) > L + 1, Agree(p, name', L + 1)
                   PROVE  FALSE
      BY <2>1, <2>2 DEF Fresh, Agree
    <3>2. p \in visited
      BY <1>1, <2>1, <2>2, <3>1
    <3>3. Agree(p, Target, L)
      BY <1>1, <2>2, <3>1 DEF Agree
    <3> QED BY <1>1, <2>5, <3>1, <3>2, <3>3
  <2> QED BY <1>4, <2>4, <2>6, <2>7 DEF PathInv
<1> QED BY <1>5, <1>6

LEMMA MarkPaths ==
  ASSUME Sound, PathInv, NEW n \in Names \cup Dots, Marks(n)
  PROVE  PathInv' /\ (n \notin Dots => name' \notin visited)
<1> DEFINE L == Len(stack)
<1>1. /\ stack # <<>> /\ L \in 1..L /\ L \in Nat /\ Top \in Iterators
      /\ Top.path \in Seq(Names) /\ Top = stack[L] /\ n \notin Top.listed
  BY PathTypes DEF Sound, StackLives, Marks, More, Top
<1>2. /\ Len(stack') = L /\ stack' # <<>>
      /\ \A i \in 1..L :
           /\ stack'[i].path = stack[i].path
           /\ stack'[i].listed = IF i = L THEN stack[i].listed \cup {n} ELSE stack[i].listed
  <2>1. TypeOK
    BY DEF Sound
  <2>2. /\ stack' \in Seq(Iterators) /\ Len(stack') = L
        /\ \A i \in 1..L :
             /\ stack'[i].path = stack[i].path
             /\ stack'[i].listed = IF i = L THEN stack[i].listed \cup {n} ELSE stack[i].listed
    BY <1>1, <2>1, Marked DEF Marks
  <2>3. stack' # <<>>
    BY <1>1, <2>2
  <2> QED BY <2>2, <2>3
<1>3. /\ Len(Top.path) = L - 1
      /\ \A i \in 1..(L - 1) : Agree(Top.path, stack[i].path, i - 1) /\ Top.path[i] \in stack[i].listed
  BY <1>1 DEF PathInv, Chain
<1>4. \A i \in 1..L : stack[i].listed \subseteq stack'[i].listed
  BY <1>2
<1>5. Chain'
  <2>1. ASSUME NEW j \in 1..L
        PROVE  /\ Len(stack'[j].path) = j - 1
               /\ \A i \in 1..(j - 1) : /\ Agree(stack'[j].path, stack'[i].path, i - 1)
                                        /\ stack'[j].path[i] \in stack'[i].listed
    <3>1. \A i \in 1..(j - 1) : i \in 1..L
      BY <1>1
    <3> QED BY <1>2, <1>4, <3>1 DEF PathInv, Chain
  <2> QED BY <1>2, <2>1 DEF Chain, Agree
<1>6. ASSUME NEW p \in visited, NEW i \in 1..L, Len(p) >= i, Agree(p, stack'[i].path, i - 1)
      PROVE  p[i] \in stack'[i].listed
  <2>1. Agree(p, stack[i].path, i - 1)
    BY <1>2, <1>6
  <2>2. p[i] \in stack[i].listed
    BY <1>6, <2>1 DEF PathInv, Listed
  <2> QED BY <1>4, <2>2
<1>7. CASE n \in Dots
  <2>1. visited' = visited /\ ~AtPath'
    BY <1>7 DEF Marks, More, Shown, AtPath
  <2>2. Listed'
    BY <1>2, <1>6, <2>1 DEF Listed, Agree
  <2> QED BY <1>5, <1>7, <2>1, <2>2 DEF PathInv, Leads, Fresh
<1>8. CASE n \notin Dots
  <2>1. /\ name' = Append(Top.path, n) /\ visited' = visited \cup {name'} /\ at' = "user"
        /\ Target' = name'
    BY <1>2, <1>8 DEF Marks, More, Shown, Target
  <2>2. Len(name') = L /\ Agree(name', Top.path, L - 1) /\ name'[L] = n
    BY <1>1, <1>3, <1>8, <2>1, Appended
  <2>3. ASSUME NEW i \in 1..L PROVE Agree(name', stack'[i].path, i - 1) /\ name'[i] \in stack'[i].listed
    <3>1. CASE i = L
      BY <1>1, <1>2, <2>2, <3>1
    <3>2. CASE i # L
      <4>1. i \in 1..(L - 1)
        BY <1>1, <3>2
      <4>2. stack'[i].path = stack[i].path /\ stack[i].listed \subseteq stack'[i].listed
        BY <1>2, <1>4
      <4>3. Agree(Top.path, stack[i].path, i - 1) /\ Top.path[i] \in stack[i].listed
        BY <1>3, <4>1
      <4>4. name'[i] = Top.path[i] /\ \A m \in 1..(i - 1) : name'[m] = Top.path[m]
        BY <1>1, <2>2, <4>1 DEF Agree
      <4>5. Agree(name', stack[i].path, i - 1)
        BY <4>3, <4>4 DEF Agree
      <4> QED BY <4>2, <4>3, <4>4, <4>5
    <3> QED BY <3>1, <3>2
  <2>4. Leads'
    BY <1>2, <2>1, <2>2, <2>3 DEF Leads, Agree
  <2>5. Listed'
    BY <1>2, <1>6, <2>1, <2>3 DEF Listed, Agree
  <2>6. \A p \in visited : Len(p) >= L => ~Agree(p, name', L)
    <3>1. SUFFICES ASSUME NEW p \in visited, Len(p) >= L, Agree(p, name', L) PROVE FALSE
      OBVIOUS
    <3>2. Agree(p, Top.path, L - 1) /\ p[L] = n
      BY <1>1, <2>2, <3>1 DEF Agree
    <3> QED BY <1>1, <3>1, <3>2 DEF PathInv, Listed
  <2>7. name' \notin visited
    BY <1>1, <2>2, <2>6 DEF Agree
  <2>8. Fresh'
    <3>1. SUFFICES ASSUME NEW p \in visited', Len(p) > L, Agree(p, name', L) PROVE FALSE
      BY <2>1, <2>2 DEF Fresh, Agree
    <3> QED BY <1>1, <2>1, <2>2, <2>6, <3>1, PathTypes
  <2> QED BY <1>5, <2>4, <2>5, <2>7, <2>8 DEF PathInv
<1> QED BY <1>7, <1>8

\* What is below the top stays a path, and nothing is taken from it.
LEMMA PopPaths ==
  ASSUME Sound, PathInv, Pops PROVE PathInv'
<1>1. /\ \A i \in 1..Len(stack') : i \in 1..Len(stack) /\ stack'[i] = stack[i]
      /\ Len(stack') \in Nat
  BY Popped, PathTypes DEF Sound, StackLives, Pops
<1>2. visited' = visited /\ ~AtPath'
  BY DEF Pops, AtPath
<1>3. Chain'
  <2>1. ASSUME NEW j \in 1..Len(stack')
        PROVE  /\ Len(stack'[j].path) = j - 1
               /\ \A i \in 1..(j - 1) : /\ Agree(stack'[j].path, stack'[i].path, i - 1)
                                        /\ stack'[j].path[i] \in stack'[i].listed
    <3>1. \A i \in 1..(j - 1) : i \in 1..Len(stack')
      BY <1>1
    <3>2. j \in 1..Len(stack) /\ stack'[j] = stack[j]
      BY <1>1
    <3> QED BY <1>1, <3>1, <3>2 DEF PathInv, Chain
  <2> QED BY <2>1 DEF Chain, Agree
<1>4. Listed'
  <2>1. ASSUME NEW p \in visited, NEW i \in 1..Len(stack'), Len(p) >= i, Agree(p, stack'[i].path, i - 1)
        PROVE  p[i] \in stack'[i].listed
    BY <1>1, <2>1 DEF PathInv, Listed
  <2> QED BY <1>2, <2>1 DEF Listed, Agree
<1> QED BY <1>2, <1>3, <1>4 DEF PathInv, Leads, Fresh

\* A step that leaves paths and lists alone, and the path the walk is at.
LEMMA SamePaths ==
  ASSUME Sound, PathInv, SameStack, UNCHANGED <<name, visited>>, AtPath' => AtPath
  PROVE  PathInv'
<1>1. Len(stack') = Len(stack) /\ Len(stack) \in Nat /\ (stack' = <<>> <=> stack = <<>>)
  BY PathTypes DEF SameStack
<1>2. \A i \in 1..Len(stack) : stack'[i].path = stack[i].path /\ stack'[i].listed = stack[i].listed
  BY DEF SameStack
<1>3. Chain'
  <2>1. ASSUME NEW j \in 1..Len(stack)
        PROVE  /\ Len(stack'[j].path) = j - 1
               /\ \A i \in 1..(j - 1) : /\ Agree(stack'[j].path, stack'[i].path, i - 1)
                                        /\ stack'[j].path[i] \in stack'[i].listed
    <3>1. \A i \in 1..(j - 1) : i \in 1..Len(stack)
      BY <1>1
    <3> QED BY <1>2, <3>1 DEF PathInv, Chain
  <2> QED BY <1>1, <2>1 DEF Chain, Agree
<1>4. Target' = Target
  BY <1>1 DEF Target
<1>5. Listed'
  <2>1. ASSUME NEW p \in visited, NEW i \in 1..Len(stack), Len(p) >= i, Agree(p, stack'[i].path, i - 1)
        PROVE  p[i] \in stack'[i].listed
    BY <1>2, <2>1 DEF PathInv, Listed
  <2> QED BY <1>1, <2>1 DEF Listed, Agree
<1>6. Leads'
  <2>1. SUFFICES ASSUME AtPath
                 PROVE  /\ Len(Target) = Len(stack)
                        /\ \A i \in 1..Len(stack) : Agree(Target, stack'[i].path, i - 1) /\ Target[i] \in stack'[i].listed
    BY <1>1, <1>4 DEF Leads, Agree
  <2> QED BY <1>2, <2>1 DEF PathInv, Leads
<1>7. Fresh'
  BY <1>4 DEF PathInv, Fresh, Agree
<1> QED BY <1>3, <1>5, <1>6, <1>7 DEF PathInv

LEMMA PathStep ==
  ASSUME IInv, [Next]_vars, ~threw' PROVE PathInv'
<1>1. Sound /\ TypeOK /\ StackLives /\ (at = "thrown" => threw)
  BY DEF IInv, Sound
<1>2. ~Throw /\ threw' = threw /\ PathInv
  <2>1. ~Throw
    BY DEF Throw
  <2>2. threw' = threw
    BY <1>1, <2>1, StepForm DEF FindsNothing, Pushes, Pops, Marks, Goes, Others
  <2> QED BY <2>1, <2>2 DEF IInv, PathInv
<1>3. SameStack \/ stack' # stack
  BY <1>1 DEF SameStack, TypeOK
<1>4. CASE FindsNothing
  BY <1>1, <1>2, <1>3, <1>4, SamePaths DEF FindsNothing, AtPath
<1>5. CASE Goes
  BY <1>1, <1>2, <1>3, <1>5, SamePaths DEF Goes, AtPath
<1>6. CASE Others
  BY <1>1, <1>2, <1>6, SamePaths DEF Others, AtPath
<1> QED BY <1>1, <1>2, <1>4, <1>5, <1>6, StepForm, PushPaths, MarkPaths, PopPaths

-----------------------------------------------------------------------------
(* Everything that was there all along                                     *)

\* The types the lemmas below rest on.
LEMMA SteadyTypes ==
  ASSUME Sound, There
  PROVE  \A p \in steady : p \in Seq(Names) /\ p # <<>> /\ Len(p) \in Nat /\ At(table, p) # None
<1>1. steady \subseteq Paths
  BY DEF Sound, TypeOK
<1> QED BY <1>1, PathType, LookupAt DEF There

\* What is inside q is so by its next name, which the directory of q lists.
LEMMA Within ==
  ASSUME Sound, There, NEW p \in steady, NEW q \in Seq(Names), Below(p, q)
  PROVE  /\ Lookup(q) \in Dirs /\ p[Len(q) + 1] \in Listing(Lookup(q))
         /\ p[Len(q) + 1] \in Names \ Dots
         /\ p = Append(q, p[Len(q) + 1]) \/ Below(p, Append(q, p[Len(q) + 1]))
<1> DEFINE n == p[Len(q) + 1]
<1> USE DirectoryAssumption
<1>1. p \in Seq(Names) /\ At(table, p) # None /\ Len(q) < Len(p) /\ Agree(p, q, Len(q))
  BY SteadyTypes DEF Below
<1>2. At(table, q) \in Dirs /\ table[At(table, q)][n] # None
  BY <1>1, OnTheWay
<1>3. n \in Names /\ Len(q) + 1 \in 1..Len(p)
  BY <1>1
<1>4. /\ Append(q, n) \in Seq(Names) /\ Len(Append(q, n)) = Len(q) + 1
      /\ Agree(Append(q, n), q, Len(q)) /\ Append(q, n)[Len(q) + 1] = n
  BY <1>3, Appended
<1>5. Agree(p, Append(q, n), Len(q) + 1)
  <2>1. ASSUME NEW i \in 1..(Len(q) + 1) PROVE p[i] = Append(q, n)[i]
    <3>1. CASE i = Len(q) + 1
      BY <1>4, <3>1
    <3>2. CASE i # Len(q) + 1
      <4>1. i \in 1..Len(q)
        BY <3>2
      <4> QED BY <1>1, <1>4, <4>1 DEF Agree
    <3> QED BY <3>1, <3>2
  <2> QED BY <2>1 DEF Agree
<1>6. p = Append(q, n) \/ Below(p, Append(q, n))
  <2>1. CASE Len(p) = Len(q) + 1
    <3>1. \A i \in 1..Len(p) : p[i] = Append(q, n)[i]
      BY <1>5, <2>1 DEF Agree
    <3> QED BY <1>1, <1>4, <2>1, <3>1, SeqEqual
  <2>2. CASE Len(p) # Len(q) + 1
    BY <1>1, <1>3, <1>4, <1>5, <2>2 DEF Below
  <2> QED BY <2>1, <2>2
<1> QED BY <1>2, <1>3, <1>6, LookupAt DEF Listing

\* An entry n of the directory of q is shown: what is inside it has been shown or
\* is inside the path shown.
LEMMA ShownHolds ==
  ASSUME Sound, There, NEW p \in steady, NEW it, it.path \in Seq(Names), Below(p, it.path),
         Shown(it, p[Len(it.path) + 1])
  PROVE  p \in visited' \/ Below(p, name')
<1> DEFINE n == p[Len(it.path) + 1]
<1>1. /\ n \notin Dots
      /\ p = Append(it.path, n) \/ Below(p, Append(it.path, n))
  BY Within
<1>2. name' = Append(it.path, n) /\ visited' = visited \cup {name'}
  BY <1>1 DEF Shown
<1> HIDE DEF n
<1>3. CASE p = Append(it.path, n)
  BY <1>2, <1>3
<1>4. CASE Below(p, Append(it.path, n))
  BY <1>2, <1>4
<1> QED BY <1>1, <1>3, <1>4

\* A step that leaves the tree alone.
LEMMA ThereSame ==
  ASSUME There, UNCHANGED <<table, steady>> PROVE There'
BY LookupAt DEF There

LEMMA PushComplete ==
  ASSUME CInv, NEW it \in Iterators, NEW n \in Names \cup Dots, Pushes(it, n)
  PROVE  Held'
<1> DEFINE L == Len(stack)
<1>1. /\ at = "open" /\ L \in Nat /\ Target \in Seq(Names) /\ it.path = Target /\ it.listed = {n}
      /\ it.dir = Lookup(Target) /\ it.sure = Listing(it.dir) /\ Sound /\ There
      /\ UNCHANGED <<table, walk, steady>> /\ Shown(it, n)
  BY PathTypes DEF Pushes, CInv, Held
<1>2. /\ Len(stack') = L + 1 /\ stack' # <<>> /\ stack'[L + 1] = it
      /\ \A i \in 1..L : stack'[i] = stack[i]
      /\ L + 1 \in 1..Len(stack')
  BY PathTypes, AppendProperties DEF Pushes, CInv, Held
<1>3. name = Target
  BY <1>1 DEF CInv, Held, Named, Target
<1>4. visited \subseteq visited'
  BY <1>1 DEF Shown
<1>5. There'
  BY <1>1, ThereSame
<1>6. Sure'
  <2>1. SUFFICES ASSUME NEW p \in steady, NEW i \in 1..(L + 1), Below(p, stack'[i].path)
                 PROVE  /\ At(table, stack'[i].path) = stack'[i].dir
                        /\ p[Len(stack'[i].path) + 1] \in stack'[i].sure
    BY <1>1, <1>2, LookupAt DEF Sure, Below, Agree
  <2>2. CASE i = L + 1
    <3>1. stack'[i].path = Target /\ stack'[i].dir = Lookup(Target) /\ stack'[i].sure = Listing(Lookup(Target))
      BY <1>1, <1>2, <2>2
    <3>2. Below(p, Target)
      BY <2>1, <3>1
    <3>3. p[Len(Target) + 1] \in Listing(Lookup(Target))
      BY <1>1, <3>2, Within
    <3> QED BY <3>1, <3>3, LookupAt
  <2>3. CASE i # L + 1
    <3>1. i \in 1..L /\ stack'[i] = stack[i]
      BY <1>1, <1>2, <2>3
    <3> QED BY <2>1, <3>1, LookupAt DEF CInv, Held, Sure
  <2> QED BY <2>2, <2>3
<1>7. Pending'
  <2>1. SUFFICES ASSUME NEW p \in steady, walk.deep \/ Len(p) = 1
                 PROVE  \/ p \in visited'
                        \/ AtName' /\ Below(p, name')
                        \/ \E i \in 1..(L + 1) : /\ Below(p, stack'[i].path)
                                                 /\ p[Len(stack'[i].path) + 1] \notin stack'[i].listed
    BY <1>1, <1>2 DEF Pending, Below, Agree
  <2>2. CASE p \in visited
    BY <1>4, <2>2
  <2>3. CASE Below(p, name)
    <3>1. Below(p, it.path) /\ it.path \in Seq(Names)
      BY <1>1, <1>3, <2>3
    <3>2. CASE p[Len(it.path) + 1] = n
      <4>1. n \notin Dots
        BY <1>1, <3>1, <3>2, Within
      <4>2. AtName'
        BY <4>1 DEF Pushes, AtName
      <4> QED BY <1>1, <3>1, <3>2, <4>2, ShownHolds
    <3>3. CASE p[Len(it.path) + 1] # n
      <4>1. Below(p, stack'[L + 1].path) /\ p[Len(stack'[L + 1].path) + 1] \notin stack'[L + 1].listed
        BY <1>1, <1>2, <3>1, <3>3
      <4> QED BY <1>2, <4>1
    <3> QED BY <3>2, <3>3
  <2>4. ASSUME NEW i \in 1..L, Below(p, stack[i].path), p[Len(stack[i].path) + 1] \notin stack[i].listed
        PROVE  \E j \in 1..(L + 1) : /\ Below(p, stack'[j].path)
                                     /\ p[Len(stack'[j].path) + 1] \notin stack'[j].listed
    <3>1. i \in 1..(L + 1) /\ stack'[i] = stack[i]
      BY <1>1, <1>2
    <3> QED BY <2>4, <3>1
  <2> QED BY <2>1, <2>2, <2>3, <2>4 DEF CInv, Held, Pending
<1>8. Named'
  <2>1. CASE n \in Dots
    <3>1. name' = name /\ at' = "skip" /\ (name = <<>> => stack = <<>>)
      BY <1>1, <2>1 DEF Pushes, Shown, CInv, Held, Named
    <3>2. stack = <<>> => L + 1 = 1
      BY <1>1
    <3>3. Top' = it
      BY <1>1, <1>2 DEF Top
    <3> QED BY <1>1, <1>2, <1>3, <3>1, <3>2, <3>3 DEF Named
  <2>2. CASE n \notin Dots
    <3>1. name' = Append(Target, n) /\ at' = "user" /\ Len(Append(Target, n)) = Len(Target) + 1
      BY <1>1, <2>2, Appended DEF Pushes, Shown
    <3>2. name' # <<>>
      BY <1>1, <3>1
    <3> QED BY <3>1, <3>2 DEF Named
  <2> QED BY <2>1, <2>2
<1> QED BY <1>5, <1>6, <1>7, <1>8 DEF Held

LEMMA MarkComplete ==
  ASSUME CInv, NEW n \in Names \cup Dots, Marks(n) PROVE Held'
<1> DEFINE L == Len(stack)
<1>1. /\ stack # <<>> /\ L \in 1..L /\ L \in Nat /\ Top = stack[L] /\ Top.path \in Seq(Names) /\ Shown(Top, n)
      /\ Sound /\ There /\ TypeOK /\ UNCHANGED <<table, walk, steady>> /\ ~AtName
  BY PathTypes DEF CInv, Held, Sound, StackLives, Marks, More, Top, AtName
<1>2. /\ Len(stack') = L
      /\ \A i \in 1..L :
           /\ stack'[i].path = stack[i].path /\ stack'[i].dir = stack[i].dir /\ stack'[i].sure = stack[i].sure
           /\ stack'[i].listed = IF i = L THEN stack[i].listed \cup {n} ELSE stack[i].listed
  BY <1>1, Marked DEF Marks
<1>3. visited \subseteq visited'
  BY <1>1 DEF Shown
<1>4. There'
  BY <1>1, ThereSame
<1>5. Sure'
  <2>1. SUFFICES ASSUME NEW p \in steady, NEW i \in 1..L, Below(p, stack'[i].path)
                 PROVE  /\ At(table, stack'[i].path) = stack'[i].dir
                        /\ p[Len(stack'[i].path) + 1] \in stack'[i].sure
    BY <1>1, <1>2, LookupAt DEF Sure, Below, Agree
  <2> QED BY <1>2, <2>1, LookupAt DEF CInv, Held, Sure
<1>6. Pending'
  <2>1. SUFFICES ASSUME NEW p \in steady, walk.deep \/ Len(p) = 1
                 PROVE  \/ p \in visited'
                        \/ AtName' /\ Below(p, name')
                        \/ \E i \in 1..L : /\ Below(p, stack'[i].path)
                                           /\ p[Len(stack'[i].path) + 1] \notin stack'[i].listed
    BY <1>1, <1>2 DEF Pending, Below, Agree
  <2>2. CASE p \in visited
    BY <1>3, <2>2
  <2>3. ASSUME NEW i \in 1..L, Below(p, stack[i].path), p[Len(stack[i].path) + 1] \notin stack[i].listed
        PROVE  \/ p \in visited'
               \/ AtName' /\ Below(p, name')
               \/ \E j \in 1..L : /\ Below(p, stack'[j].path)
                                  /\ p[Len(stack'[j].path) + 1] \notin stack'[j].listed
    <3>1. CASE i = L /\ p[Len(stack[i].path) + 1] = n
      <4>1. Below(p, Top.path) /\ p[Len(Top.path) + 1] = n
        BY <1>1, <2>3, <3>1
      <4>2. n \notin Dots
        BY <1>1, <4>1, Within
      <4>3. AtName'
        BY <4>2 DEF Marks, More, AtName
      <4> QED BY <1>1, <4>1, <4>3, ShownHolds
    <3>2. CASE ~(i = L /\ p[Len(stack[i].path) + 1] = n)
      <4>1. Below(p, stack'[i].path) /\ p[Len(stack'[i].path) + 1] \notin stack'[i].listed
        BY <1>2, <2>3, <3>2
      <4> QED BY <4>1
    <3> QED BY <3>1, <3>2
  <2> QED BY <1>1, <2>1, <2>2, <2>3 DEF CInv, Held, Pending
<1>7. Named'
  <2>1. stack' # <<>> /\ Top'.path = Top.path
    <3>1. stack' # <<>>
      BY <1>1, <1>2
    <3>2. stack'[L].path = stack[L].path
      BY <1>1, <1>2
    <3> QED BY <1>2, <3>1, <3>2 DEF Top
  <2>2. CASE n \in Dots
    BY <1>1, <1>2, <2>1, <2>2 DEF CInv, Held, Named, Marks, More, Shown
  <2>3. CASE n \notin Dots
    <3>1. name' = Append(Top.path, n) /\ at' = "user" /\ Len(Append(Top.path, n)) = Len(Top.path) + 1
      BY <1>1, <2>3, Appended DEF Marks, More, Shown
    <3>2. name' # <<>>
      BY <1>1, <3>1
    <3> QED BY <3>1, <3>2 DEF Named
  <2> QED BY <2>2, <2>3
<1> QED BY <1>4, <1>5, <1>6, <1>7 DEF Held

\* The directory that is closed has listed everything it was sure of.
LEMMA PopComplete ==
  ASSUME CInv, Pops PROVE Held'
<1> DEFINE L == Len(stack)
<1>1. /\ stack # <<>> /\ L \in Nat /\ Top = stack[L]
      /\ Sound /\ There /\ UNCHANGED <<table, walk, steady, visited, name>> /\ ~AtName
      /\ Top.sure \subseteq Top.listed /\ at' = IF L = 1 THEN "end" ELSE "next"
  BY PathTypes DEF CInv, Held, Sound, StackLives, Pops, Top, AtName
<1>2. /\ Len(stack') = L - 1 /\ (L = 1 => stack' = <<>>)
      /\ \A i \in 1..(L - 1) : i \in 1..L /\ i \in 1..Len(stack') /\ stack'[i] = stack[i]
  <2>1. stack' \in Seq(Iterators) /\ Len(stack') = L - 1 /\ \A i \in 1..Len(stack') : i \in 1..L /\ stack'[i] = stack[i]
    BY <1>1, PathTypes, Popped DEF Pops
  <2>2. L = 1 => stack' = <<>>
    BY <2>1, EmptySeq
  <2> QED BY <2>1, <2>2
<1>3. There'
  BY <1>1, ThereSame
<1>4. Sure'
  <2>1. SUFFICES ASSUME NEW p \in steady, NEW i \in 1..(L - 1), Below(p, stack'[i].path)
                 PROVE  /\ At(table, stack'[i].path) = stack'[i].dir
                        /\ p[Len(stack'[i].path) + 1] \in stack'[i].sure
    BY <1>1, <1>2, LookupAt DEF Sure, Below, Agree
  <2> QED BY <1>2, <2>1, LookupAt DEF CInv, Held, Sure
<1>5. Pending'
  <2>1. SUFFICES ASSUME NEW p \in steady, walk.deep \/ Len(p) = 1
                 PROVE  \/ p \in visited
                        \/ \E i \in 1..(L - 1) : /\ Below(p, stack'[i].path)
                                                 /\ p[Len(stack'[i].path) + 1] \notin stack'[i].listed
    BY <1>1, <1>2 DEF Pending, Below, Agree
  <2>2. ASSUME NEW i \in 1..L, Below(p, stack[i].path), p[Len(stack[i].path) + 1] \notin stack[i].listed
        PROVE  i \in 1..(L - 1)
    <3>1. p[Len(stack[i].path) + 1] \in stack[i].sure
      BY <2>2 DEF CInv, Held, Sure
    <3> QED BY <1>1, <2>2, <3>1
  <2> QED BY <1>1, <1>2, <2>1, <2>2 DEF CInv, Held, Pending
<1>6. Named'
  BY <1>1, <1>2 DEF CInv, Held, Named
<1> QED BY <1>3, <1>4, <1>5, <1>6 DEF Held

\* A step that leaves the tree and the stack alone.
LEMMA SameComplete ==
  ASSUME CInv, UNCHANGED <<table, walk, stack, name, visited, steady>>, Named',
         \A p \in steady : (walk.deep \/ Len(p) = 1) /\ AtName /\ ~AtName' => ~Below(p, name)
  PROVE  Held'
<1>1. There'
  BY ThereSame DEF CInv, Held
<1>2. Sure'
  BY LookupAt DEF CInv, Held, Sure, Below, Agree
<1>3. Pending'
  BY DEF CInv, Held, Pending, Below, Agree
<1> QED BY <1>1, <1>2, <1>3 DEF Held

LEMMA NothingComplete ==
  ASSUME CInv, FindsNothing PROVE Held'
<1>1. name = Target /\ Target \in Seq(Names) /\ Sound /\ There
  BY PathTypes DEF CInv, Held, Named, Target, FindsNothing
<1>2. ASSUME NEW p \in steady PROVE ~Below(p, name)
  BY <1>1, Within DEF FindsNothing
<1>3. Named'
  BY DEF CInv, Held, Named, FindsNothing
<1> QED BY <1>2, <1>3, SameComplete DEF FindsNothing

LEMMA GoesComplete ==
  ASSUME CInv, Goes PROVE Held'
<1>1. name \in Seq(Names) /\ Sound /\ There /\ Len(name) \in Nat /\ name # <<>>
  BY PathTypes DEF CInv, Held, Named, Goes
<1>2. ASSUME NEW p \in steady, walk.deep \/ Len(p) = 1, AtName, ~AtName' PROVE ~Below(p, name)
  <2>1. CASE at = "test"
    BY <1>1, <1>2, <2>1, Within DEF Goes, AtName
  <2>2. CASE at # "test"
    <3>1. Len(p) = 1 /\ Len(name) # 0
      BY <1>1, <1>2, <2>2, EmptySeq DEF Goes, AtName
    <3> QED BY <1>1, <3>1 DEF Below
  <2> QED BY <2>1, <2>2
<1>3. Named'
  BY <1>1 DEF Named, Goes
<1> QED BY <1>2, <1>3, SameComplete DEF Goes

\* An exception drops an iterator whose path is the one shown.
LEMMA ThrowComplete ==
  ASSUME CInv, Throw PROVE Held'
<1> DEFINE L == Len(stack)
<1>1. /\ at' = "thrown" /\ AtName' /\ Sound /\ There /\ Named /\ Pending /\ Sure
      /\ UNCHANGED <<table, walk, name, visited, steady>> /\ L \in Nat
  BY PathTypes DEF Throw, CInv, Held, AtName
<1>2. CASE at # "skip"
  <2>1. stack' = stack
    BY <1>2 DEF Throw
  <2>2. Named'
    BY <1>1, <1>2, <2>1 DEF Named
  <2> QED BY <1>1, <2>1, <2>2, SameComplete
<1>3. CASE at = "skip"
  <2>1. /\ stack # <<>> /\ Top = stack[L] /\ Top.path = name /\ stack' = Parent(stack)
    BY <1>1, <1>3 DEF Throw, Named, Top, Sound, StackLives
  <2>2. /\ Len(stack') = L - 1 /\ (L = 1 => stack' = <<>>)
        /\ \A i \in 1..(L - 1) : i \in 1..L /\ i \in 1..Len(stack') /\ stack'[i] = stack[i]
    <3>1. stack' \in Seq(Iterators) /\ Len(stack') = L - 1 /\ \A i \in 1..Len(stack') : i \in 1..L /\ stack'[i] = stack[i]
      BY <1>1, <2>1, PathTypes, Popped
    <3>2. L = 1 => stack' = <<>>
      BY <3>1, EmptySeq
    <3> QED BY <3>1, <3>2
  <2>3. There'
    BY <1>1, ThereSame
  <2>4. Sure'
    <3>1. SUFFICES ASSUME NEW p \in steady, NEW i \in 1..(L - 1), Below(p, stack'[i].path)
                   PROVE  /\ At(table, stack'[i].path) = stack'[i].dir
                          /\ p[Len(stack'[i].path) + 1] \in stack'[i].sure
      BY <1>1, <2>2, LookupAt DEF Sure, Below, Agree
    <3> QED BY <1>1, <2>2, <3>1, LookupAt DEF Sure
  <2>5. Pending'
    <3>1. SUFFICES ASSUME NEW p \in steady, walk.deep \/ Len(p) = 1
                   PROVE  \/ p \in visited
                          \/ Below(p, name)
                          \/ \E i \in 1..(L - 1) : /\ Below(p, stack'[i].path)
                                                   /\ p[Len(stack'[i].path) + 1] \notin stack'[i].listed
      BY <1>1, <2>2 DEF Pending, Below, Agree
    <3>2. ASSUME NEW i \in 1..L, Below(p, stack[i].path), ~Below(p, name)
          PROVE  i \in 1..(L - 1)
      BY <1>1, <2>1, <3>2
    <3> QED BY <1>1, <2>2, <3>1, <3>2 DEF Pending
  <2>6. Named'
    BY <1>1, <1>3, <2>2 DEF Named
  <2> QED BY <2>3, <2>4, <2>5, <2>6 DEF Held
<1> QED BY <1>2, <1>3

\* What others create takes nothing away, and what was there all along is none of
\* what they remove.
LEMMA OthersComplete ==
  ASSUME CInv, Others PROVE Held'
<1> DEFINE L == Len(stack)
<1> USE DirectoryAssumption
<1>1. /\ Sound /\ There /\ Sure /\ Pending /\ Named /\ steady' \subseteq steady
      /\ UNCHANGED <<walk, at, name, visited>>
      /\ L \in Nat /\ Len(stack') = L /\ stack \in Seq(Iterators) /\ stack' \in Seq(Iterators)
      /\ \A i \in 1..L : /\ stack'[i].path = stack[i].path /\ stack'[i].dir = stack[i].dir
                         /\ stack'[i].listed = stack[i].listed /\ stack[i].path \in Seq(Names)
  BY PathTypes DEF CInv, Held, Others, SameStack
<1>2. \A p \in steady : p \in Seq(Names) /\ p # <<>> /\ At(table, p) # None
  BY <1>1, SteadyTypes
<1>3. ASSUME NEW p \in steady'
      PROVE  At(table', p) = At(table, p)
  <2>1. CASE Gains
    <3>1. \A d \in Dirs, n \in Names : table[d][n] \in {table'[d][n], None}
      BY <2>1 DEF Gains
    <3>2. At(table, p) \in {At(table', p), None}
      BY <1>1, <1>2, <3>1, Fewer
    <3> QED BY <1>1, <1>2, <3>2
  <2>2. CASE \E d \in Dirs, n \in Names : Loses(d, n)
    BY <2>2, LookupAt DEF Loses
  <2> QED BY <2>1, <2>2 DEF Others
<1>4. There'
  BY <1>1, <1>2, <1>3, LookupAt DEF There
<1>5. ASSUME NEW p \in steady', NEW i \in 1..L, Below(p, stack[i].path)
      PROVE  /\ At(table', stack[i].path) = stack[i].dir
             /\ p[Len(stack[i].path) + 1] \in stack'[i].sure
  <2> DEFINE q == stack[i].path
             m == p[Len(q) + 1]
  <2>1. p \in steady /\ p \in Seq(Names) /\ q \in Seq(Names) /\ At(table', p) # None /\ At(table, p) # None
    BY <1>1, <1>2, <1>3
  <2>2. /\ At(table', q) \in Dirs /\ table'[At(table', q)][m] # None
        /\ At(table, q) \in Dirs
    BY <1>5, <2>1, OnTheWay
  <2>3. At(table, q) = stack[i].dir /\ m \in stack[i].sure /\ m \in Names
    <3>1. m \in Names
      BY <1>1, <1>5, <2>1, Within
    <3> QED BY <1>1, <1>5, <2>1, <3>1, LookupAt DEF Sure
  <2>4. CASE Gains
    <3>1. \A d \in Dirs, n \in Names : table[d][n] \in {table'[d][n], None}
      BY <2>4 DEF Gains
    <3>2. At(table, q) \in {At(table', q), None}
      BY <2>1, <3>1, Fewer
    <3>3. At(table, q) # None /\ stack' = stack
      BY <2>2, <2>4 DEF Gains, Nodes
    <3> QED BY <2>3, <3>2, <3>3
  <2>5. ASSUME NEW d \in Dirs, NEW n \in Names, Loses(d, n)
        PROVE  At(table', q) = stack[i].dir /\ m \in stack'[i].sure
    <3>1. table \in [Dirs -> [Names -> Nodes \cup {None}]]
      BY <1>1 DEF Sound, TypeOK
    <3>2. \A e \in Dirs, k \in Names : table'[e][k] = IF e = d /\ k = n THEN None ELSE table[e][k]
      BY <2>5, <3>1 DEF Loses
    <3>3. \A e \in Dirs, k \in Names : table'[e][k] \in {table[e][k], None}
      BY <3>2
    <3>4. At(table', q) \in {At(table, q), None}
      BY <2>1, <3>3, Fewer
    <3>5. At(table', q) = stack[i].dir
      BY <2>2, <2>3, <3>4 DEF Nodes
    <3>6. ~(stack[i].dir = d /\ m = n)
      BY <2>2, <2>3, <3>2, <3>5
    <3>7. stack'[i].sure = IF stack[i].dir = d THEN stack[i].sure \ {n} ELSE stack[i].sure
      BY <2>5 DEF Loses
    <3> QED BY <2>3, <3>5, <3>6, <3>7
  <2> QED BY <2>4, <2>5 DEF Others
<1>6. Sure'
  <2>1. SUFFICES ASSUME NEW p \in steady', NEW i \in 1..L, Below(p, stack'[i].path)
                 PROVE  /\ At(table', stack'[i].path) = stack'[i].dir
                        /\ p[Len(stack'[i].path) + 1] \in stack'[i].sure
    BY <1>1, LookupAt DEF Sure, Below, Agree
  <2> QED BY <1>1, <1>5, <2>1
<1>7. Pending'
  <2>1. SUFFICES ASSUME NEW p \in steady', walk.deep \/ Len(p) = 1
                 PROVE  \/ p \in visited
                        \/ AtName /\ Below(p, name)
                        \/ \E i \in 1..L : /\ Below(p, stack'[i].path)
                                           /\ p[Len(stack'[i].path) + 1] \notin stack'[i].listed
    BY <1>1 DEF Pending, Below, Agree, AtName
  <2> QED BY <1>1, <2>1 DEF Pending
<1>8. Named'
  <2>1. stack' = <<>> <=> stack = <<>>
    BY <1>1, EmptySeq
  <2>2. stack # <<>> => Top'.path = Top.path
    <3>1. stack # <<>> => L \in 1..L
      BY <1>1, EmptySeq
    <3> QED BY <1>1, <3>1 DEF Top
  <2>3. at = "skip" => stack # <<>>
    BY <1>1 DEF Sound, StackLives
  <2> QED BY <1>1, <2>1, <2>2, <2>3 DEF Named
<1> QED BY <1>4, <1>6, <1>7, <1>8 DEF Held

-----------------------------------------------------------------------------
(* Theorems                                                                *)

LEMMA Initially ==
  ASSUME Init PROVE IInv
<1> USE DirectoryAssumption
<1> DEFINE e == <<>>
<1>1. /\ e \in Seq(Names) /\ e \in Seq(Iterators) /\ Len(e) = 0 /\ 0 <= MaxDepth
      /\ \A i \in 1..Len(e) : FALSE
  OBVIOUS
<1> HIDE DEF e
<1>2. e \in Paths
  BY <1>1, PathType
<1>3. stack = e /\ name = e /\ Target = e /\ at = "open" /\ threw = FALSE /\ visited = {}
  BY DEF Init, Target, e
<1>4. steady \subseteq Paths /\ changes \in 0..MaxChanges
  BY DEF Init
<1>5. table \in [Dirs -> [Names -> Nodes \cup {None}]] /\ walk \in [deep : BOOLEAN, bare : BOOLEAN]
  BY DEF Init
<1>6. TypeOK /\ StackLives
  BY <1>1, <1>2, <1>3, <1>4, <1>5 DEF TypeOK, StackLives
<1> QED BY <1>1, <1>3, <1>6 DEF IInv, Sound, Chain, Leads, Listed, Fresh

\* Directory.cpp: what the walk keeps, its open directories and the name it
\* shows, are at every system call the same way through the tree.
THEOREM Inductive == Spec => []IInv
<1>1. IInv /\ [Next]_vars => IInv'
  BY SoundStep, PathStep DEF IInv, PathInv
<1> QED BY Initially, <1>1, PTL DEF Spec

\* Every variable keeps to its values.
THEOREM TypeCorrectness == Spec => []TypeOK
<1>1. IInv => TypeOK
  BY DEF IInv, Sound
<1> QED BY <1>1, Inductive, PTL

\* The increment of a RecursiveDirectory (Directory.cpp:91) finds a directory to
\* go on with, also after exceptions.
THEOREM StackNeverEmpty == Spec => []StackLives
<1>1. IInv => StackLives
  BY DEF IInv, Sound
<1> QED BY <1>1, Inductive, PTL

\* Until an exception leaves the walk, the stack is the path to what is shown.
THEOREM StackIsAPath == Spec => []StackIsPath
<1>1. ASSUME IInv PROVE StackIsPath
  <2>1. SUFFICES ASSUME ~threw, at \in {"user", "test"}, NEW i \in 1..Len(stack)
                 PROVE  /\ Len(stack) = Len(name) /\ stack[i].path = SubSeq(name, 1, i - 1)
                        /\ name[i] \in stack[i].listed
    BY DEF StackIsPath
  <2>2. Sound /\ Chain /\ Leads /\ Target = name
    BY <1>1, <2>1 DEF IInv, Sound, StackLives, Target
  <2>3. /\ Len(name) = Len(stack) /\ Agree(name, stack[i].path, i - 1) /\ name[i] \in stack[i].listed
        /\ Len(stack[i].path) = i - 1
    BY <2>1, <2>2 DEF Leads, AtPath, Chain
  <2>4. name \in Seq(Names) /\ stack[i].path \in Seq(Names) /\ i - 1 <= Len(name)
    BY <2>1, <2>2, <2>3, PathTypes
  <2> QED BY <2>3, <2>4, Beginning
<1> QED BY <1>1, Inductive, PTL

\* Until an exception leaves the walk, no path is shown twice, whatever others
\* create, remove and link.
THEOREM NoPathTwice == Spec => VisitsOnce
<1>1. ASSUME IInv, [Next]_vars, at # "user", at' = "user", ~threw
      PROVE  name' \notin visited
  <2>1. Sound /\ PathInv /\ TypeOK /\ StackLives
    BY <1>1 DEF IInv, Sound, PathInv
  <2>2. ASSUME NEW it \in Iterators, NEW n \in Names \cup Dots, Pushes(it, n)
        PROVE  name' \notin visited
    <3>1. name' = Append(Target, n) /\ n \in Names /\ at = "open"
      BY <1>1, <2>2 DEF Pushes, Shown
    <3>2. Len(name') = Len(Target) + 1 /\ Agree(name', Target, Len(Target)) /\ Len(Target) \in Nat
      BY <2>1, <3>1, Appended, PathTypes
    <3>3. \A p \in visited : Len(p) > Len(Target) => ~Agree(p, Target, Len(Target))
      BY <2>1, <3>1 DEF PathInv, Fresh, AtPath
    <3>4. name' \in visited => ~Agree(name', Target, Len(Target))
      BY <3>2, <3>3
    <3> QED BY <3>2, <3>4
  <2>3. ASSUME NEW n \in Names \cup Dots, Marks(n) PROVE name' \notin visited
    BY <1>1, <2>1, <2>3, MarkPaths DEF Marks
  <2>4. (\E it \in Iterators, n \in Names \cup Dots : Pushes(it, n)) \/ \E n \in Names \cup Dots : Marks(n)
    BY <1>1, <2>1, StepForm DEF FindsNothing, Pops, Goes, Throw, Others
  <2> QED BY <2>2, <2>3, <2>4
<1> QED BY <1>1, Inductive, PTL DEF Spec, VisitsOnce

\* A walk that comes to its end has shown every path that was there all along: no
\* exception it threw and no name others made or removed on the way hid one.
THEOREM NothingMissed == Spec => []Complete
<1>1. CInv /\ [Next]_vars => CInv'
  <2>1. SUFFICES ASSUME CInv, [Next]_vars PROVE Held'
    BY SoundStep DEF CInv
  <2>2. TypeOK /\ StackLives
    BY <2>1 DEF CInv, Sound
  <2> QED BY <2>1, <2>2, StepForm, NothingComplete, PushComplete, PopComplete, MarkComplete,
             GoesComplete, ThrowComplete, OthersComplete
<1>2. Init => CInv
  <2>1. SUFFICES ASSUME Init PROVE Held
    BY Initially DEF CInv, IInv
  <2> DEFINE e == <<>>
  <2>2. e \in Seq(Names) /\ Len(e) = 0 /\ \A i \in 1..Len(e) : FALSE
    OBVIOUS
  <2> HIDE DEF e
  <2>3. stack = e /\ name = e /\ at = "open" /\ steady = {p \in Paths \ {e} : Lookup(p) # None}
    BY <2>1 DEF Init, e
  <2>4. There /\ Sure /\ Named
    BY <2>2, <2>3 DEF There, Sure, Named, e
  <2>5. ASSUME NEW p \in steady PROVE Below(p, name)
    <3>1. p \in Seq(Names) /\ p # e
      BY <2>3, PathType
    <3>2. Len(p) > 0
      BY <3>1, EmptySeq DEF e
    <3> QED BY <2>2, <2>3, <3>2 DEF Below, Agree
  <2> QED BY <2>3, <2>4, <2>5 DEF Held, Pending, AtName
<1>3. CInv => Complete
  <2>1. SUFFICES ASSUME CInv, at = "end" PROVE \A p \in steady : walk.deep \/ Len(p) = 1 => p \in visited
    BY DEF Complete
  <2>2. ~AtName /\ \A i \in 1..Len(stack) : FALSE
    BY <2>1 DEF CInv, Held, Named, AtName
  <2> QED BY <2>1, <2>2 DEF CInv, Held, Pending
<1> QED BY <1>1, <1>2, <1>3, PTL DEF Spec

=============================================================================
