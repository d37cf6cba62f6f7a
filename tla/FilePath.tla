------------------------------ MODULE FilePath ------------------------------
(***************************************************************************)
(* FilePath: a string, and the lengths of its root ("C:"), of its root     *)
(* with the separators that follow, and of its last name, which init()     *)
(* computes when a path is made and after every join.  init() leaves       *)
(* rootLength and filenameLength as they were where it has nothing to set, *)
(* and clear() and swap() do not call it: that the lengths are those of    *)
(* the string is a matter of the order of calls.                           *)
(***************************************************************************)
EXTENDS Naturals, Sequences

CONSTANTS
  Paths,            \* FilePath objects
  Letters, Colon, Separator, Slash, Nul, Others,      \* characters
  Literals,         \* the strings that paths are made from
  MaxLength,        \* bound: no longer path is made
  MaxReused         \* bound: no longer path is used after clear() or swap() before
                    \* it is assigned again

Char == Letters \cup {Colon, Separator, Slash, Nul} \cup Others

ASSUME PathAssumption ==
  /\ {Colon, Separator, Slash, Nul} \cap Letters = {}
  /\ Colon # Separator /\ Colon # Slash
  /\ Literals \subseteq Seq(Char) /\ MaxLength \in Nat /\ MaxReused \in Nat

VARIABLES
  path,     \* the members of each object
  fresh     \* auxiliary: the object was not cleared or swapped since it was
            \* assigned, and not joined to itself
vars == <<path, fresh>>

isSeparator(c) == c = Slash \/ c = Separator

Drive(d) == Len(d) >= 2 /\ d[1] \in Letters /\ d[2] = Colon

-----------------------------------------------------------------------------
(* init()                                                                  *)

\* Where the loop over the separators behind the root stops, and the one that
\* looks for a separator from the end.
RootDirectoryEnds(d, root, p) ==
  /\ \A i \in root+1 .. p : isSeparator(d[i])
  /\ p = Len(d) \/ ~isSeparator(d[p + 1])
FilenameStarts(d, p, q) ==
  /\ \A i \in q+1 .. Len(d) : ~isSeparator(d[i])
  /\ q = p \/ isSeparator(d[q])
Stops(d, root) ==
  {z \in (root..Len(d)) \X (root..Len(d)) :
     z[1] <= z[2] /\ RootDirectoryEnds(d, root, z[1]) /\ FilenameStarts(d, z[1], z[2])}

\* Mutant: the loop over separators starts before the root.
ParsedFromStart(d, old) ==
  {[data |-> d, root |-> IF Drive(d) THEN 2 ELSE old.root, rootDir |-> z[1], file |-> Len(d) - z[2]] :
     z \in Stops(d, 0)}

\* An object whose string is d, after init(), that had the lengths of old before.
\* A rootLength beyond the end of the string makes init() read what is behind
\* the string: any lengths may come out.
Parsed(d, old) ==
  LET root == IF Drive(d) THEN 2 ELSE old.root
      object(p, f) == [data |-> d, root |-> root, rootDir |-> p, file |-> f]
  IN  IF root > Len(d) THEN {object(p, f) : p \in 0..MaxLength, f \in 0..MaxLength}
      ELSE IF root = Len(d) THEN {object(root, old.file)}
      ELSE {object(z[1], Len(d) - z[2]) : z \in Stops(d, root)}

Empty == [data |-> <<>>, root |-> 0, rootDir |-> 0, file |-> 0]

-----------------------------------------------------------------------------
(* operator /=                                                             *)

isAbsolute(a) == a.root # 0 /\ a.rootDir # 0
RootString(a) == SubSeq(a.data, 1, IF a.root <= Len(a.data) THEN a.root ELSE Len(a.data))

\* data.setLength(n): characters it adds are not set.
Resized(d, n) ==
  IF n <= Len(d) THEN {SubSeq(d, 1, n)} ELSE {d \o t : t \in [1 .. n - Len(d) -> Char]}

\* Mutants: the root is dropped; a separator is always put in between.
JoinedDataNoRoot(a, b, self) ==
  IF b.rootDir # 0 THEN {b.data}
  ELSE IF a.file # 0 THEN {a.data \o <<Separator>> \o b.data} ELSE {a.data \o b.data}
JoinedDataSeparated(a, b, self) ==
  IF b.rootDir # 0 THEN {s \o IF self THEN s ELSE b.data : s \in Resized(a.data, a.root)}
  ELSE {a.data \o <<Separator>> \o b.data}

\* The string of a after a /= b, where b is relative: if self holds, b is a
\* itself, and has been cut to its root when it is appended.
JoinedData(a, b, self) ==
  IF b.rootDir # 0 THEN {s \o IF self THEN s ELSE b.data : s \in Resized(a.data, a.root)}
  ELSE IF a.file # 0 \/ (a.rootDir = 0 /\ isAbsolute(a))
  THEN {a.data \o <<Separator>> \o b.data}
  ELSE {a.data \o b.data}

Joined(a, b, self) ==
  IF isAbsolute(b) \/ (b.root # 0 /\ RootString(a) # RootString(b)) THEN {b}
  ELSE UNION {Parsed(d, a) : d \in JoinedData(a, b, self)}

-----------------------------------------------------------------------------
(* Objects and the calls that change them                                  *)

TypeOK ==
  /\ path \in [Paths -> [data : Seq(Char), root : {0, 2}, rootDir : 0..MaxLength, file : 0..MaxLength]]
  /\ \A p \in Paths : Len(path[p].data) <= MaxLength
  /\ fresh \in [Paths -> BOOLEAN]

Init == path = [p \in Paths |-> Empty] /\ fresh = [p \in Paths |-> TRUE]

\* A path is made from a string, and assigned.
Construct(p, d) ==
  /\ Len(d) <= MaxLength
  /\ \E r \in Parsed(d, Empty) : path' = [path EXCEPT ![p] = r]
  /\ fresh' = [fresh EXCEPT ![p] = TRUE]

\* getCurrent(), assigned: the length the system asks for counts the
\* terminating zero, and so does the string.
getCurrent(p, d) == Drive(d) /\ Construct(p, Append(d, Nul))

Usable(p) == fresh[p] \/ Len(path[p].data) <= MaxReused

Assign(p, q) ==
  /\ Usable(q)
  /\ path' = [path EXCEPT ![p] = path[q]]
  /\ fresh' = [fresh EXCEPT ![p] = fresh[q]]

\* p /= q, which may be the same object.
Join(p, q) ==
  /\ Usable(p) /\ Usable(q)
  /\ \E r \in Joined(path[p], path[q], p = q) :
       Len(r.data) <= MaxLength /\ path' = [path EXCEPT ![p] = r]
  /\ fresh' = [fresh EXCEPT ![p] = IF isAbsolute(path[q]) THEN fresh[q]
                                   ELSE fresh[p] /\ fresh[q] /\ (p = q => path[q].rootDir = 0)]

clear(p) ==
  /\ path' = [path EXCEPT ![p].data = <<>>]
  /\ fresh' = [fresh EXCEPT ![p] = FALSE]

swap(p, q) ==
  /\ path' = [path EXCEPT ![p].data = path[q].data, ![q].data = path[p].data]
  /\ fresh' = [fresh EXCEPT ![p] = FALSE, ![q] = FALSE]

Next ==
  \/ \E p \in Paths, d \in Literals : Construct(p, d) \/ getCurrent(p, d)
  \/ \E p, q \in Paths : Assign(p, q) \/ Join(p, q) \/ swap(p, q)
  \/ \E p \in Paths : clear(p)

Spec == Init /\ [][Next]_vars

-----------------------------------------------------------------------------
(* Properties                                                              *)

\* The lengths are those of the string: the root is a drive, the root directory
\* all the separators behind it, the filename all behind the last separator.
Current(a) ==
  LET d == a.data
      name == Len(d) - a.file
  IN  /\ a.root = IF Drive(d) THEN 2 ELSE 0
      /\ a.root <= a.rootDir /\ a.rootDir <= name /\ name <= Len(d)
      /\ \A i \in a.root+1 .. a.rootDir : isSeparator(d[i])
      /\ a.rootDir < Len(d) => ~isSeparator(d[a.rootDir + 1])
      /\ \A i \in name+1 .. Len(d) : ~isSeparator(d[i])
      /\ name > a.rootDir => isSeparator(d[name])

\* Assignments and joins, in any order, keep the lengths those of the string,
\* though init() does not reset what it does not set.
CacheIsCurrent == \A p \in Paths : fresh[p] => Current(path[p])

\* What a string means: a drive or none, whether a separator follows it, and
\* the names, with one separator between them.
Root(d) == IF Drive(d) THEN SubSeq(d, 1, 2) ELSE <<>>
Body(d) == IF Drive(d) THEN SubSeq(d, 3, Len(d)) ELSE d
Rooted(d) == Body(d) # <<>> /\ isSeparator(Body(d)[1])
Names(d) ==
  LET b == Body(d)
      upTo[i \in 0..Len(b)] ==
        IF i = 0 THEN <<>>
        ELSE IF isSeparator(b[i]) THEN upTo[i - 1]
        ELSE IF upTo[i - 1] # <<>> /\ isSeparator(b[i - 1]) THEN upTo[i - 1] \o <<Separator, b[i]>>
        ELSE Append(upTo[i - 1], b[i])
  IN  upTo[Len(b)]

\* A join of relative names goes on where the left path ends: the root is kept,
\* the names follow each other, and none is glued to another or taken for a root.
Meets(a, b, c) ==
  IF Drive(b) THEN c = b
  ELSE /\ Root(c) = Root(a) /\ (Rooted(c) <=> Rooted(a) \/ Rooted(b))
       /\ Names(c) = IF Rooted(b) \/ Names(a) = <<>> THEN Names(b)
                     ELSE IF Names(b) = <<>> THEN Names(a)
                     ELSE Names(a) \o <<Separator>> \o Names(b)
JoinMeets ==
  [][\A p, q \in Paths : p # q /\ fresh[p] /\ fresh[q] /\ Join(p, q)
       => Meets(path[p].data, path[q].data, path'[p].data)]_vars

\* (a / b) / c and a / (b / c) are the same path, with the same lengths.
JoinIsAssociative ==
  LET Fresh == {path[p] : p \in {p \in Paths : fresh[p]}}
  IN  \A a, b, c \in Fresh :
        UNION {Joined(x, c, FALSE) : x \in Joined(a, b, FALSE)}
          = UNION {Joined(a, x, FALSE) : x \in Joined(b, c, FALSE)}
=============================================================================
