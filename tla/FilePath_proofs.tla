--------------------------- MODULE FilePath_proofs ---------------------------
(***************************************************************************)
(* Theorems about FilePath, for any characters, strings and order of calls *)
(***************************************************************************)
EXTENDS FilePath, SequenceTheorems, WellFoundedInduction, TLAPS

Member == [data : Seq(Char), root : {0, 2}, rootDir : 0..MaxLength, file : 0..MaxLength]

\* The same of a path of any length.
Object == [data : Seq(Char), root : {0, 2}, rootDir : Nat, file : Nat]

IInv == TypeOK /\ CacheIsCurrent

LEMMA EmptyIsCurrent == Empty \in Member /\ Current(Empty)
BY PathAssumption DEF Empty, Member, Current, Drive

\* The cases of init(), with the root it leaves.
LEMMA ParsedForm ==
  ASSUME NEW d, NEW old, NEW r \in Parsed(d, old), NEW root, root = IF Drive(d) THEN 2 ELSE old.root
  PROVE  /\ root > Len(d) =>
              \E p \in 0..MaxLength, f \in 0..MaxLength :
                 r = [data |-> d, root |-> root, rootDir |-> p, file |-> f]
         /\ ~(root > Len(d)) /\ root = Len(d) =>
              r = [data |-> d, root |-> root, rootDir |-> root, file |-> old.file]
         /\ ~(root > Len(d)) /\ root # Len(d) =>
              \E z \in Stops(d, root) :
                 r = [data |-> d, root |-> root, rootDir |-> z[1], file |-> Len(d) - z[2]]
<1> DEFINE object(p, f) == [data |-> d, root |-> root, rootDir |-> p, file |-> f]
<1>1. r \in IF root > Len(d) THEN {object(p, f) : p \in 0..MaxLength, f \in 0..MaxLength}
           ELSE IF root = Len(d) THEN {object(root, old.file)}
           ELSE {object(z[1], Len(d) - z[2]) : z \in Stops(d, root)}
  BY DEF Parsed
<1>2. CASE root > Len(d)
  BY <1>1, <1>2
<1>3. CASE ~(root > Len(d)) /\ root = Len(d)
  BY <1>1, <1>3
<1>4. CASE ~(root > Len(d)) /\ root # Len(d)
  BY <1>1, <1>4
<1> QED BY <1>2, <1>3, <1>4

LEMMA Concat ==
  ASSUME NEW s \in Seq(Char), NEW t \in Seq(Char)
  PROVE  /\ s \o t \in Seq(Char) /\ Len(s \o t) = Len(s) + Len(t)
         /\ Len(s) \in Nat /\ Len(t) \in Nat
         /\ \A i \in 1..Len(s) : (s \o t)[i] = s[i]
         /\ \A i \in 1..Len(t) : (s \o t)[Len(s) + i] = t[i]
OBVIOUS

\* init() makes lengths of their types, ...
LEMMA ParsedType ==
  ASSUME NEW d \in Seq(Char), Len(d) <= MaxLength, NEW old \in Member, NEW r \in Parsed(d, old)
  PROVE  r \in Member /\ r.data = d
<1>0. PICK root : root = IF Drive(d) THEN 2 ELSE old.root
  OBVIOUS
<1>1. root \in {0, 2} /\ old.file \in 0..MaxLength /\ Len(d) \in Nat /\ MaxLength \in Nat
  BY <1>0, PathAssumption DEF Member
<1>2. CASE root > Len(d)
  BY <1>0, <1>1, <1>2, ParsedForm DEF Member
<1>3. CASE root = Len(d)
  <2>1. r = [data |-> d, root |-> root, rootDir |-> root, file |-> old.file]
    BY <1>0, <1>1, <1>3, ParsedForm
  <2>2. root \in 0..MaxLength
    BY <1>1, <1>3
  <2> QED BY <1>1, <2>1, <2>2 DEF Member
<1>4. CASE root < Len(d)
  <2>1. PICK z \in Stops(d, root) : r = [data |-> d, root |-> root, rootDir |-> z[1], file |-> Len(d) - z[2]]
    BY <1>0, <1>1, <1>4, ParsedForm
  <2>2. z[1] \in root..Len(d) /\ z[2] \in root..Len(d)
    BY DEF Stops
  <2>3. z[1] \in 0..MaxLength /\ Len(d) - z[2] \in 0..MaxLength
    BY <1>1, <2>2
  <2> QED BY <1>1, <2>1, <2>3 DEF Member
<1> QED BY <1>1, <1>2, <1>3, <1>4

\* ... and the right ones, if the rootLength there was before is 0 or right, and
\* the filenameLength is 0 where it is left alone.
LEMMA ParsedIsCurrent ==
  ASSUME NEW d \in Seq(Char), NEW old \in Object, NEW r \in Parsed(d, old),
         old.root = 0 \/ Drive(d),
         (IF Drive(d) THEN 2 ELSE 0) = Len(d) => old.file = 0
  PROVE  r \in Object /\ Current(r) /\ r.data = d
<1>0. PICK root : root = IF Drive(d) THEN 2 ELSE 0
  OBVIOUS
<1>1. root \in {0, 2} /\ root <= Len(d) /\ Len(d) \in Nat /\ (IF Drive(d) THEN 2 ELSE old.root) = root
  BY <1>0 DEF Drive, Object
<1>2. CASE root = Len(d)
  <2>1. r = [data |-> d, root |-> root, rootDir |-> root, file |-> 0]
    BY <1>0, <1>1, <1>2, ParsedForm
  <2>2. Current(r)
    BY <1>0, <1>1, <1>2, <2>1 DEF Current
  <2>3. r \in Object
    BY <1>1, <2>1 DEF Object
  <2> QED BY <2>1, <2>2, <2>3
<1>3. CASE root < Len(d)
  <2>1. PICK z \in Stops(d, root) : r = [data |-> d, root |-> root, rootDir |-> z[1], file |-> Len(d) - z[2]]
    BY <1>0, <1>1, <1>3, ParsedForm
  <2>2. /\ z[1] \in root..Len(d) /\ z[2] \in root..Len(d) /\ z[1] <= z[2]
        /\ RootDirectoryEnds(d, root, z[1]) /\ FilenameStarts(d, z[1], z[2])
    BY DEF Stops
  <2>3. Len(d) - (Len(d) - z[2]) = z[2]
    BY <1>1, <2>2
  <2>4. r.data = d /\ r.root = root /\ r.rootDir = z[1] /\ Len(r.data) - r.file = z[2]
    BY <2>1, <2>3
  <2>5. /\ root <= z[1] /\ z[2] <= Len(d)
        /\ \A i \in root+1 .. z[1] : isSeparator(d[i])
        /\ z[1] < Len(d) => ~isSeparator(d[z[1] + 1])
        /\ \A i \in z[2]+1 .. Len(d) : ~isSeparator(d[i])
        /\ z[2] > z[1] => isSeparator(d[z[2]])
    BY <1>1, <2>2 DEF RootDirectoryEnds, FilenameStarts
  <2>6. Current(r)
    BY <1>0, <2>2, <2>4, <2>5 DEF Current
  <2>7. z[1] \in Nat /\ Len(d) - z[2] \in Nat
    BY <1>1, <2>2
  <2>8. r \in Object
    BY <1>1, <2>1, <2>7 DEF Object
  <2> QED BY <2>1, <2>6, <2>8
<1> QED BY <1>1, <1>2, <1>3

(* The string of a join *)

Ends(s) == Len(s) > (IF Drive(s) THEN 2 ELSE 0) /\ ~isSeparator(s[Len(s)])
Leads(s) == s # <<>> /\ isSeparator(s[1])
Glue(s) == IF Ends(s) THEN <<Separator>> ELSE <<>>
JoinedString(s, t) ==
  IF Drive(t) THEN t ELSE IF Leads(t) THEN Root(s) \o t ELSE (s \o Glue(s)) \o t

LEMMA Strings ==
  ASSUME NEW s \in Seq(Char)
  PROVE  /\ Len(s) \in Nat /\ (s = <<>> <=> Len(s) = 0)
         /\ <<>> \in Seq(Char) /\ s \o <<>> = s /\ <<>> \o s = s
         /\ Glue(s) \in Seq(Char) /\ Root(s) \in Seq(Char)
         /\ <<Separator>> \in Seq(Char) /\ Len(<<Separator>>) = 1 /\ <<Separator>>[1] = Separator /\ isSeparator(Separator)
<1>1. Separator \in Char /\ isSeparator(Separator)
  BY DEF Char, isSeparator
<1>2. <<Separator>> \in Seq(Char) /\ Len(<<Separator>>) = 1 /\ <<Separator>>[1] = Separator
  BY <1>1
<1>3. Len(s) \in Nat /\ (s = <<>> <=> Len(s) = 0) /\ <<>> \in Seq(Char)
  BY EmptySeq
<1>4. Root(s) \in Seq(Char)
  BY <1>3 DEF Root, Drive
<1>5. Glue(s) \in Seq(Char)
  BY <1>2, <1>3 DEF Glue
<1> QED BY <1>1, <1>2, <1>3, <1>4, <1>5, ConcatEmptySeq

LEMMA Joining ==
  ASSUME NEW s \in Seq(Char), NEW t \in Seq(Char)
  PROVE  /\ s \o t \in Seq(Char) /\ Len(s \o t) = Len(s) + Len(t)
         /\ \A i \in 1..Len(s) : (s \o t)[i] = s[i]
         /\ Len(t) > 0 => (s \o t)[Len(s \o t)] = t[Len(t)]
         /\ \A i \in 1..Len(t) : (s \o t)[Len(s) + i] = t[i]
OBVIOUS

LEMMA Associative ==
  \A r, s, t \in Seq(Char) : (r \o s) \o t = r \o (s \o t)
<1> SUFFICES ASSUME NEW r \in Seq(Char), NEW s \in Seq(Char), NEW t \in Seq(Char)
             PROVE  (r \o s) \o t = r \o (s \o t)
  BY Zenon
<1> QED BY ConcatAssociative

\* The root of a join is the first path's, when the second has none.
LEMMA RootKept ==
  ASSUME NEW s \in Seq(Char), NEW t \in Seq(Char), ~Drive(t)
  PROVE  /\ JoinedString(s, t) \in Seq(Char)
         /\ Drive(JoinedString(s, t)) <=> Drive(s)
         /\ Root(JoinedString(s, t)) = Root(s)
<1> DEFINE c == JoinedString(s, t)
<1>1. CASE Leads(t)
  <2>1. c = Root(s) \o t
    BY <1>1 DEF JoinedString
  <2>2. CASE Drive(s)
    <3>1. Root(s) = SubSeq(s, 1, 2) /\ Len(s) >= 2
      BY <2>2 DEF Root, Drive
    <3>2. /\ Root(s) \in Seq(Char) /\ Len(Root(s)) = 2
          /\ Root(s)[1] = s[1] /\ Root(s)[2] = s[2]
      BY <3>1
    <3>3. c \in Seq(Char) /\ Len(c) = 2 + Len(t) /\ Len(t) \in Nat /\ c[1] = s[1] /\ c[2] = s[2]
      <4>1. PICK r \in Seq(Char) : r = Root(s) /\ Len(r) = 2 /\ r[1] = s[1] /\ r[2] = s[2]
        BY <3>2, Zenon
      <4>2. c = r \o t
        BY <2>1, <4>1, Zenon
      <4>3. 1 \in 1..Len(r) /\ 2 \in 1..Len(r) /\ Len(t) \in Nat
        BY <4>1
      <4>4. /\ r \o t \in Seq(Char) /\ Len(r \o t) = Len(r) + Len(t)
            /\ (r \o t)[1] = r[1] /\ (r \o t)[2] = r[2]
        BY <4>3, Joining
      <4>5. Len(r \o t) = 2 + Len(t)
        BY <4>1, <4>4
      <4> HIDE DEF c
      <4> QED BY <4>1, <4>2, <4>3, <4>4, <4>5, Zenon
    <3>4. Drive(c)
      BY <2>2, <3>3 DEF Drive
    <3>5. SubSeq(c, 1, 2) = SubSeq(s, 1, 2)
      <4> HIDE DEF c
      <4> QED BY <3>1, <3>3
    <3> QED BY <2>2, <3>1, <3>3, <3>4, <3>5 DEF Root
  <2>3. CASE ~Drive(s)
    <3>1. c = t
      BY <2>1, <2>3, Strings DEF Root
    <3> QED BY <2>3, <3>1 DEF Root
  <2> QED BY <2>2, <2>3
<1>2. CASE ~Leads(t)
  <2> DEFINE e == s \o Glue(s)
  <2>1. c = e \o t /\ Glue(s) \in Seq(Char)
    BY <1>2, Strings DEF JoinedString
  <2>2. /\ e \in Seq(Char) /\ Len(e) = Len(s) + Len(Glue(s)) /\ Len(s) \in Nat /\ Len(Glue(s)) \in Nat
        /\ \A i \in 1..Len(s) : e[i] = s[i]
        /\ \A i \in 1..Len(Glue(s)) : e[Len(s) + i] = Glue(s)[i]
    BY <2>1, Joining
  <2> HIDE DEF e
  <2>3. /\ c \in Seq(Char) /\ Len(c) = Len(e) + Len(t) /\ Len(t) \in Nat
        /\ \A i \in 1..Len(e) : c[i] = e[i]
    <3>1. c = e \o t /\ e \in Seq(Char)
      BY <2>1, <2>2
    <3> HIDE DEF c
    <3> QED BY <3>1, Joining, Strings
  <2> HIDE DEF c
  <2>4. CASE Len(s) >= 2
    <3>1. Len(c) >= 2 /\ c[1] = s[1] /\ c[2] = s[2]
      <4>1. 1 \in 1..Len(s) /\ 2 \in 1..Len(s) /\ 1 \in 1..Len(e) /\ 2 \in 1..Len(e)
        BY <2>2, <2>4
      <4> QED BY <2>2, <2>3, <2>4, <4>1
    <3>2. SubSeq(c, 1, 2) = SubSeq(s, 1, 2)
      BY <2>3, <2>4, <3>1
    <3>3. Drive(c) <=> Drive(s)
      BY <2>4, <3>1 DEF Drive
    <3> QED BY <2>3, <3>2, <3>3 DEF c, Root
  <2>5. CASE Len(s) = 0
    <3>1. s = <<>> /\ ~Ends(s)
      BY <2>5, Strings DEF Ends, Drive
    <3>2. c = t
      BY <2>1, <3>1, Strings DEF e, Glue
    <3>3. ~Drive(s)
      BY <2>5 DEF Drive
    <3> QED BY <3>2, <3>3 DEF c, Root
  <2>6. CASE Len(s) = 1
    <3>1. ~Drive(s)
      BY <2>6 DEF Drive
    <3>2. ASSUME Drive(c) PROVE FALSE
      <4>1. c[1] \in Letters /\ c[2] = Colon
        BY <3>2 DEF Drive
      <4>2. c[1] = s[1]
        <5>1. 1 \in 1..Len(s) /\ 1 \in 1..Len(e)
          BY <2>2, <2>6
        <5> QED BY <2>2, <2>3, <5>1
      <4>3. Ends(s)
        BY <2>6, <3>1, <4>1, <4>2, PathAssumption DEF Ends, isSeparator
      <4>4. Len(Glue(s)) = 1 /\ Glue(s)[1] = Separator
        BY <4>3, Strings DEF Glue
      <4>5. c[2] = Separator
        <5>1. 1 \in 1..Len(Glue(s)) /\ 2 \in 1..Len(e) /\ Len(s) + 1 = 2
          BY <2>2, <2>6, <4>4
        <5> QED BY <2>2, <2>3, <4>4, <5>1
      <4> QED BY <4>1, <4>5, PathAssumption
    <3> QED BY <2>3, <3>1, <3>2 DEF c, Root
  <2>7. Len(s) = 0 \/ Len(s) = 1 \/ Len(s) >= 2
    <3>1. Len(s) \in Nat
      BY Strings
    <3>2. \A n \in Nat : n = 0 \/ n = 1 \/ n >= 2
      OBVIOUS
    <3> QED BY <3>1, <3>2, Zenon
  <2> QED BY <2>4, <2>5, <2>6, <2>7
<1> QED BY <1>1, <1>2

LEMMA EndsOf ==
  ASSUME NEW s \in Seq(Char), NEW t \in Seq(Char), t # <<>>, Drive(s \o t) => Len(s) >= 2
  PROVE  Ends(s \o t) <=> ~isSeparator(t[Len(t)])
<1>1. /\ Len(s \o t) = Len(s) + Len(t) /\ Len(s) \in Nat /\ Len(t) \in Nat /\ Len(t) > 0
      /\ (s \o t)[Len(s \o t)] = t[Len(t)]
  <2>1. Len(t) \in Nat /\ Len(t) # 0 /\ Len(s) \in Nat
    BY Strings
  <2> QED BY <2>1, Joining
<1> QED BY <1>1 DEF Ends

LEMMA StringsAssociate ==
  ASSUME NEW s \in Seq(Char), NEW t \in Seq(Char), NEW u \in Seq(Char)
  PROVE  JoinedString(JoinedString(s, t), u) = JoinedString(s, JoinedString(t, u))
<1> DEFINE x == JoinedString(s, t)
           v == JoinedString(t, u)
<1>1. CASE Drive(u)
  BY <1>1 DEF JoinedString
<1>2. CASE ~Drive(u) /\ Drive(t)
  <2>1. Drive(v)
    BY <1>2, RootKept
  <2>2. x = t
    BY <1>2 DEF JoinedString
  <2>3. JoinedString(s, v) = v
    BY <2>1 DEF JoinedString
  <2> QED BY <2>2, <2>3
<1>3. CASE ~Drive(u) /\ ~Drive(t)
  <2>1. /\ x \in Seq(Char) /\ (Drive(x) <=> Drive(s)) /\ Root(x) = Root(s)
        /\ v \in Seq(Char) /\ ~Drive(v)
    BY <1>3, RootKept
  <2>2. CASE Leads(u)
    <3>1. v = Root(t) \o u /\ Root(t) = <<>>
      BY <1>3, <2>2 DEF JoinedString, Root
    <3>2. v = u
      BY <3>1, Strings
    <3>3. JoinedString(x, u) = Root(x) \o u /\ JoinedString(s, u) = Root(s) \o u
      BY <1>3, <2>2 DEF JoinedString
    <3> QED BY <2>1, <3>2, <3>3
  <2>3. CASE ~Leads(u)
    <3>1. /\ v = (t \o Glue(t)) \o u /\ JoinedString(x, u) = (x \o Glue(x)) \o u
          /\ Glue(t) \in Seq(Char) /\ Glue(s) \in Seq(Char) /\ Glue(x) \in Seq(Char) /\ Root(s) \in Seq(Char)
          /\ <<>> \in Seq(Char) /\ <<Separator>> \in Seq(Char)
      BY <1>3, <2>1, <2>3, Strings DEF JoinedString
    <3>2. t \o Glue(t) \in Seq(Char)
      BY <3>1, Joining
    <3>3. CASE t = <<>>
      <4>1. Len(t) = 0 /\ ~Ends(t) /\ ~Leads(t)
        BY <1>3, <3>3, Strings DEF Ends, Leads
      <4>2. v = u
        BY <3>1, <3>3, <4>1, Strings DEF Glue
      <4>3. x = s \o Glue(s)
        <5>1. x = (s \o Glue(s)) \o t
          BY <1>3, <4>1 DEF JoinedString
        <5>2. s \o Glue(s) \in Seq(Char)
          BY <3>1, Joining
        <5> QED BY <3>3, <5>1, <5>2, Strings
      <4>4. ~Ends(x)
        <5>1. CASE Ends(s)
          <6>1. x = s \o <<Separator>>
            BY <4>3, <5>1 DEF Glue
          <6>2. Drive(s \o <<Separator>>) => Len(s) >= 2
            BY <2>1, <6>1 DEF Drive
          <6>3. Len(<<Separator>>) = 1 /\ <<Separator>> # <<>> /\ isSeparator(<<Separator>>[Len(<<Separator>>)])
            BY Strings
          <6> QED BY <3>1, <6>1, <6>2, <6>3, EndsOf
        <5>2. CASE ~Ends(s)
          BY <4>3, <5>2, Strings DEF Glue
        <5> QED BY <5>1, <5>2
      <4>5. x \o Glue(x) = x
        BY <2>1, <4>4, Strings DEF Glue
      <4>6. JoinedString(s, u) = x \o u
        BY <1>3, <2>3, <4>3 DEF JoinedString
      <4> QED BY <3>1, <4>2, <4>5, <4>6
    <3>4. CASE t # <<>>
      <4>1. Ends(t) <=> ~isSeparator(t[Len(t)])
        <5>1. Len(t) \in Nat /\ Len(t) # 0
          BY <3>4, Strings
        <5> QED BY <1>3, <5>1 DEF Ends
      <4>2. v # <<>> /\ v[1] = t[1]
        <5>1. Len(t) \in Nat /\ Len(t) # 0
          BY <3>4, Strings
        <5>2. Len(t \o Glue(t)) = Len(t) + Len(Glue(t)) /\ (t \o Glue(t))[1] = t[1] /\ Len(Glue(t)) \in Nat
          <6>1. 1 \in 1..Len(t)
            BY <5>1
          <6> QED BY <3>1, <6>1, Joining, Strings
        <5>3. 1 \in 1..Len(t \o Glue(t))
          BY <5>1, <5>2
        <5>4. v[1] = (t \o Glue(t))[1] /\ Len(v) = Len(t \o Glue(t)) + Len(u) /\ Len(u) \in Nat
          BY <3>1, <3>2, <5>3, Joining, Strings
        <5>5. Len(v) # 0
          BY <5>1, <5>2, <5>4
        <5> QED BY <2>1, <5>2, <5>4, <5>5, Strings
      <4>3. Leads(v) <=> Leads(t)
        BY <3>4, <4>2 DEF Leads
      <4>4. PICK r \in Seq(Char) :
              /\ x = r \o t /\ JoinedString(s, v) = r \o v
              /\ Drive(s) => Len(r) >= 2
        <5>1. CASE Leads(t)
          <6>1. x = Root(s) \o t /\ JoinedString(s, v) = Root(s) \o v
            BY <1>3, <2>1, <4>3, <5>1 DEF JoinedString
          <6>2. Drive(s) => Len(Root(s)) >= 2
            <7>1. Drive(s) => Len(s) >= 2 /\ Root(s) = SubSeq(s, 1, 2)
              BY DEF Drive, Root
            <7>2. Len(s) >= 2 => Len(SubSeq(s, 1, 2)) >= 2
              OBVIOUS
            <7> QED BY <7>1, <7>2, Zenon
          <6> QED BY <3>1, <6>1, <6>2
        <5>2. CASE ~Leads(t)
          <6>1. x = (s \o Glue(s)) \o t /\ JoinedString(s, v) = (s \o Glue(s)) \o v
            BY <1>3, <2>1, <4>3, <5>2 DEF JoinedString
          <6>2. s \o Glue(s) \in Seq(Char) /\ Len(s \o Glue(s)) = Len(s) + Len(Glue(s))
            BY <3>1, Joining
          <6>3. Drive(s) => Len(s \o Glue(s)) >= 2
            <7>1. Drive(s) => Len(s) >= 2
              BY DEF Drive
            <7>2. Len(s) \in Nat /\ Len(Glue(s)) \in Nat
              BY <3>1, Strings
            <7> QED BY <6>2, <7>1, <7>2
          <6> QED BY <6>1, <6>2, <6>3
        <5> QED BY <5>1, <5>2
      <4>5. Ends(x) <=> Ends(t)
        BY <2>1, <3>4, <4>1, <4>4, EndsOf
      <4>6. Glue(x) = Glue(t)
        BY <4>5 DEF Glue
      <4>7. ((r \o t) \o Glue(t)) \o u = r \o ((t \o Glue(t)) \o u)
        <5>1. (r \o t) \o Glue(t) = r \o (t \o Glue(t))
          <6>1. Glue(t) \in Seq(Char)
            BY <3>1
          <6> QED BY <6>1, Associative, Zenon
        <5>2. (r \o (t \o Glue(t))) \o u = r \o ((t \o Glue(t)) \o u)
          BY <3>2, Associative, Zenon
        <5> QED BY <5>1, <5>2
      <4> QED BY <3>1, <4>4, <4>6, <4>7
    <3> QED BY <3>3, <3>4
  <2> QED BY <2>2, <2>3
<1> QED BY <1>1, <1>2, <1>3

-----------------------------------------------------------------------------
(* The object of a string                                                  *)

\* A set of numbers that is not empty has a least one.
LEMMA Least ==
  ASSUME NEW T, T \subseteq Nat, T # {}
  PROVE  \E x \in T : \A y \in T : x <= y
<1> DEFINE R == {ss \in Nat \X Nat : ss[1] < ss[2]}
<1>1. R = OpToRel(<, Nat)
  BY Zenon DEF OpToRel
<1>2. IsWellFoundedOn(R, Nat)
  BY <1>1, NatLessThanWellFounded
<1> HIDE DEF R
<1>3. PICK x \in T : \A y \in T : ~(<<y, x>> \in R)
  BY <1>2, WFMin, Zenon
<1>4. ASSUME NEW y \in T PROVE x <= y
  <2>1. x \in Nat /\ y \in Nat
    OBVIOUS
  <2>2. y < x => <<y, x>> \in R
    BY <2>1 DEF R
  <2> QED BY <1>3, <2>1, <2>2
<1> QED BY <1>4


LEMMA MemberIsObject == Member \subseteq Object
BY PathAssumption DEF Member, Object

\* The types of the lengths of an object.
LEMMA CurrentType ==
  ASSUME NEW a \in Object, Current(a)
  PROVE  /\ a.data \in Seq(Char) /\ Len(a.data) \in Nat
         /\ a.root \in {0, 2} /\ a.rootDir \in Nat /\ a.file \in Nat
         /\ a.root = (IF Drive(a.data) THEN 2 ELSE 0)
         /\ a.root <= a.rootDir /\ a.rootDir <= Len(a.data) - a.file
BY DEF Object, Current

\* There is one at most, ...
LEMMA CurrentUnique ==
  ASSUME NEW a \in Object, NEW b \in Object, Current(a), Current(b), a.data = b.data
  PROVE  a = b
<1> DEFINE d == a.data
           n == Len(d)
<1>1. /\ n \in Nat /\ a.root = b.root /\ a.root \in Nat
      /\ a.rootDir \in Nat /\ b.rootDir \in Nat /\ a.file \in Nat /\ b.file \in Nat
      /\ a.root <= a.rootDir /\ a.rootDir <= n - a.file
      /\ b.root <= b.rootDir /\ b.rootDir <= n - b.file
  BY CurrentType
<1>2. /\ \A i \in a.root+1 .. a.rootDir : isSeparator(d[i])
      /\ a.rootDir < n => ~isSeparator(d[a.rootDir + 1])
      /\ \A i \in (n - a.file)+1 .. n : ~isSeparator(d[i])
      /\ n - a.file > a.rootDir => isSeparator(d[n - a.file])
  BY DEF Current
<1>3. /\ \A i \in b.root+1 .. b.rootDir : isSeparator(d[i])
      /\ b.rootDir < n => ~isSeparator(d[b.rootDir + 1])
      /\ \A i \in (n - b.file)+1 .. n : ~isSeparator(d[i])
      /\ n - b.file > b.rootDir => isSeparator(d[n - b.file])
  BY DEF Current
<1> HIDE DEF d, n
<1>4. ~(a.rootDir < b.rootDir)
  <2>1. a.rootDir < b.rootDir => a.rootDir + 1 \in b.root+1 .. b.rootDir /\ a.rootDir < n
    BY <1>1
  <2> QED BY <1>2, <1>3, <2>1
<1>5. ~(b.rootDir < a.rootDir)
  <2>1. b.rootDir < a.rootDir => b.rootDir + 1 \in a.root+1 .. a.rootDir /\ b.rootDir < n
    BY <1>1
  <2> QED BY <1>2, <1>3, <2>1
<1>6. a.rootDir = b.rootDir
  BY <1>1, <1>4, <1>5
<1>7. ~(a.file < b.file)
  <2>1. a.file < b.file => n - a.file \in (n - b.file)+1 .. n /\ n - a.file > a.rootDir
    BY <1>1, <1>6
  <2> QED BY <1>2, <1>3, <2>1
<1>8. ~(b.file < a.file)
  <2>1. b.file < a.file => n - b.file \in (n - a.file)+1 .. n /\ n - b.file > b.rootDir
    BY <1>1, <1>6
  <2> QED BY <1>2, <1>3, <2>1
<1>9. a.file = b.file
  BY <1>1, <1>7, <1>8
<1> QED BY <1>1, <1>6, <1>9 DEF Object

\* ... and init() finds it: its loops stop.
LEMMA StopsExist ==
  ASSUME NEW d \in Seq(Char), NEW root \in Nat, root <= Len(d)
  PROVE  Stops(d, root) # {}
<1> DEFINE n == Len(d)
           P == {p \in root..n : p = n \/ ~isSeparator(d[p + 1])}
<1>1. n \in Nat /\ n \in P /\ P \subseteq Nat
  OBVIOUS
<1>2. PICK p \in P : \A i \in P : p <= i
  <2> HIDE DEF P
  <2> QED BY <1>1, Least
<1>3. p \in root..n /\ (p = n \/ ~isSeparator(d[p + 1]))
  OBVIOUS
<1>4. ASSUME NEW i \in root+1 .. p PROVE isSeparator(d[i])
  <2>1. i - 1 \in root..n /\ ~(p <= i - 1) /\ (i - 1) + 1 = i
    BY <1>1, <1>3
  <2>2. i - 1 \notin P
    BY <1>2, <2>1
  <2> QED BY <2>1, <2>2
<1> DEFINE Q == {k \in 0..(n - p) : n - k = p \/ isSeparator(d[n - k])}
<1>5. n - p \in Q /\ Q \subseteq Nat
  BY <1>1, <1>3
<1>6. PICK k \in Q : \A i \in Q : k <= i
  <2> HIDE DEF Q
  <2> QED BY <1>5, Least
<1>7. k \in 0..(n - p) /\ (n - k = p \/ isSeparator(d[n - k]))
  OBVIOUS
<1>8. ASSUME NEW i \in (n - k)+1 .. n PROVE ~isSeparator(d[i])
  <2>1. n - i \in 0..(n - p) /\ ~(k <= n - i) /\ n - (n - i) = i
    BY <1>1, <1>3, <1>7
  <2>2. n - i \notin Q
    BY <1>6, <2>1
  <2> QED BY <2>1, <2>2
<1> DEFINE z == <<p, n - k>>
<1>9. n - k \in root..n /\ p <= n - k /\ p \in root..n
  BY <1>1, <1>3, <1>7
<1>10. RootDirectoryEnds(d, root, p) /\ FilenameStarts(d, p, n - k)
  BY <1>3, <1>4, <1>7, <1>8 DEF RootDirectoryEnds, FilenameStarts
<1>11. z \in Stops(d, root)
  BY <1>9, <1>10 DEF Stops
<1> QED BY <1>11

LEMMA ParsedExists ==
  ASSUME NEW d \in Seq(Char), NEW old \in Object, old.root = 0 \/ Drive(d)
  PROVE  Parsed(d, old) # {}
<1>0. PICK root : root = IF Drive(d) THEN 2 ELSE old.root
  OBVIOUS
<1>1. root \in Nat /\ root <= Len(d) /\ Len(d) \in Nat
  BY <1>0 DEF Drive, Object
<1> DEFINE object(p, f) == [data |-> d, root |-> root, rootDir |-> p, file |-> f]
<1>2. Parsed(d, old) = IF root > Len(d) THEN {object(p, f) : p \in 0..MaxLength, f \in 0..MaxLength}
                       ELSE IF root = Len(d) THEN {object(root, old.file)}
                       ELSE {object(z[1], Len(d) - z[2]) : z \in Stops(d, root)}
  BY <1>0 DEF Parsed
<1>3. CASE root = Len(d)
  <2>1. root > Len(d) <=> FALSE
    BY <1>1
  <2>2. object(root, old.file) \in Parsed(d, old)
    BY <1>2, <1>3, <2>1
  <2> QED BY <2>2
<1>4. CASE root # Len(d)
  <2>1. Parsed(d, old) = {object(z[1], Len(d) - z[2]) : z \in Stops(d, root)}
    BY <1>1, <1>2, <1>4
  <2>2. PICK z : z \in Stops(d, root)
    BY <1>1, StopsExist
  <2> QED BY <2>1, <2>2
<1> QED BY <1>3, <1>4

-----------------------------------------------------------------------------
(* The names of a path                                                     *)

\* The names of a string without a drive, and of each beginning of it.
NamesOf(b) ==
  LET upTo[i \in 0..Len(b)] ==
        IF i = 0 THEN <<>>
        ELSE IF isSeparator(b[i]) THEN upTo[i - 1]
        ELSE IF upTo[i - 1] # <<>> /\ isSeparator(b[i - 1]) THEN upTo[i - 1] \o <<Separator, b[i]>>
        ELSE Append(upTo[i - 1], b[i])
  IN  upTo[Len(b)]
Found(b, n, f) ==
  f = [i \in 0..n |->
        IF i = 0 THEN <<>>
        ELSE IF isSeparator(b[i]) THEN f[i - 1]
        ELSE IF f[i - 1] # <<>> /\ isSeparator(b[i - 1]) THEN f[i - 1] \o <<Separator, b[i]>>
        ELSE Append(f[i - 1], b[i])]

\* Names and more names.
Put(x, y) == IF x = <<>> THEN y ELSE IF y = <<>> THEN x ELSE (x \o <<Separator>>) \o y

LEMMA FoundUnique ==
  ASSUME NEW b, NEW n \in Nat, NEW f, NEW g, Found(b, n, f), Found(b, n, g)
  PROVE  f = g
<1> DEFINE D == {k \in 0..n : f[k] # g[k]}
<1>1. SUFFICES ASSUME D # {} PROVE FALSE
  BY DEF Found
<1>2. PICK k \in D : \A j \in D : k <= j
  <2>1. D \subseteq Nat
    OBVIOUS
  <2> HIDE DEF D
  <2> QED BY <1>1, <2>1, Least
<1>3. CASE k = 0
  BY <1>2, <1>3 DEF Found
<1>4. CASE k # 0
  <2>1. k - 1 \in 0..n /\ ~(k <= k - 1)
    BY <1>2, <1>4
  <2>2. f[k - 1] = g[k - 1]
    BY <1>2, <2>1
  <2> QED BY <1>2, <1>4, <2>2 DEF Found
<1> QED BY <1>3, <1>4

LEMMA FoundExists ==
  ASSUME NEW b, NEW n \in Nat PROVE \E f : Found(b, n, f)
<1> DEFINE D == {k \in Nat : ~\E f : Found(b, k, f)}
<1>1. SUFFICES ASSUME D # {} PROVE FALSE
  OBVIOUS
<1>2. PICK k \in D : \A j \in D : k <= j
  BY <1>1, Least
<1>3. CASE k = 0
  <2> DEFINE f == [j \in 0..k |-> <<>>]
  <2>1. Found(b, k, f)
    BY <1>3 DEF Found
  <2> QED BY <1>2, <2>1
<1>4. CASE k # 0
  <2>1. k - 1 \in Nat /\ ~(k <= k - 1)
    BY <1>2, <1>4
  <2>2. PICK f : Found(b, k - 1, f)
    BY <1>2, <2>1
  <2> DEFINE More(j) == IF isSeparator(b[j]) THEN f[j - 1]
                        ELSE IF f[j - 1] # <<>> /\ isSeparator(b[j - 1]) THEN f[j - 1] \o <<Separator, b[j]>>
                        ELSE Append(f[j - 1], b[j])
             g == [j \in 0..k |-> IF j < k THEN f[j] ELSE More(j)]
  <2>3. ASSUME NEW j \in 1..(k - 1) PROVE f[j] = More(j)
    <3>1. j \in 0..(k - 1) /\ j # 0
      BY <2>1
    <3> QED BY <2>2, <3>1 DEF Found
  <2>4. f[0] = <<>>
    BY <2>1, <2>2 DEF Found
  <2>5. \A j \in 1..k : f[j - 1] = g[j - 1] /\ g[j] = More(j)
    <3> HIDE DEF More
    <3>1. \A j \in 1..k : j - 1 \in 0..k /\ j - 1 < k /\ j \in 0..k /\ (j < k => j \in 1..(k - 1))
      BY <2>1
    <3> QED BY <2>3, <3>1
  <2>6. g[0] = <<>>
    BY <2>1, <2>4
  <2> HIDE DEF g
  <2>7. Found(b, k, [j \in 0..k |-> g[j]])
    <3>1. \A j \in 0..k : j = 0 \/ j \in 1..k
      BY <2>1
    <3> QED BY <2>1, <2>5, <2>6, <3>1 DEF Found
  <2> QED BY <1>2, <2>7
<1> QED BY <1>3, <1>4

LEMMA NamesFound ==
  ASSUME NEW b, Len(b) \in Nat, NEW f, Found(b, Len(b), f)
  PROVE  NamesOf(b) = f[Len(b)]
<1> DEFINE upTo == CHOOSE upTo : upTo = [i \in 0..Len(b) |->
        IF i = 0 THEN <<>>
        ELSE IF isSeparator(b[i]) THEN upTo[i - 1]
        ELSE IF upTo[i - 1] # <<>> /\ isSeparator(b[i - 1]) THEN upTo[i - 1] \o <<Separator, b[i]>>
        ELSE Append(upTo[i - 1], b[i])]
<1>1. NamesOf(b) = upTo[Len(b)]
  BY DEF NamesOf
<1>2. Found(b, Len(b), upTo)
  BY DEF Found
<1> HIDE DEF upTo
<1> QED BY <1>1, <1>2, FoundUnique

\* What is found is a sequence, empty only while no name has begun.
LEMMA FoundType ==
  ASSUME NEW b \in Seq(Char), NEW f, Found(b, Len(b), f), NEW j \in 0..Len(b)
  PROVE  f[j] \in Seq(Char) /\ (f[j] = <<>> => j = 0 \/ isSeparator(b[j]))
<1> DEFINE n == Len(b)
           D == {k \in 0..n : ~(f[k] \in Seq(Char) /\ (f[k] = <<>> => k = 0 \/ isSeparator(b[k])))}
<1>1. SUFFICES ASSUME D # {} PROVE FALSE
  OBVIOUS
<1>2. PICK k \in D : \A i \in D : k <= i
  <2>1. D \subseteq Nat
    OBVIOUS
  <2> HIDE DEF D
  <2> QED BY <1>1, <2>1, Least
<1>3. <<>> \in Seq(Char) /\ Separator \in Char /\ n \in Nat
  BY Strings DEF Char
<1>4. CASE k = 0
  <2>1. f[0] = <<>>
    BY <1>3 DEF Found
  <2> QED BY <1>2, <1>3, <1>4, <2>1
<1>5. CASE k # 0
  <2>1. k \in 1..n /\ k - 1 \in 0..n /\ ~(k <= k - 1) /\ b[k] \in Char
    BY <1>2, <1>3, <1>5
  <2>2. f[k - 1] \in Seq(Char)
    BY <1>2, <2>1
  <2>3. f[k] = IF isSeparator(b[k]) THEN f[k - 1]
               ELSE IF f[k - 1] # <<>> /\ isSeparator(b[k - 1]) THEN f[k - 1] \o <<Separator, b[k]>>
               ELSE Append(f[k - 1], b[k])
    <3>1. k \in 0..Len(b) /\ k # 0
      BY <2>1
    <3> QED BY <3>1 DEF Found
  <2>4. PICK x \in Seq(Char) : x = f[k - 1]
    BY <2>2
  <2>5. /\ <<Separator, b[k]>> \in Seq(Char) /\ Len(<<Separator, b[k]>>) = 2
        /\ Append(x, b[k]) \in Seq(Char) /\ Len(Append(x, b[k])) = Len(x) + 1 /\ Len(x) \in Nat
    BY <1>3, <2>1
  <2>6. x \o <<Separator, b[k]>> \in Seq(Char) /\ Len(x \o <<Separator, b[k]>>) = Len(x) + 2
    BY <2>5, Joining
  <2>7. x \o <<Separator, b[k]>> # <<>> /\ Append(x, b[k]) # <<>>
    BY <2>5, <2>6, EmptySeq
  <2>8. f[k] \in Seq(Char) /\ (f[k] = <<>> => isSeparator(b[k]))
    BY <2>2, <2>3, <2>4, <2>5, <2>6, <2>7
  <2> QED BY <1>2, <2>8
<1> QED BY <1>4, <1>5

\* Two strings have the same beginning, and the same names there.
Agree(b, s, m) == \A i \in 1..m : b[i] = s[i]

LEMMA FoundPrefix ==
  ASSUME NEW b, NEW s, NEW m \in Nat, NEW n \in Nat, m <= n, Agree(b, s, m),
         NEW f, Found(b, n, f), NEW g, Found(s, m, g)
  PROVE  f[m] = g[m]
<1> DEFINE e == [i \in 0..m |-> f[i]]
<1>1. ASSUME NEW i \in 0..m
      PROVE  e[i] = IF i = 0 THEN <<>>
                    ELSE IF isSeparator(s[i]) THEN e[i - 1]
                    ELSE IF e[i - 1] # <<>> /\ isSeparator(s[i - 1]) THEN e[i - 1] \o <<Separator, s[i]>>
                    ELSE Append(e[i - 1], s[i])
  <2>1. CASE i = 0
    BY <2>1 DEF Found
  <2>2. CASE i # 0
    <3>1. i \in 0..n /\ i - 1 \in 0..m /\ i - 1 \in 0..n /\ i \in 1..m /\ b[i] = s[i]
      BY <2>2 DEF Agree
    <3>2. f[i] = IF isSeparator(s[i]) THEN f[i - 1]
                 ELSE IF f[i - 1] # <<>> /\ isSeparator(b[i - 1]) THEN f[i - 1] \o <<Separator, s[i]>>
                 ELSE Append(f[i - 1], s[i])
      BY <2>2, <3>1 DEF Found
    <3>3. e[i] = f[i] /\ e[i - 1] = f[i - 1]
      BY <3>1
    <3>4. CASE i = 1
      <4>1. f[i - 1] = <<>>
        BY <3>1, <3>4 DEF Found
      <4> HIDE DEF e
      <4> QED BY <2>2, <3>2, <3>3, <4>1
    <3>5. CASE i # 1
      <4>1. b[i - 1] = s[i - 1]
        <5>1. i - 1 \in 1..m
          BY <3>1, <3>5
        <5> QED BY <5>1 DEF Agree
      <4> HIDE DEF e
      <4> QED BY <2>2, <3>2, <3>3, <4>1
    <3> QED BY <3>4, <3>5
  <2> QED BY <2>1, <2>2
<1>2. Found(s, m, [i \in 0..m |-> e[i]])
  <2> HIDE DEF e
  <2>1. \A i \in 0..m : i # 0 => i - 1 \in 0..m
    OBVIOUS
  <2> QED BY <1>1, <2>1 DEF Found
<1>3. [i \in 0..m |-> e[i]] = g
  BY <1>2, FoundUnique
<1> QED BY <1>3

LEMMA PutMore ==
  ASSUME NEW x \in Seq(Char), NEW y \in Seq(Char), NEW w \in Seq(Char), y # <<>>
  PROVE  Put(x, y \o w) = Put(x, y) \o w /\ Put(x, y) # <<>>
<1>1. Len(y) \in Nat /\ Len(y) # 0 /\ Len(w) \in Nat /\ Len(x) \in Nat
  BY Strings
<1>2. <<Separator>> \in Seq(Char) /\ Len(<<Separator>>) = 1
  BY Strings
<1>3. x \o <<Separator>> \in Seq(Char) /\ Len(x \o <<Separator>>) \in Nat
  BY <1>1, <1>2, Joining
<1>4. Len(y \o w) # 0 /\ Len((x \o <<Separator>>) \o y) # 0
  BY <1>1, <1>3, Joining
<1>5. y \o w # <<>> /\ (x \o <<Separator>>) \o y # <<>>
  BY <1>4, EmptySeq
<1>6. ((x \o <<Separator>>) \o y) \o w = (x \o <<Separator>>) \o (y \o w)
  BY <1>3, Associative, Zenon
<1> QED BY <1>5, <1>6 DEF Put

\* The names behind a separator, or behind nothing, follow those before it.
LEMMA NamesJoin ==
  ASSUME NEW s \in Seq(Char), NEW t \in Seq(Char), s = <<>> \/ isSeparator(s[Len(s)])
  PROVE  NamesOf(s \o t) = Put(NamesOf(s), NamesOf(t))
<1> DEFINE b == s \o t
<1>m. PICK m \in Nat : m = Len(s)
  BY Strings
<1>n. PICK n \in Nat : n = Len(t)
  BY Strings
<1>1. /\ b \in Seq(Char) /\ Len(b) = m + n /\ m + n \in Nat /\ m <= m + n
      /\ \A i \in 1..m : b[i] = s[i]
      /\ \A i \in 1..n : b[m + i] = t[i]
  BY <1>m, <1>n, Joining
<1> HIDE DEF b
<1>2. PICK f : Found(b, m + n, f)
  BY <1>1, FoundExists
<1>3. PICK g : Found(s, m, g)
  BY <1>1, FoundExists
<1>4. PICK h : Found(t, n, h)
  BY <1>1, FoundExists
<1>5. NamesOf(b) = f[m + n] /\ NamesOf(s) = g[m] /\ NamesOf(t) = h[n]
  <2>1. Found(b, Len(b), f) /\ Len(b) \in Nat /\ Len(b) = m + n
    BY <1>1, <1>2, Zenon
  <2>2. Found(s, Len(s), g) /\ Len(s) \in Nat
    BY <1>m, <1>3, Zenon
  <2>3. Found(t, Len(t), h) /\ Len(t) \in Nat
    BY <1>n, <1>4, Zenon
  <2>4. NamesOf(b) = f[Len(b)] /\ NamesOf(s) = g[Len(s)] /\ NamesOf(t) = h[Len(t)]
    BY <2>1, <2>2, <2>3, NamesFound, Zenon
  <2> QED BY <1>m, <1>n, <2>1, <2>4, Zenon
<1>6. f[m] = g[m]
  <2>1. m <= m + n /\ m + n \in Nat /\ Agree(b, s, m)
    BY <1>1 DEF Agree
  <2> QED BY <1>2, <1>3, <2>1, FoundPrefix
<1>7. PICK x \in Seq(Char) : x = g[m] /\ (x # <<>> => m # 0 /\ isSeparator(s[m]))
  <2>1. m \in 0..m /\ 0 \in 0..m
    BY <1>1
  <2>2. g[m] \in Seq(Char) /\ g[0] = <<>>
    BY <1>m, <1>3, <2>1, FoundType DEF Found
  <2>3. (s = <<>> => m = 0) /\ Len(s) = m
    BY <1>m, Strings
  <2> QED BY <2>2, <2>3
<1> DEFINE D == {j \in 0..n : f[m + j] # Put(x, h[j])}
<1>8. SUFFICES ASSUME D # {} PROVE FALSE
  <2>1. n \in 0..n
    BY <1>1
  <2> QED BY <1>5, <1>7, <2>1 DEF b
<1>9. PICK j \in D : \A i \in D : j <= i
  <2>1. D \subseteq Nat
    OBVIOUS
  <2> HIDE DEF D
  <2> QED BY <1>8, <2>1, Least
<1>10. h[0] = <<>>
  BY <1>1, <1>4 DEF Found
<1>11. CASE j = 0
  BY <1>1, <1>6, <1>7, <1>9, <1>10, <1>11 DEF Put
<1>12. CASE j # 0
  <2>1. /\ j \in 1..n /\ j - 1 \in 0..n /\ ~(j <= j - 1) /\ j \in 0..n
        /\ m + j \in 0..(m + n) /\ m + j # 0 /\ (m + j) - 1 = m + (j - 1)
    BY <1>1, <1>9, <1>12
  <2>2. f[m + (j - 1)] = Put(x, h[j - 1])
    BY <1>9, <2>1
  <2>3. PICK y \in Seq(Char) : y = h[j - 1] /\ (y = <<>> => j - 1 = 0 \/ isSeparator(t[j - 1]))
    BY <1>n, <1>4, <2>1, FoundType
  <2>4. PICK c \in Char : c = t[j] /\ c = b[m + j]
    BY <1>n, <1>1, <2>1
  <2>5. h[j] = IF isSeparator(c) THEN y
               ELSE IF y # <<>> /\ isSeparator(t[j - 1]) THEN y \o <<Separator, c>> ELSE Append(y, c)
    BY <1>4, <1>12, <2>1, <2>3, <2>4 DEF Found
  <2>6. f[m + j] = IF isSeparator(c) THEN Put(x, y)
                   ELSE IF Put(x, y) # <<>> /\ isSeparator(b[m + (j - 1)]) THEN Put(x, y) \o <<Separator, c>>
                   ELSE Append(Put(x, y), c)
    <3>1. f[m + j] = IF isSeparator(b[m + j]) THEN f[(m + j) - 1]
                     ELSE IF f[(m + j) - 1] # <<>> /\ isSeparator(b[(m + j) - 1])
                          THEN f[(m + j) - 1] \o <<Separator, b[m + j]>>
                     ELSE Append(f[(m + j) - 1], b[m + j])
      BY <1>2, <2>1 DEF Found
    <3> QED BY <2>1, <2>2, <2>3, <2>4, <3>1
  <2>7. /\ <<c>> \in Seq(Char) /\ <<Separator>> \in Seq(Char) /\ <<Separator, c>> \in Seq(Char)
        /\ <<c>> # <<>> /\ Append(<<>>, c) = <<c>> /\ <<Separator, c>> = <<Separator>> \o <<c>>
        /\ Append(y, c) = y \o <<c>>
    <3>1. Separator \in Char
      BY DEF Char
    <3> QED BY <3>1, AppendIsConcat
  <2>8. f[m + j] = Put(x, h[j])
    <3>1. CASE isSeparator(c)
      BY <2>5, <2>6, <3>1
    <3>2. CASE ~isSeparator(c) /\ y = <<>>
      <4>1. h[j] = <<c>> /\ Put(x, y) = x
        BY <2>5, <2>7, <3>2 DEF Put
      <4>2. CASE x = <<>>
        BY <2>6, <2>7, <3>2, <4>1, <4>2 DEF Put
      <4>3. CASE x # <<>>
        <5>1. isSeparator(b[m + (j - 1)])
          <6>1. CASE j = 1
            <7>1. m + (j - 1) = m /\ m \in 1..m
              BY <1>1, <1>7, <4>3, <6>1
            <7> QED BY <1>1, <1>7, <4>3, <7>1
          <6>2. CASE j # 1
            <7>1. j - 1 \in 1..n /\ j - 1 # 0
              BY <2>1, <6>2
            <7> QED BY <1>1, <2>3, <3>2, <7>1
          <6> QED BY <6>1, <6>2
        <5>2. f[m + j] = x \o <<Separator, c>>
          BY <2>6, <3>2, <4>1, <4>3, <5>1
        <5>3. Put(x, <<c>>) = (x \o <<Separator>>) \o <<c>>
          BY <2>7, <4>3 DEF Put
        <5>4. (x \o <<Separator>>) \o <<c>> = x \o (<<Separator>> \o <<c>>)
          BY <2>7, Associative, Zenon
        <5> QED BY <2>7, <4>1, <5>2, <5>3, <5>4
      <4> QED BY <4>2, <4>3
    <3>3. CASE ~isSeparator(c) /\ y # <<>>
      <4>1. j - 1 \in 1..n /\ b[m + (j - 1)] = t[j - 1]
        <5>1. j - 1 # 0
          BY <1>10, <2>3, <3>3
        <5>2. j - 1 \in 1..n
          BY <2>1, <5>1
        <5> QED BY <1>1, <5>2
      <4>2. Put(x, y) # <<>>
        BY <2>7, <3>3, PutMore
      <4>3. CASE isSeparator(t[j - 1])
        <5>1. h[j] = y \o <<Separator, c>> /\ f[m + j] = Put(x, y) \o <<Separator, c>>
          BY <2>5, <2>6, <3>3, <4>1, <4>2, <4>3
        <5>2. Put(x, y \o <<Separator, c>>) = Put(x, y) \o <<Separator, c>>
          BY <2>7, <3>3, PutMore
        <5> QED BY <5>1, <5>2
      <4>4. CASE ~isSeparator(t[j - 1])
        <5>1. h[j] = y \o <<c>>
          BY <2>5, <2>7, <3>3, <4>4
        <5>2. f[m + j] = Append(Put(x, y), c)
          BY <2>6, <3>3, <4>1, <4>4
        <5>3. Put(x, y) \in Seq(Char)
          <6>1. x \o <<Separator>> \in Seq(Char)
            BY <2>7, Joining
          <6>2. (x \o <<Separator>>) \o y \in Seq(Char)
            BY <6>1, Joining
          <6> QED BY <6>2 DEF Put
        <5>4. Append(Put(x, y), c) = Put(x, y) \o <<c>>
          BY <5>3, AppendIsConcat
        <5>5. Put(x, y \o <<c>>) = Put(x, y) \o <<c>>
          BY <2>7, <3>3, PutMore
        <5> QED BY <5>1, <5>2, <5>4, <5>5
      <4> QED BY <4>3, <4>4
    <3> QED BY <3>1, <3>2, <3>3
  <2> QED BY <1>9, <2>8
<1> QED BY <1>11, <1>12

\* A separator adds nothing.
LEMMA NamesGlue ==
  ASSUME NEW s \in Seq(Char) PROVE NamesOf(s \o <<Separator>>) = NamesOf(s)
<1> DEFINE b == s \o <<Separator>>
<1>m. PICK m \in Nat : m = Len(s)
  BY Strings
<1>1. /\ b \in Seq(Char) /\ Len(b) = m + 1
      /\ \A i \in 1..m : b[i] = s[i]
      /\ isSeparator(b[m + 1])
  <2>1. PICK t \in Seq(Char) : t = <<Separator>> /\ Len(t) = 1 /\ isSeparator(t[1])
    BY Strings
  <2>2. 1 \in 1..Len(t)
    BY <2>1
  <2> QED BY <1>m, <2>1, <2>2, Joining
<1> HIDE DEF b
<1>4. m + 1 \in Nat /\ m <= m + 1 /\ m + 1 \in 0..(m + 1) /\ m + 1 # 0 /\ (m + 1) - 1 = m
  BY <1>1
<1>2. PICK f : Found(b, m + 1, f)
  BY <1>4, FoundExists
<1>3. PICK g : Found(s, m, g)
  BY FoundExists
<1>5. f[m] = g[m]
  <2>1. Agree(b, s, m)
    BY <1>1 DEF Agree
  <2> QED BY <1>2, <1>3, <1>4, <2>1, FoundPrefix
<1>6. f[m + 1] = f[(m + 1) - 1]
  BY <1>1, <1>2, <1>4 DEF Found
<1>7. NamesOf(b) = f[m + 1] /\ NamesOf(s) = g[m]
  <2>1. Found(b, Len(b), f) /\ Len(b) \in Nat /\ Len(b) = m + 1
    BY <1>1, <1>2, <1>4, Zenon
  <2>2. Found(s, Len(s), g) /\ Len(s) \in Nat
    BY <1>m, <1>3, Zenon
  <2>3. NamesOf(b) = f[Len(b)] /\ NamesOf(s) = g[Len(s)]
    BY <2>1, <2>2, NamesFound, Zenon
  <2> QED BY <1>m, <2>1, <2>3, Zenon
<1> QED BY <1>4, <1>5, <1>6, <1>7 DEF b

LEMMA NamesAre == \A d : Names(d) = NamesOf(Body(d))
BY DEF Names, NamesOf

\* What is behind a drive.
LEMMA Behind ==
  ASSUME NEW s \in Seq(Char), NEW n \in Nat, n = Len(s), n >= 2
  PROVE  /\ SubSeq(s, 3, n) \in Seq(Char) /\ Len(SubSeq(s, 3, n)) = n - 2
         /\ \A i \in 1..(n - 2) : SubSeq(s, 3, n)[i] = s[i + 2]
<1>1. \A i \in 3..n : s[i] \in Char
  OBVIOUS
<1>2. /\ SubSeq(s, 3, n) \in Seq(Char)
      /\ Len(SubSeq(s, 3, n)) = (IF 3 <= n THEN n - 3 + 1 ELSE 0)
      /\ \A i \in 1 .. n - 3 + 1 : SubSeq(s, 3, n)[i] = s[3 + i - 1]
  BY <1>1, SubSeqProperties
<1>3. (IF 3 <= n THEN n - 3 + 1 ELSE 0) = n - 2 /\ \A i \in 1..(n - 2) : i \in 1 .. n - 3 + 1 /\ 3 + i - 1 = i + 2
  OBVIOUS
<1> QED BY <1>2, <1>3

LEMMA BodyOf ==
  ASSUME NEW s \in Seq(Char), NEW t \in Seq(Char), Drive(s)
  PROVE  Drive(s \o t) /\ Body(s \o t) = Body(s) \o t
<1> DEFINE c == s \o t
<1>1. PICK m \in Nat, n \in Nat : m = Len(s) /\ n = Len(t) /\ m >= 2
  BY Strings DEF Drive
<1>2. /\ c \in Seq(Char) /\ Len(c) = m + n /\ m + n \in Nat /\ m + n >= 2
      /\ \A i \in 1..m : c[i] = s[i]
      /\ \A i \in 1..n : c[m + i] = t[i]
  BY <1>1, Joining
<1> HIDE DEF c
<1>3. c[1] = s[1] /\ c[2] = s[2]
  BY <1>1, <1>2
<1>4. Drive(c)
  BY <1>2, <1>3 DEF Drive
<1>5. PICK x \in Seq(Char) : /\ x = Body(s) /\ Len(x) = m - 2
                             /\ \A i \in 1..(m - 2) : x[i] = s[i + 2]
  BY <1>1, Behind DEF Body
<1>6. PICK y \in Seq(Char) : /\ y = Body(c) /\ Len(y) = (m + n) - 2
                             /\ \A i \in 1..((m + n) - 2) : y[i] = c[i + 2]
  BY <1>2, <1>4, Behind DEF Body
<1>7. /\ x \o t \in Seq(Char) /\ Len(x \o t) = (m - 2) + n
      /\ \A i \in 1..(m - 2) : (x \o t)[i] = x[i]
      /\ \A i \in 1..n : (x \o t)[(m - 2) + i] = t[i]
  <2>0. m - 2 \in Nat
    BY <1>1
  <2>1. PICK k \in Nat : k = m - 2
    BY <2>0, Zenon
  <2>2. Len(x) = k /\ Len(t) = n
    BY <1>1, <1>5, <2>1
  <2>3. /\ x \o t \in Seq(Char) /\ Len(x \o t) = k + n
        /\ \A i \in 1..k : (x \o t)[i] = x[i]
        /\ \A i \in 1..n : (x \o t)[k + i] = t[i]
    BY <2>2, Joining, Zenon
  <2> QED BY <2>1, <2>3, Zenon
<1>8. ASSUME NEW i \in 1..((m + n) - 2) PROVE y[i] = (x \o t)[i]
  <2>1. CASE i <= m - 2
    <3>1. i \in 1..(m - 2) /\ i + 2 \in 1..m
      BY <2>1
    <3> QED BY <1>2, <1>5, <1>6, <1>7, <3>1
  <2>2. CASE i > m - 2
    <3>0. i - (m - 2) \in 1..n
      BY <1>1, <2>2
    <3>1. PICK k \in 1..n : k = i - (m - 2)
      BY <3>0
    <3>2. i = (m - 2) + k /\ i + 2 = m + k
      BY <1>1, <3>1
    <3>3. y[i] = c[m + k] /\ (x \o t)[i] = t[k]
      BY <1>6, <1>7, <3>2
    <3> QED BY <1>2, <3>3
  <2>3. i <= m - 2 \/ i > m - 2
    BY <1>1
  <2> QED BY <2>1, <2>2, <2>3, Zenon
<1>9. y = x \o t
  <2>1. Len(y) = Len(x \o t) /\ Len(y) = (m + n) - 2
    BY <1>1, <1>6, <1>7
  <2> QED BY <1>7, <1>8, <2>1, SeqEqual
<1> QED BY <1>4, <1>5, <1>6, <1>9 DEF c

\* What is behind the root of a join.
LEMMA JoinedBody ==
  ASSUME NEW s \in Seq(Char), NEW t \in Seq(Char), ~Drive(t)
  PROVE  /\ Leads(t) => Body(JoinedString(s, t)) = t
         /\ ~Leads(t) => Body(JoinedString(s, t)) = (Body(s) \o Glue(s)) \o t
<1> DEFINE c == JoinedString(s, t)
<1>1. Drive(c) <=> Drive(s)
  BY RootKept
<1>2. CASE ~Drive(s)
  <2>1. Leads(t) => c = t
    BY <1>2, Strings DEF JoinedString, Root
  <2>2. ~Leads(t) => c = (s \o Glue(s)) \o t
    BY DEF JoinedString
  <2>3. Body(c) = c /\ Body(s) = s
    BY <1>1, <1>2 DEF Body
  <2> QED BY <2>1, <2>2, <2>3
<1>3. CASE Drive(s)
  <2>1. ASSUME Leads(t) PROVE Body(c) = t
    <3>1. PICK r \in Seq(Char) : r = Root(s) /\ r = SubSeq(s, 1, 2)
      BY <1>3, Strings DEF Root
    <3>2. Len(s) >= 2
      BY <1>3 DEF Drive
    <3>3. Len(r) = 2 /\ r[1] = s[1] /\ r[2] = s[2]
      BY <3>1, <3>2
    <3>4. Drive(r)
      BY <1>3, <3>3 DEF Drive
    <3>5. Body(r) = <<>>
      <4>1. SubSeq(r, 3, 2) = <<>>
        BY SubSeqEmpty
      <4> QED BY <3>3, <3>4, <4>1 DEF Body
    <3>6. c = r \o t
      BY <2>1, <3>1 DEF JoinedString
    <3>7. Body(c) = <<>> \o t
      BY <3>4, <3>5, <3>6, BodyOf
    <3> QED BY <3>7, Strings
  <2>2. ASSUME ~Leads(t) PROVE Body(c) = (Body(s) \o Glue(s)) \o t
    <3>1. Glue(s) \in Seq(Char)
      BY Strings
    <3>2. PICK e \in Seq(Char) : e = s \o Glue(s)
      BY <3>1, Joining
    <3>3. Drive(e) /\ Body(e) = Body(s) \o Glue(s)
      BY <1>3, <3>1, <3>2, BodyOf
    <3>4. c = e \o t
      BY <2>2, <3>2 DEF JoinedString
    <3> QED BY <3>3, <3>4, BodyOf
  <2> QED BY <2>1, <2>2
<1> QED BY <1>2, <1>3

LEMMA BodyEnds ==
  ASSUME NEW s \in Seq(Char)
  PROVE  /\ Body(s) \in Seq(Char)
         /\ Body(s) = <<>> => ~Ends(s)
         /\ Body(s) # <<>> => (Ends(s) <=> ~isSeparator(Body(s)[Len(Body(s))]))
<1>1. PICK n \in Nat : n = Len(s)
  BY Strings
<1>2. CASE ~Drive(s)
  <2>1. Body(s) = s /\ (s = <<>> <=> n = 0)
    BY <1>1, <1>2, Strings DEF Body
  <2>2. Ends(s) <=> n > 0 /\ ~isSeparator(s[n])
    BY <1>1, <1>2 DEF Ends
  <2>3. n # 0 => n > 0
    OBVIOUS
  <2> QED BY <1>1, <2>1, <2>2, <2>3
<1>3. CASE Drive(s)
  <2>1. n >= 2
    BY <1>1, <1>3 DEF Drive
  <2>2. PICK x \in Seq(Char) : /\ x = Body(s) /\ Len(x) = n - 2
                               /\ \A i \in 1..(n - 2) : x[i] = s[i + 2]
    BY <1>1, <1>3, <2>1, Behind DEF Body
  <2>3. Ends(s) <=> n > 2 /\ ~isSeparator(s[n])
    BY <1>1, <1>3 DEF Ends
  <2>4. x = <<>> <=> n = 2
    <3>1. x = <<>> <=> Len(x) = 0
      BY Strings
    <3> QED BY <2>1, <2>2, <3>1
  <2>5. ASSUME n # 2 PROVE x[Len(x)] = s[n]
    <3>1. n - 2 \in 1..(n - 2) /\ (n - 2) + 2 = n
      BY <2>1, <2>5
    <3> QED BY <2>2, <3>1
  <2>6. n # 2 => n > 2
    BY <2>1
  <2> QED BY <2>2, <2>3, <2>4, <2>5, <2>6
<1> QED BY <1>2, <1>3

\* The names of a join of strings without a drive.
LEMMA NamesOfJoin ==
  ASSUME NEW s \in Seq(Char), NEW t \in Seq(Char)
  PROVE  NamesOf((Body(s) \o Glue(s)) \o t) = Put(NamesOf(Body(s)), NamesOf(t))
<1>1. PICK x \in Seq(Char) : x = Body(s)
  BY BodyEnds
<1>2. CASE Ends(s)
  <2>1. PICK e \in Seq(Char) : e = x \o <<Separator>>
    BY Joining, Strings
  <2>2. NamesOf(e) = NamesOf(x)
    BY <2>1, NamesGlue
  <2>3. isSeparator(e[Len(e)])
    <3>1. PICK g \in Seq(Char) : g = <<Separator>> /\ Len(g) = 1 /\ isSeparator(g[1])
      BY Strings
    <3>2. Len(g) > 0 /\ e = x \o g
      BY <2>1, <3>1
    <3>3. e[Len(e)] = g[Len(g)]
      BY <3>2, Joining
    <3> QED BY <3>1, <3>3
  <2>4. NamesOf(e \o t) = Put(NamesOf(e), NamesOf(t))
    BY <2>3, NamesJoin
  <2> QED BY <1>1, <1>2, <2>1, <2>2, <2>4 DEF Glue
<1>3. CASE ~Ends(s)
  <2>1. x = <<>> \/ isSeparator(x[Len(x)])
    BY <1>1, <1>3, BodyEnds
  <2>2. x \o Glue(s) = x
    BY <1>3, Strings DEF Glue
  <2>3. NamesOf(x \o t) = Put(NamesOf(x), NamesOf(t))
    BY <2>1, NamesJoin
  <2> QED BY <1>1, <2>2, <2>3
<1> QED BY <1>2, <1>3

LEMMA StringsMeet ==
  ASSUME NEW s \in Seq(Char), NEW t \in Seq(Char)
  PROVE  Meets(s, t, JoinedString(s, t))
<1> DEFINE c == JoinedString(s, t)
<1>1. CASE Drive(t)
  BY <1>1 DEF Meets, JoinedString
<1>2. CASE ~Drive(t)
  <2>1. Root(c) = Root(s)
    BY <1>2, RootKept
  <2>2. Body(t) = t /\ (Rooted(t) <=> Leads(t)) /\ Names(t) = NamesOf(t) /\ Names(s) = NamesOf(Body(s))
    BY <1>2, NamesAre DEF Body, Rooted, Leads
  <2>3. CASE Leads(t)
    <3>1. Body(c) = t /\ Names(c) = NamesOf(t) /\ Rooted(c)
      BY <1>2, <2>3, JoinedBody, NamesAre DEF Rooted, Leads
    <3> QED BY <1>2, <2>1, <2>2, <2>3, <3>1 DEF Meets
  <2>4. CASE ~Leads(t)
    <3>1. Body(c) = (Body(s) \o Glue(s)) \o t
      BY <1>2, <2>4, JoinedBody
    <3>2. Names(c) = Put(Names(s), Names(t))
      BY <2>2, <3>1, NamesAre, NamesOfJoin
    <3>3. PICK x \in Seq(Char) : x = Body(s)
      BY BodyEnds
    <3>4. Rooted(c) <=> Rooted(s)
      <4>1. CASE x = <<>>
        <5>1. ~Ends(s)
          BY <3>3, <4>1, BodyEnds
        <5>2. Body(c) = t
          BY <3>1, <3>3, <4>1, <5>1, Strings DEF Glue
        <5> QED BY <2>4, <3>3, <4>1, <5>2 DEF Rooted, Leads
      <4>2. CASE x # <<>>
        <5>1. PICK g \in Seq(Char) : g = Glue(s)
          BY Strings
        <5>2. PICK e \in Seq(Char) : e = x \o g
          BY Joining
        <5>3. PICK n \in Nat : n = Len(x) /\ n # 0
          BY <4>2, Strings
        <5>4. e[1] = x[1] /\ Len(e) = n + Len(g) /\ Len(g) \in Nat
          <6>1. 1 \in 1..Len(x)
            BY <5>3
          <6> QED BY <5>2, <5>3, <6>1, Joining, Strings
        <5>5. (e \o t)[1] = e[1] /\ Len(e \o t) = Len(e) + Len(t) /\ Len(t) \in Nat /\ e \o t \in Seq(Char)
          <6>1. 1 \in 1..Len(e)
            BY <5>3, <5>4
          <6> QED BY <6>1, Joining, Strings
        <5>6. e \o t # <<>>
          BY <5>3, <5>4, <5>5, EmptySeq
        <5>7. Body(c) = e \o t
          BY <3>1, <3>3, <5>1, <5>2
        <5> QED BY <3>3, <4>2, <5>4, <5>5, <5>6, <5>7 DEF Rooted
      <4> QED BY <4>1, <4>2
    <3> QED BY <1>2, <2>1, <2>2, <2>4, <3>2, <3>4 DEF Meets, Put
  <2> QED BY <2>3, <2>4
<1> QED BY <1>1, <1>2

-----------------------------------------------------------------------------
(* Joins of objects                                                        *)

\* The string of a join, for objects whose lengths are right.
LEMMA JoinedDataRight ==
  ASSUME NEW a \in Object, NEW b \in Object, Current(a), Current(b), ~isAbsolute(b),
         NEW self \in BOOLEAN, self => b.rootDir = 0, NEW d \in JoinedData(a, b, self)
  PROVE  /\ d \in Seq(Char)
         /\ a.root = 0 \/ Drive(d)
         /\ (IF Drive(d) THEN 2 ELSE 0) = Len(d) => a.file = 0
<1>1. a.data \in Seq(Char) /\ b.data \in Seq(Char) /\ Separator \in Char
  BY DEF Object, Char
<1>2. /\ Len(a.data) \in Nat /\ Len(b.data) \in Nat
      /\ a.root <= Len(a.data) /\ (a.root = 0 \/ (a.root = 2 /\ Drive(a.data)))
  <2>1. a.root = IF Drive(a.data) THEN 2 ELSE 0
    BY DEF Current
  <2> QED BY <1>1, <2>1 DEF Drive
<1>3. b.root = 0 /\ ~Drive(b.data) /\ b.rootDir <= Len(b.data)
  <2>1. /\ b.root = (IF Drive(b.data) THEN 2 ELSE 0) /\ b.root <= b.rootDir
        /\ b.rootDir <= Len(b.data) - b.file /\ Len(b.data) - b.file <= Len(b.data)
    BY DEF Current
  <2>2. b.rootDir \in Nat /\ b.file \in Nat
    BY DEF Object
  <2> QED BY <1>2, <2>1, <2>2 DEF isAbsolute
<1>m. PICK m \in Nat : m = Len(a.data)
  BY <1>2
<1>k. PICK k \in Nat : k = Len(b.data)
  BY <1>2
<1>4. CASE b.rootDir # 0
  <2>1. d = SubSeq(a.data, 1, a.root) \o b.data
    BY <1>2, <1>4 DEF JoinedData, Resized
  <2>2. Len(b.data) > 0
    BY <1>2, <1>3, <1>4 DEF Object
  <2>3. CASE a.root = 0
    <3>1. d = b.data
      BY <1>1, <2>1, <2>3
    <3> QED BY <1>1, <1>2, <1>3, <2>2, <2>3, <3>1
  <2>4. CASE a.root = 2 /\ Drive(a.data)
    <3>1. /\ SubSeq(a.data, 1, 2) \in Seq(Char) /\ Len(SubSeq(a.data, 1, 2)) = 2
          /\ SubSeq(a.data, 1, 2)[1] = a.data[1] /\ SubSeq(a.data, 1, 2)[2] = a.data[2]
      BY <1>1, <1>2, <2>4
    <3>2. d \in Seq(Char) /\ Len(d) = 2 + Len(b.data) /\ d[1] = a.data[1] /\ d[2] = a.data[2]
      BY <1>1, <2>1, <2>4, <3>1
    <3> QED BY <1>2, <2>2, <2>4, <3>2 DEF Drive
  <2> QED BY <1>2, <2>3, <2>4
<1>5. CASE b.rootDir = 0 /\ a.file # 0
  <2>1. d = (a.data \o <<Separator>>) \o b.data
    BY <1>5 DEF JoinedData
  <2>2. PICK e \in Seq(Char) : e = a.data \o <<Separator>>
    <3>1. <<Separator>> \in Seq(Char)
      BY <1>1
    <3> QED BY <1>1, <3>1, Concat
  <2>3. /\ Len(e) = m + 1 /\ e[m + 1] = Separator
        /\ \A i \in 1..m : e[i] = a.data[i]
    <3>1. <<Separator>> \in Seq(Char) /\ Len(<<Separator>>) = 1 /\ <<Separator>>[1] = Separator
      BY <1>1
    <3>2. 1 \in 1..Len(<<Separator>>)
      BY <3>1
    <3> QED BY <1>1, <1>m, <2>2, <3>1, <3>2, Concat
  <2>4. /\ d \in Seq(Char) /\ Len(d) = Len(e) + k
        /\ \A i \in 1..Len(e) : d[i] = e[i]
    BY <1>1, <1>k, <2>1, <2>2, Concat
  <2>5. /\ Len(d) = (m + 1) + k /\ d[m + 1] = Separator
        /\ \A i \in 1..m : d[i] = a.data[i]
    BY <2>3, <2>4
  <2>6. a.root = 0 \/ Drive(d)
    <3>1. CASE a.root = 2 /\ Drive(a.data)
      <4>1. m >= 2
        BY <1>2, <1>m, <3>1
      <4>2. Len(d) >= 2 /\ d[1] = a.data[1] /\ d[2] = a.data[2]
        BY <2>5, <4>1
      <4> QED BY <3>1, <4>2 DEF Drive
    <3> QED BY <1>2, <3>1
  <2>7. m >= 1
    <3>1. /\ a.root <= a.rootDir /\ a.rootDir <= m - a.file
          /\ a.root \in {0, 2} /\ a.rootDir \in Nat /\ a.file \in Nat
      BY <1>m DEF Current, Object
    <3> QED BY <1>5, <3>1
  <2>8. ~(Drive(d) /\ Len(d) = 2)
    <3>1. \A x, y \in Nat : (x + 1) + y = 2 /\ x >= 1 => x = 1
      OBVIOUS
    <3>2. Len(d) = 2 => m = 1
      <4>1. Len(d) = (m + 1) + k
        BY <2>5
      <4> QED BY <1>m, <1>k, <2>7, <3>1, <4>1
    <3>3. Len(d) = 2 => d[2] = Separator
      <4>1. d[m + 1] = Separator
        BY <2>5
      <4> QED BY <3>2, <4>1
    <3>4. Separator # Colon
      BY PathAssumption
    <3> QED BY <3>3, <3>4 DEF Drive
  <2>9. Len(d) # 0
    BY <2>5
  <2> QED BY <2>4, <2>6, <2>8, <2>9
<1>6. CASE b.rootDir = 0 /\ a.file = 0
  <2>1. d = a.data \o b.data
    <3>1. ~(a.rootDir = 0 /\ isAbsolute(a))
      BY DEF isAbsolute
    <3> QED BY <1>6, <3>1 DEF JoinedData
  <2>2. /\ d \in Seq(Char) /\ Len(d) = m + k
        /\ \A i \in 1..m : d[i] = a.data[i]
    BY <1>1, <1>m, <1>k, <2>1, Concat
  <2>3. a.root = 0 \/ Drive(d)
    <3>1. CASE a.root = 2 /\ Drive(a.data)
      <4>1. m >= 2
        BY <1>2, <1>m, <3>1
      <4>2. Len(d) >= 2 /\ d[1] = a.data[1] /\ d[2] = a.data[2]
        BY <2>2, <4>1
      <4> QED BY <3>1, <4>2 DEF Drive
    <3> QED BY <1>2, <3>1
  <2> QED BY <1>6, <2>2, <2>3
<1> QED BY <1>4, <1>5, <1>6

LEMMA JoinedRight ==
  ASSUME NEW a \in Member, NEW b \in Member, Current(a), Current(b),
         NEW self \in BOOLEAN, self => b.rootDir = 0, NEW r \in Joined(a, b, self)
  PROVE  Current(r)
<1>1. CASE isAbsolute(b)
  BY <1>1 DEF Joined
<1>2. CASE ~isAbsolute(b)
  <2>1. b.root = 0
    <3>1. b.root <= b.rootDir /\ b.root \in {0, 2} /\ b.rootDir \in Nat
      BY DEF Current, Member
    <3> QED BY <1>2, <3>1 DEF isAbsolute
  <2>2. PICK d \in JoinedData(a, b, self) : r \in Parsed(d, a)
    BY <1>2, <2>1 DEF Joined
  <2> QED BY <1>2, <2>2, JoinedDataRight, ParsedIsCurrent, MemberIsObject
<1> QED BY <1>1, <1>2

\* The lengths tell what the string is.
LEMMA Told ==
  ASSUME NEW a \in Object, Current(a)
  PROVE  /\ a.file # 0 <=> Ends(a.data)
         /\ isAbsolute(a) <=> Drive(a.data)
         /\ a.root # 0 <=> Drive(a.data)
         /\ ~Drive(a.data) => (a.rootDir # 0 <=> Leads(a.data))
<1> DEFINE d == a.data
           n == Len(d)
           root == a.root
<1>1. /\ n \in Nat /\ root \in {0, 2} /\ a.rootDir \in Nat /\ a.file \in Nat
      /\ root = (IF Drive(d) THEN 2 ELSE 0) /\ d \in Seq(Char)
      /\ root <= a.rootDir /\ a.rootDir <= n - a.file
  BY CurrentType
<1>2. /\ \A i \in root+1 .. a.rootDir : isSeparator(d[i])
      /\ a.rootDir < n => ~isSeparator(d[a.rootDir + 1])
      /\ \A i \in (n - a.file)+1 .. n : ~isSeparator(d[i])
      /\ n - a.file > a.rootDir => isSeparator(d[n - a.file])
  BY DEF Current
<1>e. Ends(d) <=> n > root /\ ~isSeparator(d[n])
  BY <1>1 DEF Ends
<1>l. Leads(d) <=> n # 0 /\ isSeparator(d[1])
  BY <1>1, Strings DEF Leads
<1> HIDE DEF d, n, root
<1>3. ASSUME a.file # 0 PROVE n > root /\ ~isSeparator(d[n])
  <2>1. n \in (n - a.file)+1 .. n /\ n > root
    BY <1>1, <1>3
  <2> QED BY <1>2, <2>1
<1>4. ASSUME a.file = 0, n > root PROVE isSeparator(d[n])
  <2>1. n - a.file = n
    BY <1>1, <1>4
  <2>2. CASE a.rootDir = n
    <3>1. n \in root+1 .. a.rootDir
      BY <1>1, <1>4, <2>2
    <3> QED BY <1>2, <3>1
  <2>3. CASE a.rootDir # n
    BY <1>1, <1>2, <2>1, <2>3
  <2> QED BY <2>2, <2>3
<1>5. a.file # 0 <=> Ends(d)
  BY <1>3, <1>4, <1>e
<1>6. (root # 0 <=> Drive(d)) /\ (isAbsolute(a) <=> Drive(d))
  BY <1>1 DEF isAbsolute, root
<1>7. ASSUME root = 0 PROVE a.rootDir # 0 <=> n # 0 /\ isSeparator(d[1])
  <2>1. CASE a.rootDir # 0
    <3>1. 1 \in root+1 .. a.rootDir /\ n # 0
      BY <1>1, <1>7, <2>1
    <3> QED BY <1>2, <2>1, <3>1
  <2>2. CASE a.rootDir = 0
    <3>1. n # 0 => a.rootDir < n /\ a.rootDir + 1 = 1
      BY <1>1, <2>2
    <3>2. n # 0 => ~isSeparator(d[1])
      BY <1>2, <2>2, <3>1
    <3> QED BY <2>2, <3>2
  <2> QED BY <2>1, <2>2
<1> QED BY <1>5, <1>6, <1>7, <1>l DEF d, root

\* What a join makes, for objects whose lengths are right: the one object, whose
\* lengths are right, of the joined string.
LEMMA JoinedIs ==
  ASSUME NEW a \in Object, NEW b \in Object, Current(a), Current(b)
  PROVE  \E r \in Object :
           /\ Joined(a, b, FALSE) = {r} /\ Current(r)
           /\ r.data = JoinedString(a.data, b.data)
<1>1. CASE Drive(b.data)
  <2>1. Joined(a, b, FALSE) = {b} /\ b.data = JoinedString(a.data, b.data)
    BY <1>1, Told DEF Joined, JoinedString
  <2> QED BY <2>1
<1>2. CASE ~Drive(b.data)
  <2> DEFINE js == JoinedString(a.data, b.data)
  <2>1. ~isAbsolute(b) /\ b.root = 0
    BY <1>2, Told
  <2>2. a.data \in Seq(Char) /\ b.data \in Seq(Char) /\ Len(a.data) \in Nat
    BY CurrentType
  <2>3. JoinedData(a, b, FALSE) = {js}
    <3>1. CASE Leads(b.data)
      <4>1. b.rootDir # 0
        BY <1>2, <3>1, Told
      <4>2. SubSeq(a.data, 1, a.root) = Root(a.data) /\ a.root <= Len(a.data)
        <5>1. a.root = (IF Drive(a.data) THEN 2 ELSE 0)
          BY CurrentType
        <5>2. CASE Drive(a.data)
          BY <5>1, <5>2 DEF Root, Drive
        <5>3. CASE ~Drive(a.data)
          <6>1. SubSeq(a.data, 1, 0) = <<>>
            BY SubSeqEmpty
          <6> QED BY <2>2, <5>1, <5>3, <6>1 DEF Root
        <5> QED BY <5>2, <5>3
      <4>3. Resized(a.data, a.root) = {Root(a.data)}
        BY <4>2 DEF Resized
      <4>4. JoinedData(a, b, FALSE) = {Root(a.data) \o b.data}
        BY <4>1, <4>3 DEF JoinedData
      <4> QED BY <1>2, <3>1, <4>4 DEF JoinedString
    <3>2. CASE ~Leads(b.data)
      <4>1. b.rootDir = 0
        BY <1>2, <3>2, Told
      <4>2. (a.file # 0 \/ (a.rootDir = 0 /\ isAbsolute(a))) <=> Ends(a.data)
        BY Told DEF isAbsolute
      <4>3. CASE Ends(a.data)
        BY <1>2, <3>2, <4>1, <4>2, <4>3 DEF JoinedData, JoinedString, Glue
      <4>4. CASE ~Ends(a.data)
        <5>1. a.data \o Glue(a.data) = a.data
          BY <2>2, <4>4, Strings DEF Glue
        <5>2. JoinedData(a, b, FALSE) = {a.data \o b.data}
          BY <4>1, <4>2, <4>4 DEF JoinedData
        <5> QED BY <1>2, <3>2, <5>1, <5>2 DEF JoinedString
      <4> QED BY <4>3, <4>4
    <3> QED BY <3>1, <3>2
  <2> HIDE DEF js
  <2>4. Joined(a, b, FALSE) = Parsed(js, a)
    <3>1. Joined(a, b, FALSE) = UNION {Parsed(d, a) : d \in {js}}
      BY <2>1, <2>3 DEF Joined
    <3> QED BY <3>1
  <2>5. /\ js \in Seq(Char) /\ (a.root = 0 \/ Drive(js))
        /\ (IF Drive(js) THEN 2 ELSE 0) = Len(js) => a.file = 0
    <3>1. js \in JoinedData(a, b, FALSE)
      BY <2>3
    <3> QED BY <2>1, <3>1, JoinedDataRight
  <2>6. PICK r : r \in Parsed(js, a)
    BY <2>5, ParsedExists
  <2>7. \A x \in Parsed(js, a) : x \in Object /\ Current(x) /\ x.data = js
    BY <2>5, ParsedIsCurrent
  <2>8. \A x \in Parsed(js, a) : x = r
    BY <2>6, <2>7, CurrentUnique
  <2>9. Joined(a, b, FALSE) = {r}
    BY <2>4, <2>6, <2>8
  <2> QED BY <2>6, <2>7, <2>9 DEF js
<1> QED BY <1>1, <1>2

LEMMA JoinsAssociate ==
  ASSUME NEW a \in Object, NEW b \in Object, NEW c \in Object, Current(a), Current(b), Current(c)
  PROVE  UNION {Joined(x, c, FALSE) : x \in Joined(a, b, FALSE)}
           = UNION {Joined(a, x, FALSE) : x \in Joined(b, c, FALSE)}
<1>1. PICK x \in Object : Joined(a, b, FALSE) = {x} /\ Current(x) /\ x.data = JoinedString(a.data, b.data)
  BY JoinedIs
<1>2. PICK y \in Object : Joined(b, c, FALSE) = {y} /\ Current(y) /\ y.data = JoinedString(b.data, c.data)
  BY JoinedIs
<1>3. PICK z \in Object : Joined(x, c, FALSE) = {z} /\ Current(z) /\ z.data = JoinedString(x.data, c.data)
  BY <1>1, JoinedIs
<1>4. PICK w \in Object : Joined(a, y, FALSE) = {w} /\ Current(w) /\ w.data = JoinedString(a.data, y.data)
  BY <1>2, JoinedIs
<1>5. a.data \in Seq(Char) /\ b.data \in Seq(Char) /\ c.data \in Seq(Char)
  BY DEF Object
<1>6. z.data = w.data
  BY <1>1, <1>2, <1>3, <1>4, <1>5, StringsAssociate
<1>7. z = w
  BY <1>3, <1>4, <1>6, CurrentUnique
<1> QED BY <1>1, <1>2, <1>3, <1>4, <1>7

\* A joined object, right or not, has members of their types if it is short.
LEMMA ResizedType ==
  ASSUME NEW d \in Seq(Char), NEW m \in Nat, NEW s \in Resized(d, m)
  PROVE  s \in Seq(Char)
<1>1. CASE m <= Len(d)
  BY <1>1 DEF Resized
<1>2. CASE ~(m <= Len(d))
  <2>1. PICK t \in [1 .. m - Len(d) -> Char] : s = d \o t
    BY <1>2 DEF Resized
  <2>2. m - Len(d) \in Nat
    BY <1>2
  <2>3. \A k \in Nat : \A u \in [1..k -> Char] : u \in Seq(Char)
    OBVIOUS
  <2>4. t \in Seq(Char)
    BY <2>2, <2>3
  <2> QED BY <2>1, <2>4, Concat
<1> QED BY <1>1, <1>2

LEMMA JoinedDataType ==
  ASSUME NEW a \in Member, NEW b \in Member, NEW self \in BOOLEAN, NEW d \in JoinedData(a, b, self)
  PROVE  d \in Seq(Char)
<1>1. a.data \in Seq(Char) /\ b.data \in Seq(Char) /\ Separator \in Char /\ a.root \in Nat
  BY DEF Member, Char
<1>2. CASE b.rootDir # 0
  <2>1. PICK s \in Resized(a.data, a.root) : d = s \o IF self THEN s ELSE b.data
    BY <1>2 DEF JoinedData
  <2>2. s \in Seq(Char)
    BY <1>1, ResizedType
  <2>3. (IF self THEN s ELSE b.data) \in Seq(Char)
    BY <1>1, <2>2
  <2> QED BY <2>1, <2>2, <2>3, Concat
<1>3. CASE b.rootDir = 0
  <2>1. d = a.data \o <<Separator>> \o b.data \/ d = a.data \o b.data
    BY <1>3 DEF JoinedData
  <2>2. <<Separator>> \in Seq(Char)
    BY <1>1
  <2>3. a.data \o <<Separator>> \in Seq(Char)
    BY <1>1, <2>2, Concat
  <2> QED BY <1>1, <2>1, <2>3, Concat
<1> QED BY <1>2, <1>3

LEMMA JoinedType ==
  ASSUME NEW a \in Member, NEW b \in Member, NEW self \in BOOLEAN, NEW r \in Joined(a, b, self),
         Len(r.data) <= MaxLength
  PROVE  r \in Member
<1>1. CASE r = b
  BY <1>1
<1>2. CASE r # b
  <2>1. PICK d \in JoinedData(a, b, self) : r \in Parsed(d, a)
    BY <1>2 DEF Joined
  <2>2. d \in Seq(Char)
    BY <2>1, JoinedDataType
  <2>3. r.data = d
    <3>1. PICK root : root = IF Drive(d) THEN 2 ELSE a.root
      OBVIOUS
    <3> QED BY <2>1, <3>1, ParsedForm
  <2> QED BY <2>1, <2>2, <2>3, ParsedType
<1> QED BY <1>1, <1>2

-----------------------------------------------------------------------------
LEMMA InitIInv == Init => IInv
<1> SUFFICES ASSUME Init PROVE IInv
  OBVIOUS
<1>1. path = [p \in Paths |-> Empty] /\ fresh = [p \in Paths |-> TRUE]
  BY DEF Init
<1>2. Empty \in Member /\ Current(Empty) /\ Len(Empty.data) <= MaxLength
  BY EmptyIsCurrent, PathAssumption DEF Empty
<1> QED BY <1>1, <1>2 DEF IInv, TypeOK, CacheIsCurrent, Member

\* A step that replaces one object, by one that is right if it is to be fresh.
LEMMA Replaced ==
  ASSUME IInv, NEW p \in Paths, NEW r \in Member, NEW f \in BOOLEAN, Len(r.data) <= MaxLength,
         f => Current(r), path' = [path EXCEPT ![p] = r], fresh' = [fresh EXCEPT ![p] = f]
  PROVE  IInv'
<1>1. TypeOK'
  BY DEF IInv, TypeOK, Member
<1>2. \A q \in Paths : /\ path'[q] = IF q = p THEN r ELSE path[q]
                       /\ fresh'[q] = IF q = p THEN f ELSE fresh[q]
  BY DEF IInv, TypeOK
<1>3. CacheIsCurrent'
  BY <1>2 DEF IInv, CacheIsCurrent, Current, Drive, isSeparator
<1> QED BY <1>1, <1>3 DEF IInv

LEMMA Members ==
  ASSUME IInv, NEW p \in Paths
  PROVE  /\ path[p] \in Member /\ Len(path[p].data) <= MaxLength /\ fresh[p] \in BOOLEAN
         /\ fresh[p] => Current(path[p])
BY DEF IInv, TypeOK, CacheIsCurrent, Member

LEMMA StepIInv == IInv /\ [Next]_vars => IInv'
<1> SUFFICES ASSUME IInv, [Next]_vars PROVE IInv'
  OBVIOUS
<1>1. ASSUME NEW p \in Paths, NEW d \in Seq(Char), Construct(p, d) PROVE IInv'
  <2>1. PICK r \in Parsed(d, Empty) : path' = [path EXCEPT ![p] = r]
    BY <1>1 DEF Construct
  <2>2. Len(d) <= MaxLength /\ fresh' = [fresh EXCEPT ![p] = TRUE]
    BY <1>1 DEF Construct
  <2>3. Empty.root = 0 /\ Empty.file = 0
    BY DEF Empty
  <2>4. r \in Member /\ r.data = d
    BY <2>2, EmptyIsCurrent, ParsedType
  <2>5. Current(r)
    BY <2>3, EmptyIsCurrent, MemberIsObject, ParsedIsCurrent
  <2> QED BY <2>1, <2>2, <2>4, <2>5, Replaced
<1>2. ASSUME NEW p \in Paths, NEW d \in Literals, getCurrent(p, d) PROVE IInv'
  <2>1. d \in Seq(Char) /\ Nul \in Char
    BY PathAssumption DEF Char
  <2>2. Append(d, Nul) \in Seq(Char)
    BY <2>1
  <2> QED BY <1>1, <1>2, <2>2 DEF getCurrent
<1>3. ASSUME NEW p \in Paths, NEW q \in Paths, Assign(p, q) PROVE IInv'
  BY <1>3, Replaced, Members DEF Assign
<1>4. ASSUME NEW p \in Paths, NEW q \in Paths, Join(p, q) PROVE IInv'
  <2>1. PICK r \in Joined(path[p], path[q], p = q) :
          Len(r.data) <= MaxLength /\ path' = [path EXCEPT ![p] = r]
    BY <1>4 DEF Join
  <2> DEFINE f == IF isAbsolute(path[q]) THEN fresh[q]
                  ELSE fresh[p] /\ fresh[q] /\ (p = q => path[q].rootDir = 0)
  <2>2. fresh' = [fresh EXCEPT ![p] = f]
    BY <1>4 DEF Join
  <2>3. r \in Member
    BY <2>1, Members, JoinedType
  <2>4. ASSUME f PROVE Current(r)
    <3>1. CASE isAbsolute(path[q])
      BY <2>1, <2>4, <3>1, Members DEF Joined
    <3>2. CASE ~isAbsolute(path[q])
      BY <2>1, <2>4, <3>2, Members, JoinedRight
    <3> QED BY <3>1, <3>2
  <2>5. f \in BOOLEAN
    BY Members
  <2> HIDE DEF f
  <2> QED BY <2>1, <2>2, <2>3, <2>4, <2>5, Replaced
<1>5. ASSUME NEW p \in Paths, NEW q \in Paths, swap(p, q) PROVE IInv'
  <2>1. /\ path' = [path EXCEPT ![p].data = path[q].data, ![q].data = path[p].data]
        /\ fresh' = [fresh EXCEPT ![p] = FALSE, ![q] = FALSE]
    BY <1>5 DEF swap
  <2>2. TypeOK'
    BY <2>1 DEF IInv, TypeOK
  <2>3. \A s \in Paths : fresh'[s] => s # p /\ s # q /\ fresh[s] /\ path'[s] = path[s]
    BY <2>1 DEF IInv, TypeOK
  <2>4. CacheIsCurrent'
    BY <2>3 DEF IInv, CacheIsCurrent, Current, Drive, isSeparator
  <2> QED BY <2>2, <2>4 DEF IInv
<1>6. ASSUME NEW p \in Paths, clear(p) PROVE IInv'
  <2>1. /\ path' = [path EXCEPT ![p].data = <<>>] /\ fresh' = [fresh EXCEPT ![p] = FALSE]
    BY <1>6 DEF clear
  <2>2. path' = [path EXCEPT ![p] = [path[p] EXCEPT !.data = <<>>]]
    BY <2>1
  <2>3. [path[p] EXCEPT !.data = <<>>] \in Member
    <3>1. path[p] \in Member /\ <<>> \in Seq(Char)
      BY Members
    <3> QED BY <3>1 DEF Member
  <2>4. Len([path[p] EXCEPT !.data = <<>>].data) <= MaxLength
    BY Members, PathAssumption DEF Member
  <2> QED BY <2>1, <2>2, <2>3, <2>4, Replaced
<1>7. CASE UNCHANGED vars
  BY <1>7 DEF vars, IInv, TypeOK, CacheIsCurrent, Current, Drive, isSeparator
<1>8. CASE Next
  <2>1. Literals \subseteq Seq(Char)
    BY PathAssumption
  <2> QED BY <1>1, <1>2, <1>3, <1>4, <1>5, <1>6, <1>8, <2>1 DEF Next
<1> QED BY <1>7, <1>8

\* The members of every object keep their types.
THEOREM TypeCorrectness == Spec => []TypeOK
<1>1. IInv => TypeOK
  BY DEF IInv
<1> QED BY <1>1, InitIInv, StepIInv, PTL DEF Spec

\* Through every sequence of assignments and joins the lengths are those of the
\* string, although init() relies on what it finds.
THEOREM LengthsAreCurrent == Spec => []CacheIsCurrent
<1>1. IInv => CacheIsCurrent
  BY DEF IInv
<1> QED BY <1>1, InitIInv, StepIInv, PTL DEF Spec

\* operator /= of paths that were assigned or joined, in any order: where the
\* brackets are makes no difference, neither to the string nor to the lengths.
THEOREM JoinAssociates == Spec => []JoinIsAssociative
<1>1. ASSUME IInv PROVE JoinIsAssociative
  <2> DEFINE Fresh == {path[p] : p \in {p \in Paths : fresh[p]}}
  <2>1. \A a \in Fresh : a \in Object /\ Current(a)
    BY <1>1, Members, MemberIsObject
  <2> HIDE DEF Fresh
  <2>2. \A a, b, c \in Fresh :
          UNION {Joined(x, c, FALSE) : x \in Joined(a, b, FALSE)}
            = UNION {Joined(a, x, FALSE) : x \in Joined(b, c, FALSE)}
    BY <2>1, JoinsAssociate
  <2> QED BY <2>2 DEF JoinIsAssociative, Fresh
<1> QED BY <1>1, InitIInv, StepIInv, PTL DEF Spec

\* operator /= of two paths that were assigned or joined: the names of the right
\* one follow those of the left, whatever the strings begin and end with.
THEOREM JoinsMeet == Spec => JoinMeets
<1>1. ASSUME IInv, NEW p \in Paths, NEW q \in Paths, p # q, fresh[p], fresh[q], Join(p, q)
      PROVE  Meets(path[p].data, path[q].data, path'[p].data)
  <2>1. PICK a \in Object : a = path[p] /\ Current(a)
    BY <1>1, Members, MemberIsObject
  <2>2. PICK b \in Object : b = path[q] /\ Current(b)
    BY <1>1, Members, MemberIsObject
  <2>3. PICK r \in Joined(path[p], path[q], p = q) : path' = [path EXCEPT ![p] = r]
    BY <1>1 DEF Join
  <2>4. r \in Joined(a, b, FALSE)
    BY <1>1, <2>1, <2>2, <2>3
  <2>5. r.data = JoinedString(a.data, b.data)
    <3>1. PICK x \in Object : Joined(a, b, FALSE) = {x} /\ x.data = JoinedString(a.data, b.data)
      BY <2>1, <2>2, JoinedIs
    <3>2. r = x
      BY <2>4, <3>1
    <3> QED BY <3>1, <3>2, Zenon
  <2>6. path'[p] = r
    BY <1>1, <2>3 DEF IInv, TypeOK
  <2>7. a.data \in Seq(Char) /\ b.data \in Seq(Char)
    BY DEF Object
  <2> QED BY <2>1, <2>2, <2>5, <2>6, <2>7, StringsMeet
<1>2. IInv /\ [Next]_vars =>
        (\A p, q \in Paths : p # q /\ fresh[p] /\ fresh[q] /\ Join(p, q)
           => Meets(path[p].data, path[q].data, path'[p].data))
  BY <1>1
<1> QED BY <1>2, InitIInv, StepIInv, PTL DEF Spec, JoinMeets
=============================================================================
