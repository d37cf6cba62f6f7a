----------------------------- MODULE File_proofs -----------------------------
(***************************************************************************)
(* Theorems about File, for any threads and Files, any offsets and counts, *)
(* widths of a DWORD and of an offset, and files of any size below them.   *)
(***************************************************************************)
EXTENDS File, SequenceTheorems, TLAPS

\* Only a file that is there can be open or mapped, and it never becomes smaller
\* than it is mapped.
ViewFits ==
  view # Closed =>
    /\ disk # Missing /\ view.length <= Len(disk)
    /\ view.offset < view.length /\ view.offset + view.size <= view.length
    /\ view.access = MapAccess(view.mode) /\ (view.writable <=> view.mode # "READ")
DiskInv == (\A f \in Files : file[f] # Closed => disk # Missing) /\ ViewFits

\* A call is on an open File; one that reads has tested its offset and count, of
\* which the file still has all if it has not become smaller; one that sets the
\* size finds its pointer where it left it if it was alone.
CallInv(u) ==
  /\ call[u].at # "idle" => call[u].f \in Files /\ file[call[u].f] # Closed
  /\ call[u].at = "read" /\ ~call[u].shrunk => (call[u].offset + call[u].count) % Word <= Len(disk)
  /\ call[u].at = "end" /\ call[u].alone => file[call[u].f].pos = call[u].count

IInv == TypeOK /\ DiskInv /\ \A u \in Threads : CallInv(u)

Handles == [read : BOOLEAN, write : BOOLEAN, pos : 0..MaxSize]

-----------------------------------------------------------------------------
(* Numbers, contents and calls                                             *)

LEMMA Remainder ==
  /\ \A x \in Nat : x % Dword \in Nat /\ (x < Dword => x % Dword = x)
  /\ \A x \in Nat : x < Word => x % Word = x
BY FileAssumption

LEMMA ContentsType ==
  \A c : c \in Contents <=> c \in Seq({Zero, Data}) /\ Len(c) <= MaxSize
<1> USE FileAssumption
<1>1. ASSUME NEW c \in Contents PROVE c \in Seq({Zero, Data}) /\ Len(c) <= MaxSize
  <2>1. PICK k \in 0..MaxSize : c \in [1..k -> {Zero, Data}]
    BY DEF Contents
  <2> QED BY <2>1
<1>2. ASSUME NEW c \in Seq({Zero, Data}), Len(c) <= MaxSize PROVE c \in Contents
  <2>1. Len(c) \in 0..MaxSize /\ c \in [1..Len(c) -> {Zero, Data}]
    BY <1>2
  <2> QED BY <2>1 DEF Contents
<1> QED BY <1>1, <1>2

\* A file that is there.
LEMMA DiskType ==
  ASSUME TypeOK, disk # Missing
  PROVE  /\ disk \in Seq({Zero, Data}) /\ Len(disk) \in 0..MaxSize
         /\ \A i \in 1..Len(disk) : disk[i] \in {Zero, Data}
<1>1. disk \in Seq({Zero, Data}) /\ Len(disk) <= MaxSize
  BY ContentsType DEF TypeOK
<1> QED BY <1>1

\* A file built byte by byte.
LEMMA Built ==
  ASSUME NEW k \in 0..MaxSize, NEW c \in [1..k -> {Zero, Data}]
  PROVE  c \in Contents /\ c # Missing /\ Len(c) = k
<1>1. c \in Contents
  BY DEF Contents
<1>2. c \in Seq({Zero, Data}) /\ Len(c) = k
  BY FileAssumption
<1> QED BY <1>1, <1>2, FileAssumption

LEMMA FirstFiles ==
  <<>> \in Contents /\ <<Data, Data>> \in Contents
<1>1. [i \in 1..0 |-> Zero] = <<>> /\ [i \in 1..0 |-> Zero] \in [1..0 -> {Zero, Data}] /\ 0 \in 0..MaxSize
  BY FileAssumption
<1>2. <<Data, Data>> \in Seq({Zero, Data}) /\ Len(<<Data, Data>>) = 2 /\ 2 <= MaxSize
  BY FileAssumption
<1> QED BY <1>1, <1>2, Built, ContentsType

LEMMA CallType ==
  ASSUME TypeOK, NEW u \in Threads
  PROVE  /\ call[u] \in Calls /\ call[u].at \in {"idle", "size", "read", "write", "pointer", "end"}
         /\ call[u].f \in Files \cup {Closed}
         /\ call[u].offset \in Offsets \cup {0} /\ call[u].count \in Counts \cup {0}
         /\ call[u].offset \in 0..(Word - 1) /\ call[u].count \in 0..(Word - 1)
         /\ call[u].alone \in BOOLEAN /\ call[u].shrunk \in BOOLEAN
<1>1. call[u] \in Calls
  BY DEF TypeOK
<1>2. /\ call[u].at \in {"idle", "size", "read", "write", "pointer", "end"}
      /\ call[u].f \in Files \cup {Closed}
      /\ call[u].offset \in Offsets \cup {0} /\ call[u].count \in Counts \cup {0}
      /\ call[u].alone \in BOOLEAN /\ call[u].shrunk \in BOOLEAN
  BY <1>1 DEF Calls
<1>3. Offsets \cup {0} \subseteq 0..(Word - 1) /\ Counts \cup {0} \subseteq 0..(Word - 1)
  BY FileAssumption
<1> QED BY <1>1, <1>2, <1>3

LEMMA IdleType == Idle \in Calls /\ Idle.at = "idle"
BY DEF Idle, Calls

\* An open File.
LEMMA HandleType ==
  ASSUME TypeOK, NEW f \in Files, file[f] # Closed
  PROVE  /\ file[f] \in Handles /\ file[f].read \in BOOLEAN /\ file[f].write \in BOOLEAN
         /\ file[f].pos \in 0..MaxSize
<1>1. file[f] \in Handles
  BY DEF TypeOK, Handles
<1> QED BY <1>1 DEF Handles

LEMMA NotClosed ==
  ASSUME NEW h \in Handles PROVE h # Closed
<1>1. h \in [read : BOOLEAN, write : BOOLEAN, pos : Nat]
  BY FileAssumption DEF Handles
<1> QED BY <1>1, FileAssumption

\* The calls when the disk is replaced: those that read are told if it becomes smaller.
LEMMA Replaced ==
  ASSUME NEW new, NEW calls \in [Threads -> Calls], Replace(new, calls)
  PROVE  /\ disk' = new /\ call' \in [Threads -> Calls]
         /\ \A u \in Threads :
              /\ call'[u].at = calls[u].at /\ call'[u].f = calls[u].f /\ call'[u].alone = calls[u].alone
              /\ call'[u].offset = calls[u].offset /\ call'[u].count = calls[u].count
              /\ calls[u].at = "read" /\ ~call'[u].shrunk => ~calls[u].shrunk /\ ~Shrinks(new)
<1> DEFINE F(u) == IF calls[u].at = "read" /\ Shrinks(new) THEN [calls[u] EXCEPT !.shrunk = TRUE] ELSE calls[u]
<1>1. disk' = new /\ call' = [u \in Threads |-> F(u)]
  BY DEF Replace
<1>2. ASSUME NEW u \in Threads
      PROVE  /\ F(u) \in Calls
             /\ F(u).at = calls[u].at /\ F(u).f = calls[u].f /\ F(u).alone = calls[u].alone
             /\ F(u).offset = calls[u].offset /\ F(u).count = calls[u].count
             /\ calls[u].at = "read" /\ ~F(u).shrunk => ~calls[u].shrunk /\ ~Shrinks(new)
  <2>1. calls[u] \in Calls
    OBVIOUS
  <2>2. CASE calls[u].at = "read" /\ Shrinks(new)
    BY <2>1, <2>2 DEF Calls
  <2>3. CASE ~(calls[u].at = "read" /\ Shrinks(new))
    BY <2>1, <2>3
  <2> QED BY <2>2, <2>3
<1> HIDE DEF F
<1> QED BY <1>1, <1>2

\* The Files and calls when a pointer moves: who is about to set the size through it is not alone.
LEMMA Moved ==
  ASSUME TypeOK, NEW t \in Threads, call[t].f \in Files, file[call[t].f] # Closed,
         NEW next \in Calls, NEW pos \in 0..MaxSize, Moves(t, next, pos)
  PROVE  /\ file' \in [Files -> Handles \cup {Closed}] /\ call' \in [Threads -> Calls]
         /\ \A f \in Files : /\ file'[f] = Closed <=> file[f] = Closed
                             /\ f # call[t].f => file'[f] = file[f]
         /\ file'[call[t].f].pos = pos /\ call'[t] = next
         /\ \A u \in Threads \ {t} :
              /\ call'[u].at = call[u].at /\ call'[u].f = call[u].f /\ call'[u].shrunk = call[u].shrunk
              /\ call'[u].offset = call[u].offset /\ call'[u].count = call[u].count
              /\ call'[u].at = "end" /\ call'[u].alone => call[u].alone /\ call[u].f # call[t].f
<1> DEFINE h == [file[call[t].f] EXCEPT !.pos = pos]
<1>1. h \in Handles /\ h.pos = pos
  BY HandleType DEF Handles
<1>2. file' = [file EXCEPT ![call[t].f] = h] /\ file \in [Files -> Handles \cup {Closed}]
  BY DEF Moves, TypeOK, Handles
<1>3. h # Closed
  BY <1>1, NotClosed
<1> HIDE DEF h
<1>4. /\ file' \in [Files -> Handles \cup {Closed}]
      /\ \A f \in Files : /\ file'[f] = Closed <=> file[f] = Closed
                          /\ f # call[t].f => file'[f] = file[f]
      /\ file'[call[t].f].pos = pos
  BY <1>1, <1>2, <1>3
<1> DEFINE F(u) == IF u = t THEN next
                   ELSE IF call[u].at = "end" /\ call[u].f = call[t].f THEN [call[u] EXCEPT !.alone = FALSE]
                   ELSE call[u]
<1>5. call' = [u \in Threads |-> F(u)]
  BY DEF Moves
<1>6. ASSUME NEW u \in Threads, u # t
      PROVE  /\ F(u) \in Calls
             /\ F(u).at = call[u].at /\ F(u).f = call[u].f /\ F(u).shrunk = call[u].shrunk
             /\ F(u).offset = call[u].offset /\ F(u).count = call[u].count
             /\ F(u).at = "end" /\ F(u).alone => call[u].alone /\ call[u].f # call[t].f
  <2>1. call[u] \in Calls
    BY CallType
  <2>2. CASE call[u].at = "end" /\ call[u].f = call[t].f
    BY <1>6, <2>1, <2>2 DEF Calls
  <2>3. CASE ~(call[u].at = "end" /\ call[u].f = call[t].f)
    BY <1>6, <2>1, <2>3
  <2> QED BY <2>2, <2>3
<1>7. F(t) = next
  OBVIOUS
<1> HIDE DEF F
<1> QED BY <1>4, <1>5, <1>6, <1>7

-----------------------------------------------------------------------------
(* Steps                                                                   *)

\* What is true of calls stays true when neither they nor their pointers change
\* and the file does not become smaller.
LEMMA SameCalls ==
  ASSUME IInv, UNCHANGED call, disk' = disk \/ (disk # Missing /\ disk' # Missing /\ Len(disk') \in Nat /\ Len(disk) \in Nat /\ Len(disk) <= Len(disk')),
         \A f \in Files : file[f] # Closed => file'[f] # Closed /\ file'[f].pos = file[f].pos
  PROVE  \A u \in Threads : CallInv(u)'
<1>1. SUFFICES ASSUME NEW u \in Threads PROVE CallInv(u)'
  OBVIOUS
<1>2. CallInv(u)
  BY DEF IInv
<1>3. (call[u].offset + call[u].count) % Word \in Nat
  BY CallType, FileAssumption DEF IInv
<1>4. CASE disk' = disk
  BY <1>2, <1>4 DEF CallInv
<1>5. CASE Len(disk') \in Nat /\ Len(disk) \in Nat /\ Len(disk) <= Len(disk')
  BY <1>2, <1>3, <1>5 DEF CallInv
<1> QED BY <1>4, <1>5

\* The file is replaced by one that is not smaller than the view, in a step that
\* takes no call beyond the test for the end of the file.
LEMMA ReplaceStep ==
  ASSUME IInv, NEW new \in Contents, MayBecome(new), UNCHANGED view,
         NEW calls \in [Threads -> Calls], Replace(new, calls),
         \A u \in Threads : calls[u] = call[u] \/ calls[u] = Idle,
         \A f \in Files : file[f] # Closed => file'[f] # Closed /\ file'[f].pos = file[f].pos,
         disk # Missing \/ (view = Closed /\ \A f \in Files : file[f] = Closed)
  PROVE  /\ disk' \in Contents /\ call' \in [Threads -> Calls]
         /\ DiskInv' /\ \A u \in Threads : CallInv(u)'
<1>1. disk' = new /\ call' \in [Threads -> Calls]
  BY Replaced
<1>2. /\ new \in Seq({Zero, Data}) /\ Len(new) \in Nat /\ new # Missing
  BY ContentsType, FileAssumption
<1>3. DiskInv'
  <2>1. view # Closed => view.length <= Len(new)
    BY DEF MayBecome
  <2> QED BY <1>1, <1>2, <2>1 DEF IInv, DiskInv, ViewFits
<1>4. ASSUME NEW u \in Threads PROVE CallInv(u)'
  <2>1. /\ call'[u].at = calls[u].at /\ call'[u].f = calls[u].f /\ call'[u].alone = calls[u].alone
        /\ call'[u].offset = calls[u].offset /\ call'[u].count = calls[u].count
        /\ calls[u].at = "read" /\ ~call'[u].shrunk => ~calls[u].shrunk /\ ~Shrinks(new)
    BY Replaced
  <2>2. CASE calls[u] = Idle
    BY <2>1, <2>2, IdleType DEF CallInv
  <2>3. CASE calls[u] = call[u]
    <3>1. CallInv(u)
      BY DEF IInv
    <3>2. call[u].at # "idle" => call'[u].f \in Files /\ file'[call'[u].f] # Closed
      BY <2>1, <2>3, <3>1 DEF CallInv
    <3>3. call[u].at = "end" /\ call[u].alone => file'[call[u].f].pos = call[u].count
      BY <3>1 DEF CallInv
    <3>4. ASSUME call[u].at = "read", ~call'[u].shrunk
          PROVE  (call[u].offset + call[u].count) % Word <= Len(new)
      <4>1. ~call[u].shrunk /\ ~Shrinks(new) /\ disk # Missing
        BY <2>1, <2>3, <3>1, <3>4 DEF CallInv
      <4>2. Len(disk) \in Nat /\ Len(disk) <= Len(new)
        BY <1>2, <4>1, DiskType DEF IInv, Shrinks
      <4>3. (call[u].offset + call[u].count) % Word \in Nat
        BY CallType, FileAssumption DEF IInv
      <4> QED BY <1>2, <3>1, <3>4, <4>1, <4>2, <4>3 DEF CallInv
    <3> QED BY <1>1, <2>1, <2>3, <3>2, <3>3, <3>4 DEF CallInv
  <2> QED BY <2>2, <2>3
<1> QED BY <1>1, <1>3, <1>4

LEMMA OpenStep ==
  ASSUME IInv, NEW f \in Files, NEW mode \in Modes, Open(f, mode) PROVE IInv'
<1> DEFINE h == [read |-> "READ" \in mode, write |-> "WRITE" \in mode, pos |-> 0]
<1>1. h \in Handles /\ file[f] = Closed /\ file' = [file EXCEPT ![f] = h] /\ UNCHANGED <<view, fault>>
  BY FileAssumption DEF Open, Handles
<1> HIDE DEF h
<1>2. TypeOK /\ DiskInv /\ file \in [Files -> Handles \cup {Closed}]
  BY DEF IInv, TypeOK, Handles
<1>3. /\ file' \in [Files -> Handles \cup {Closed}]
      /\ \A g \in Files : file[g] # Closed => file'[g] # Closed /\ file'[g].pos = file[g].pos
  BY <1>1, <1>2
<1>4. begun' \in 0..MaxBegun
  BY <1>2, FileAssumption DEF Open, BeginOne, TypeOK
<1>5. <<>> \in Contents
  BY FirstFiles
<1>6. ASSUME NEW new \in Contents, MayBecome(new), Replace(new, call) PROVE IInv'
  <2>1. call \in [Threads -> Calls]
    BY <1>2 DEF TypeOK
  <2>2. disk # Missing \/ (view = Closed /\ \A g \in Files : file[g] = Closed)
    <3>1. disk = Missing => view = Closed
      BY <1>2 DEF DiskInv, ViewFits
    <3>2. ASSUME disk = Missing, NEW g \in Files PROVE file[g] = Closed
      BY <1>2, <3>2 DEF DiskInv
    <3> QED BY <3>1, <3>2
  <2>3. /\ disk' \in Contents /\ call' \in [Threads -> Calls]
        /\ DiskInv' /\ \A u \in Threads : CallInv(u)'
    BY <1>1, <1>3, <1>6, <2>1, <2>2, ReplaceStep
  <2>4. TypeOK'
    BY <1>1, <1>2, <1>3, <1>4, <2>3 DEF TypeOK, Handles
  <2> QED BY <2>3, <2>4 DEF IInv
<1>7. CASE disk # Missing /\ UNCHANGED <<disk, call>>
  <2>1. TypeOK'
    BY <1>1, <1>2, <1>3, <1>4, <1>7 DEF TypeOK, Handles
  <2>2. DiskInv'
    BY <1>1, <1>2, <1>7 DEF DiskInv, ViewFits
  <2>3. \A u \in Threads : CallInv(u)'
    BY <1>3, <1>7, SameCalls
  <2> QED BY <2>1, <2>2, <2>3 DEF IInv
<1>8. CASE disk = Missing /\ Replace(<<>>, call)
  <2>1. MayBecome(<<>>)
    BY <1>2, <1>8 DEF MayBecome, DiskInv, ViewFits
  <2> QED BY <1>5, <1>6, <1>8, <2>1
<1>9. CASE disk # Missing /\ Replace(disk, call)
  <2>1. MayBecome(disk) /\ disk \in Contents
    BY <1>2, <1>9, DiskType DEF MayBecome, DiskInv, ViewFits, TypeOK
  <2> QED BY <1>6, <1>9, <2>1
<1>10. CASE MayBecome(<<>>) /\ Replace(<<>>, call)
  BY <1>5, <1>6, <1>10
<1>11. Disposition(mode) \in {"CREATE_NEW", "CREATE_ALWAYS", "TRUNCATE_EXISTING", "OPEN_ALWAYS", "OPEN_EXISTING"}
  BY DEF Disposition
<1>12. \/ disk # Missing /\ UNCHANGED <<disk, call>>
       \/ disk = Missing /\ Replace(<<>>, call)
       \/ MayBecome(<<>>) /\ Replace(<<>>, call)
       \/ Replace(IF disk = Missing THEN <<>> ELSE disk, call)
  BY <1>11 DEF Open
<1> QED BY <1>7, <1>8, <1>9, <1>10, <1>12

LEMMA CloseStep ==
  ASSUME IInv, NEW f \in Files, Close(f) PROVE IInv'
<1>1. TypeOK'
  BY DEF IInv, TypeOK, Close
<1>2. DiskInv'
  BY DEF IInv, TypeOK, DiskInv, ViewFits, Close
<1>3. ASSUME NEW u \in Threads PROVE CallInv(u)'
  <2>1. CallInv(u) /\ call[u].f # f /\ (call[u].f \in Files => file'[call[u].f] = file[call[u].f])
    BY DEF IInv, TypeOK, Close
  <2> QED BY <2>1, CallType DEF IInv, Close, CallInv
<1> QED BY <1>1, <1>2, <1>3 DEF IInv

LEMMA BeginStep ==
  ASSUME IInv, NEW t \in Threads, NEW f \in Files, NEW at \in {"size", "write", "pointer"},
         NEW offset \in Offsets \cup {0}, NEW count \in Counts, Begin(t, f, at, offset, count)
  PROVE  IInv'
<1> DEFINE c == [Idle EXCEPT !.at = at, !.f = f, !.offset = offset, !.count = count]
<1>1. c \in Calls /\ c.at = at /\ c.f = f
  BY DEF Idle, Calls
<1>2. call' = [call EXCEPT ![t] = c] /\ UNCHANGED <<disk, file, view, fault>> /\ file[f] # Closed
  BY DEF Begin
<1> HIDE DEF c
<1>3. TypeOK'
  BY <1>1, <1>2, FileAssumption DEF IInv, TypeOK, Begin, BeginOne
<1>4. DiskInv'
  BY <1>2 DEF IInv, DiskInv, ViewFits
<1>5. ASSUME NEW u \in Threads PROVE CallInv(u)'
  <2>1. call'[u] = IF u = t THEN c ELSE call[u]
    BY <1>2 DEF IInv, TypeOK
  <2> QED BY <1>1, <1>2, <2>1 DEF IInv, CallInv
<1> QED BY <1>3, <1>4, <1>5 DEF IInv

LEMMA GetSizeStep ==
  ASSUME IInv, NEW t \in Threads, GetSize(t) PROVE IInv'
<1> DEFINE c == [call[t] EXCEPT !.at = "read"]
<1>1. /\ c \in Calls /\ c.at = "read" /\ c.f = call[t].f /\ c.offset = call[t].offset /\ c.count = call[t].count
      /\ call[t].at = "size" /\ (call[t].offset + call[t].count) % Word <= Len(disk)
  <2>1. call[t] \in Calls
    BY CallType DEF IInv
  <2> QED BY <2>1 DEF Calls, GetSize
<1>2. call' = [call EXCEPT ![t] = c] /\ UNCHANGED <<disk, file, view, fault, begun>>
  BY DEF GetSize
<1> HIDE DEF c
<1>3. TypeOK'
  BY <1>1, <1>2 DEF IInv, TypeOK
<1>4. DiskInv'
  BY <1>2 DEF IInv, DiskInv, ViewFits
<1>5. ASSUME NEW u \in Threads PROVE CallInv(u)'
  <2>1. call'[u] = IF u = t THEN c ELSE call[u]
    BY <1>2 DEF IInv, TypeOK
  <2> QED BY <1>1, <1>2, <2>1 DEF IInv, CallInv
<1> QED BY <1>3, <1>4, <1>5 DEF IInv

LEMMA ThrowStep ==
  ASSUME IInv, NEW t \in Threads, Throw(t) PROVE IInv'
<1>1. TypeOK'
  BY IdleType DEF IInv, TypeOK, Throw
<1>2. DiskInv'
  BY DEF IInv, DiskInv, ViewFits, Throw
<1>3. ASSUME NEW u \in Threads PROVE CallInv(u)'
  <2>1. call'[u] = IF u = t THEN Idle ELSE call[u]
    BY DEF IInv, TypeOK, Throw
  <2> QED BY <2>1, IdleType DEF IInv, CallInv, Throw
<1> QED BY <1>1, <1>2, <1>3 DEF IInv

\* A call moves its pointer; the file does not become smaller.
LEMMA MoveStep ==
  ASSUME IInv, NEW t \in Threads, call[t].at # "idle", NEW next \in Calls, NEW pos \in 0..MaxSize, Moves(t, next, pos),
         next.at = "idle" \/ (next.at = "end" /\ next.f = call[t].f /\ next.count = pos),
         disk' \in Contents, Len(disk) <= Len(disk'), UNCHANGED <<view, fault, begun>>
  PROVE  IInv'
<1>1. TypeOK /\ DiskInv /\ CallInv(t) /\ call[t].f \in Files /\ file[call[t].f] # Closed /\ disk # Missing
  BY DEF IInv, CallInv, DiskInv
<1>2. /\ file' \in [Files -> Handles \cup {Closed}] /\ call' \in [Threads -> Calls]
      /\ \A f \in Files : /\ file'[f] = Closed <=> file[f] = Closed
                          /\ f # call[t].f => file'[f] = file[f]
      /\ file'[call[t].f].pos = pos /\ call'[t] = next
      /\ \A u \in Threads \ {t} :
           /\ call'[u].at = call[u].at /\ call'[u].f = call[u].f /\ call'[u].shrunk = call[u].shrunk
           /\ call'[u].offset = call[u].offset /\ call'[u].count = call[u].count
           /\ call'[u].at = "end" /\ call'[u].alone => call[u].alone /\ call[u].f # call[t].f
  BY <1>1, Moved
<1>3. disk' # Missing /\ Len(disk') \in Nat /\ Len(disk) \in Nat
  BY <1>1, ContentsType, DiskType, FileAssumption
<1>4. TypeOK'
  BY <1>1, <1>2 DEF TypeOK, Handles
<1>5. DiskInv'
  <2>1. view # Closed => view.length \in Nat
    BY <1>1 DEF TypeOK, Views
  <2> QED BY <1>1, <1>2, <1>3, <2>1 DEF DiskInv, ViewFits
<1>6. CallInv(t)'
  BY <1>1, <1>2 DEF CallInv
<1>7. ASSUME NEW u \in Threads \ {t} PROVE CallInv(u)'
  <2>1. CallInv(u)
    BY DEF IInv
  <2>2. (call[u].offset + call[u].count) % Word \in Nat
    BY CallType, FileAssumption DEF IInv
  <2> QED BY <1>2, <1>3, <2>1, <2>2 DEF CallInv
<1> QED BY <1>4, <1>5, <1>6, <1>7 DEF IInv

\* What ::ReadFile returns: the bytes it finds from the offset.
LEMMA ReadForm ==
  ASSUME IInv, NEW t \in Threads, NEW got \in Contents, ReadFile(t, got)
  PROVE  /\ disk # Missing /\ call[t].offset \in 0..MaxSize
         /\ call[t].offset + Len(got) \in 0..MaxSize
         /\ \A i \in 1..Len(got) : got[i] = disk[call[t].offset + i]
         /\ call[t].count < Dword /\ ~call[t].shrunk => Len(got) = call[t].count
<1> DEFINE offset == call[t].offset
           count == call[t].count
           n == count % Dword
           last == offset + n
           stop == IF last < Len(disk) THEN last ELSE Len(disk)
<1>1. TypeOK /\ DiskInv /\ CallInv(t) /\ disk # Missing /\ call[t].at = "read"
  BY DEF IInv, CallInv, DiskInv, ReadFile
<1>2. /\ offset \in Nat /\ count \in Nat /\ offset <= MaxSize
      /\ n \in Nat /\ (count < Dword => n = count)
      /\ disk \in Seq({Zero, Data}) /\ Len(disk) \in 0..MaxSize /\ MaxSize \in Nat
  <2>1. offset \in Nat /\ count \in Nat
    BY <1>1, CallType
  <2>2. disk \in Seq({Zero, Data}) /\ Len(disk) \in 0..MaxSize
    BY <1>1, DiskType
  <2>3. n \in Nat /\ (count < Dword => n = count)
    BY <2>1, Remainder
  <2> QED BY <2>1, <2>2, <2>3, FileAssumption DEF ReadFile
<1>3. (last < offset + 1 /\ got = <<>>)
      \/ (offset + 1 <= last /\ offset + 1 <= Len(disk) /\ got = SubSeq(disk, offset + 1, stop))
  <2>1. IF last < offset + 1 THEN got = <<>> ELSE offset + 1 <= Len(disk) /\ got = SubSeq(disk, offset + 1, stop)
    BY DEF ReadFile
  <2> QED BY <1>2, <2>1
<1> HIDE DEF n
<1>4. CASE last < offset + 1 /\ got = <<>>
  <2>1. Len(got) = 0 /\ n = 0
    BY <1>2, <1>4
  <2> QED BY <1>1, <1>2, <2>1
<1>5. CASE offset + 1 <= last /\ offset + 1 <= Len(disk) /\ got = SubSeq(disk, offset + 1, stop)
  <2>1. stop \in Nat /\ offset + 1 <= stop /\ stop <= Len(disk) /\ stop <= last
    <3>1. offset + 1 <= last /\ offset + 1 <= Len(disk)
      BY <1>5
    <3>2. offset \in Nat /\ n \in Nat /\ Len(disk) \in Nat
      BY <1>2
    <3> QED BY <3>1, <3>2
  <2>2. /\ Len(got) = stop - offset
        /\ \A i \in 1..Len(got) : got[i] = disk[offset + i]
    <3>1. offset + 1 \in Int /\ stop \in Int /\ \A i \in offset + 1 .. stop : disk[i] \in {Zero, Data}
      BY <1>2, <2>1
    <3>2. /\ Len(SubSeq(disk, offset + 1, stop)) = stop - offset
          /\ \A i \in 1..(stop - offset) : SubSeq(disk, offset + 1, stop)[i] = disk[offset + i]
      <4>1. /\ Len(SubSeq(disk, offset + 1, stop)) = stop - (offset + 1) + 1
            /\ \A i \in 1..(stop - (offset + 1) + 1) : SubSeq(disk, offset + 1, stop)[i] = disk[offset + 1 + i - 1]
        BY <2>1, <3>1, SubSeqProperties
      <4>2. stop - (offset + 1) + 1 = stop - offset
        BY <1>2, <2>1
      <4>3. ASSUME NEW i \in 1..(stop - offset)
            PROVE  SubSeq(disk, offset + 1, stop)[i] = disk[offset + i]
        <5>1. offset + 1 + i - 1 = offset + i
          BY <1>2, <2>1
        <5> QED BY <4>1, <4>2, <5>1
      <4> QED BY <4>1, <4>2, <4>3
    <3> QED BY <1>5, <3>2
  <2>3. ASSUME count < Dword, ~call[t].shrunk PROVE Len(got) = count
    <3>1. n = count /\ offset + count < Word
      BY <1>2, <1>5, <2>3, FileAssumption
    <3>2. offset + count \in Nat
      BY <1>2
    <3>3. (offset + count) % Word = offset + count
      BY <3>1, <3>2, Remainder
    <3>4. offset + count <= Len(disk)
      BY <1>1, <2>3, <3>3 DEF CallInv
    <3> QED BY <1>2, <2>1, <2>2, <3>1, <3>4
  <2> QED BY <1>1, <1>2, <2>1, <2>2, <2>3
<1> QED BY <1>4, <1>5, <1>3

LEMMA ReadStep ==
  ASSUME IInv, NEW t \in Threads, NEW got \in Contents, ReadFile(t, got) PROVE IInv'
<1>1. /\ call[t].at = "read" /\ Moves(t, Idle, call[t].offset + Len(got))
      /\ UNCHANGED <<disk, view, fault, begun>>
  BY DEF ReadFile
<1>2. call[t].offset + Len(got) \in 0..MaxSize /\ disk # Missing
  BY ReadForm
<1>3. disk' \in Contents /\ Len(disk) <= Len(disk')
  BY <1>1, <1>2, DiskType DEF IInv, TypeOK
<1> QED BY <1>1, <1>2, <1>3, IdleType, MoveStep

LEMMA WriteForm ==
  ASSUME IInv, NEW t \in Threads, WriteFile(t)
  PROVE  LET n == call[t].count % Dword
             start == IF call[t].offset = Word - 1 THEN Len(disk) ELSE call[t].offset
         IN  /\ disk # Missing /\ disk' \in Contents /\ start + n \in 0..MaxSize
             /\ Len(disk) <= Len(disk')
<1> DEFINE n == call[t].count % Dword
           start == IF call[t].offset = Word - 1 THEN Len(disk) ELSE call[t].offset
           size == IF start + n > Len(disk) THEN start + n ELSE Len(disk)
<1>1. TypeOK /\ disk # Missing /\ call[t].at = "write"
  BY DEF IInv, CallInv, DiskInv, WriteFile
<1>2. /\ n \in Nat /\ start \in Nat /\ Len(disk) \in 0..MaxSize /\ start + n <= MaxSize /\ MaxSize \in Nat
      /\ \A i \in 1..Len(disk) : disk[i] \in {Zero, Data}
  <2>1. call[t].offset \in Nat /\ call[t].count \in Nat
    BY <1>1, CallType
  <2>2. Len(disk) \in 0..MaxSize /\ \A i \in 1..Len(disk) : disk[i] \in {Zero, Data}
    BY <1>1, DiskType
  <2>3. n \in Nat
    BY <2>1, Remainder
  <2>4. start \in Nat
    BY <2>1, <2>2
  <2> QED BY <2>2, <2>3, <2>4, FileAssumption DEF WriteFile
<1>3. CASE n = 0
  <2>1. disk' = disk /\ disk \in Contents
    BY <1>1, <1>3 DEF WriteFile, TypeOK
  <2> QED BY <1>1, <1>2, <2>1
<1>4. CASE n # 0
  <2> DEFINE byte(i) == IF i \in start + 1 .. start + n THEN Data ELSE IF i <= Len(disk) THEN disk[i] ELSE Zero
  <2>1. disk' = [i \in 1..size |-> byte(i)] /\ size \in 0..MaxSize
    BY <1>2, <1>4 DEF WriteFile, Overwritten
  <2>2. \A i \in 1..size : byte(i) \in {Zero, Data}
    BY <1>2, <2>1
  <2>3. disk' \in [1..size -> {Zero, Data}]
    BY <2>1, <2>2
  <2>4. disk' \in Contents /\ Len(disk') = size
    BY <2>1, <2>3, Built
  <2> QED BY <1>1, <1>2, <2>4
<1> QED BY <1>3, <1>4

LEMMA WriteStep ==
  ASSUME IInv, NEW t \in Threads, WriteFile(t) PROVE IInv'
<1> DEFINE n == call[t].count % Dword
           start == IF call[t].offset = Word - 1 THEN Len(disk) ELSE call[t].offset
<1>1. call[t].at = "write" /\ Moves(t, Idle, start + n) /\ UNCHANGED <<view, fault, begun>>
  BY DEF WriteFile
<1>2. disk' \in Contents /\ Len(disk) <= Len(disk') /\ start + n \in 0..MaxSize
  BY WriteForm
<1> QED BY <1>1, <1>2, IdleType, MoveStep

LEMMA PointerStep ==
  ASSUME IInv, NEW t \in Threads, SetFilePointer(t) PROVE IInv'
<1> DEFINE next == [call[t] EXCEPT !.at = "end"]
<1>1. next \in Calls /\ next.at = "end" /\ next.f = call[t].f /\ next.count = call[t].count
  <2>1. call[t] \in Calls
    BY CallType DEF IInv
  <2> QED BY <2>1 DEF Calls
<1>2. call[t].count \in 0..MaxSize /\ Moves(t, next, call[t].count) /\ UNCHANGED <<disk, view, fault, begun>>
  BY CallType, FileAssumption DEF IInv, SetFilePointer
<1>3. call[t].at = "pointer" /\ disk # Missing
  BY DEF IInv, DiskInv, CallInv, SetFilePointer
<1>4. disk' \in Contents /\ Len(disk) <= Len(disk')
  BY <1>2, <1>3, DiskType DEF IInv, TypeOK
<1> HIDE DEF next
<1> QED BY <1>1, <1>2, <1>3, <1>4, MoveStep

LEMMA EndStep ==
  ASSUME IInv, NEW t \in Threads, SetEndOfFile(t)
  PROVE  IInv' /\ Len(disk') = file[call[t].f].pos
<1> DEFINE k == file[call[t].f].pos
           byte(i) == IF i <= Len(disk) THEN disk[i] ELSE Zero
           new == [i \in 1..k |-> byte(i)]
           calls == [call EXCEPT ![t] = Idle]
<1>1. TypeOK /\ disk # Missing /\ k \in 0..MaxSize
  <2>1. TypeOK /\ call[t].f \in Files /\ file[call[t].f] # Closed /\ disk # Missing
    BY DEF IInv, DiskInv, CallInv, SetEndOfFile
  <2> QED BY <2>1, HandleType
<1>2. \A i \in 1..k : byte(i) \in {Zero, Data}
  BY <1>1, DiskType
<1>3. new \in [1..k -> {Zero, Data}]
  BY <1>2
<1>4. new \in Contents /\ Len(new) = k
  BY <1>1, <1>3, Built
<1>5. MayBecome(new) /\ Replace(new, calls) /\ UNCHANGED <<file, view, fault, begun>>
  BY DEF SetEndOfFile
<1> HIDE DEF new
<1>6. calls \in [Threads -> Calls] /\ \A u \in Threads : calls[u] = call[u] \/ calls[u] = Idle
  BY <1>1, IdleType DEF TypeOK
<1> HIDE DEF calls
<1>7. /\ disk' \in Contents /\ call' \in [Threads -> Calls]
      /\ DiskInv' /\ \A u \in Threads : CallInv(u)'
  BY <1>1, <1>4, <1>5, <1>6, ReplaceStep
<1>8. TypeOK'
  BY <1>1, <1>5, <1>7 DEF TypeOK
<1> QED BY <1>4, <1>5, <1>6, <1>7, <1>8, Replaced DEF IInv

LEMMA MapStep ==
  ASSUME IInv, NEW f \in Files, NEW mode \in ViewModes, NEW offset \in Offsets, NEW size \in Counts,
         Map(f, mode, offset, size)
  PROVE  IInv'
<1> DEFINE v == [mode |-> mode, access |-> MapAccess(mode), offset |-> offset, size |-> size, length |-> Len(disk),
                 writable |-> mode # "READ"]
<1>1. disk # Missing /\ TypeOK /\ Len(disk) \in 1..MaxSize
  <2>1. disk # Missing /\ TypeOK
    BY DEF IInv, DiskInv, Map
  <2>2. Len(disk) \in 0..MaxSize /\ Len(disk) > 0
    BY <2>1, DiskType DEF Map
  <2> QED BY <2>1, <2>2, FileAssumption
<1>2. MapAccess(mode) \in Accesses
  BY DEF MapAccess, Accesses, ViewModes
<1>3. /\ v \in Views /\ v.mode = mode /\ v.access = MapAccess(mode) /\ v.offset = offset /\ v.size = size
      /\ v.length = Len(disk) /\ (v.writable <=> mode # "READ")
  BY <1>1, <1>2 DEF Views
<1>4. view' = v /\ UNCHANGED <<disk, file, call, fault>> /\ offset < Len(disk) /\ offset + size <= Len(disk)
  BY DEF Map
<1> HIDE DEF v
<1>5. TypeOK'
  BY <1>1, <1>3, <1>4, FileAssumption DEF TypeOK, Map, BeginOne
<1>6. DiskInv'
  BY <1>1, <1>3, <1>4 DEF IInv, DiskInv, ViewFits
<1>7. \A u \in Threads : CallInv(u)'
  BY <1>4 DEF IInv, CallInv
<1> QED BY <1>5, <1>6, <1>7 DEF IInv

LEMMA UnmapStep ==
  ASSUME IInv, Unmap PROVE IInv'
BY DEF IInv, TypeOK, DiskInv, ViewFits, CallInv, Unmap

\* The numbers of a view that is there.
LEMMA ViewType ==
  ASSUME IInv, view # Closed
  PROVE  /\ disk # Missing /\ Len(disk) \in Nat /\ disk \in Contents
         /\ view.offset \in Nat /\ view.size \in Nat /\ view.length \in Nat
         /\ view.mode \in ViewModes /\ view.length <= Len(disk)
         /\ view.offset < view.length /\ view.offset + view.size <= view.length
         /\ view.access = MapAccess(view.mode) /\ (view.writable <=> view.mode # "READ")
<1>1. view \in Views /\ disk # Missing /\ TypeOK
  BY DEF IInv, TypeOK, DiskInv, ViewFits
<1>2. view.offset \in Offsets /\ view.size \in Counts /\ view.length \in 1..MaxSize /\ view.mode \in ViewModes
  BY <1>1 DEF Views
<1>3. view.offset \in Nat /\ view.size \in Nat /\ view.length \in Nat
  <2>1. Offsets \subseteq Nat /\ Counts \subseteq Nat /\ 1..MaxSize \subseteq Nat
    BY FileAssumption
  <2> QED BY <1>2, <2>1
<1>4. Len(disk) \in Nat /\ disk \in Contents
  BY <1>1, DiskType DEF TypeOK
<1> QED BY <1>1, <1>2, <1>3, <1>4 DEF IInv, DiskInv, ViewFits

\* A write through a view changes bytes, and no size.
LEMMA ViewWriteForm ==
  ASSUME IInv, NEW offset \in Offsets, NEW count \in Counts, ViewWrite(offset, count)
  PROVE  /\ disk' \in Contents /\ Len(disk') = Len(disk)
         /\ \A i \in 1..Len(disk) :
              disk'[i] = IF ~fault' /\ view.access = "FILE_MAP_WRITE" /\ i \in Touched(offset, count)
                         THEN Data ELSE disk[i]
<1> DEFINE touched == Touched(offset, count)
           byte(i) == IF i \in touched THEN Data ELSE disk[i]
<1>1. view # Closed /\ TypeOK /\ disk # Missing /\ disk \in Contents
  BY ViewType DEF IInv, ViewWrite
<1>2. Len(disk) \in 0..MaxSize /\ \A i \in 1..Len(disk) : disk[i] \in {Zero, Data}
  BY <1>1, DiskType
<1>3. disk' = IF ~fault' /\ view.access = "FILE_MAP_WRITE" THEN [i \in 1..Len(disk) |-> byte(i)] ELSE disk
  BY DEF ViewWrite
<1> HIDE DEF touched
<1>4. [i \in 1..Len(disk) |-> byte(i)] \in [1..Len(disk) -> {Zero, Data}]
  BY <1>2
<1>5. [i \in 1..Len(disk) |-> byte(i)] \in Contents /\ Len([i \in 1..Len(disk) |-> byte(i)]) = Len(disk)
  BY <1>2, <1>4, Built
<1> QED BY <1>1, <1>3, <1>5 DEF touched

LEMMA ViewStep ==
  ASSUME IInv, NEW offset \in Offsets, NEW count \in Counts,
         ViewRead(offset, count) \/ ViewWrite(offset, count)
  PROVE  IInv'
<1>1. /\ view # Closed /\ UNCHANGED <<file, call, view, begun>> /\ fault' \in BOOLEAN
  BY DEF ViewRead, ViewWrite
<1>2. /\ disk # Missing /\ Len(disk) \in Nat /\ disk \in Contents
  BY <1>1, ViewType
<1>3. disk' \in Contents /\ Len(disk') = Len(disk)
  BY <1>2, ViewWriteForm DEF ViewRead
<1>4. disk' # Missing
  BY <1>3, ContentsType, FileAssumption
<1>5. TypeOK'
  BY <1>1, <1>3 DEF IInv, TypeOK
<1>6. DiskInv'
  BY <1>1, <1>3, <1>4 DEF IInv, DiskInv, ViewFits
<1>7. \A u \in Threads : CallInv(u)'
  BY <1>1, <1>2, <1>3, <1>4, SameCalls
<1> QED BY <1>5, <1>6, <1>7 DEF IInv

-----------------------------------------------------------------------------
(* Theorems                                                                *)

LEMMA Initially ==
  ASSUME Init PROVE IInv
<1>1. disk \in Contents \cup {Missing} /\ view = Closed /\ fault = FALSE /\ begun \in 0..MaxBegun
  BY FirstFiles, FileAssumption DEF Init
<1>2. file \in [Files -> {Closed}] /\ call \in [Threads -> {Idle}]
  BY DEF Init
<1>3. TypeOK /\ \A f \in Files : file[f] = Closed
  BY <1>1, <1>2, IdleType DEF TypeOK
<1>4. DiskInv /\ \A u \in Threads : CallInv(u)
  BY <1>1, <1>2, <1>3, IdleType DEF DiskInv, ViewFits, CallInv
<1> QED BY <1>3, <1>4 DEF IInv

\* File.cpp, MappedFile.cpp: what calls know of the file stays true, whatever other
\* threads, Files and the view do between their system calls.
THEOREM Inductive == Spec => []IInv
<1>1. ASSUME IInv, [Next]_vars PROVE IInv'
  <2>1. CASE UNCHANGED vars
    <3>1. /\ disk' = disk /\ file' = file /\ call' = call /\ view' = view /\ fault' = fault /\ begun' = begun
      BY <2>1 DEF vars
    <3>2. TypeOK' /\ DiskInv'
      BY <1>1, <3>1 DEF IInv, TypeOK, DiskInv, ViewFits
    <3>3. \A u \in Threads : CallInv(u)'
      BY <1>1, <3>1 DEF IInv, CallInv
    <3> QED BY <3>2, <3>3 DEF IInv
  <2>2. ASSUME NEW f \in Files, Close(f) \/ \E mode \in Modes : Open(f, mode) PROVE IInv'
    BY <1>1, <2>2, CloseStep, OpenStep
  <2>3. ASSUME NEW t \in Threads, Continues(t) PROVE IInv'
    BY <1>1, <2>3, GetSizeStep, ReadStep, WriteStep, PointerStep, EndStep, ThrowStep DEF Continues
  <2>4. ASSUME NEW t \in Threads, NEW f \in Files, Begins(t, f) PROVE IInv'
    <3>1. ASSUME NEW offset \in Offsets \cup {0}, NEW count \in Counts, NEW at \in {"size", "write", "pointer"},
                 Begin(t, f, at, offset, count)
          PROVE  IInv'
      BY <1>1, <3>1, BeginStep
    <3> QED BY <2>4, <3>1 DEF Begins
  <2>5. ASSUME NEW offset \in Offsets, NEW size \in Counts,
               \/ \E f \in Files, mode \in ViewModes : Map(f, mode, offset, size)
               \/ ViewRead(offset, size) \/ ViewWrite(offset, size)
        PROVE  IInv'
    BY <1>1, <2>5, MapStep, ViewStep
  <2> QED BY <1>1, <2>1, <2>2, <2>3, <2>4, <2>5, UnmapStep DEF Next
<1> QED BY Initially, <1>1, PTL DEF Spec

\* Every variable keeps to its values; no pointer leaves the largest file.
THEOREM TypeCorrectness == Spec => []TypeOK
<1>1. IInv => TypeOK
  BY DEF IInv
<1> QED BY <1>1, Inductive, PTL

\* A File that opens is what its mode promises (File.cpp:48).
THEOREM ModesMeet == Spec => OpenMeets
<1>1. \A f \in Files, mode \in Modes : Open(f, mode) =>
        /\ {"CREATE", "EXCLUDE"} \subseteq mode => disk = Missing
        /\ "TRUNCATE" \in mode => disk' = <<>>
        /\ "CREATE" \notin mode => disk # Missing
        /\ "TRUNCATE" \notin mode /\ disk # Missing => disk' = disk
  <2> SUFFICES ASSUME NEW f \in Files, NEW mode \in Modes, Open(f, mode)
               PROVE  /\ {"CREATE", "EXCLUDE"} \subseteq mode => disk = Missing
                      /\ "TRUNCATE" \in mode => disk' = <<>>
                      /\ "CREATE" \notin mode => disk # Missing
                      /\ "TRUNCATE" \notin mode /\ disk # Missing => disk' = disk
    OBVIOUS
  <2> DEFINE m == mode \cap {"CREATE", "TRUNCATE", "EXCLUDE"}
  <2>1. /\ {"CREATE", "EXCLUDE"} \subseteq mode <=> Disposition(mode) = "CREATE_NEW"
        /\ "TRUNCATE" \in mode => Disposition(mode) \in {"CREATE_NEW", "CREATE_ALWAYS", "TRUNCATE_EXISTING"}
        /\ "TRUNCATE" \notin mode => Disposition(mode) \in {"CREATE_NEW", "OPEN_ALWAYS", "OPEN_EXISTING"}
        /\ "CREATE" \notin mode => Disposition(mode) \in {"TRUNCATE_EXISTING", "OPEN_EXISTING"}
    <3>1. /\ {"CREATE", "EXCLUDE"} \subseteq m <=> "CREATE" \in mode /\ "EXCLUDE" \in mode
          /\ m = {"CREATE", "TRUNCATE"} <=> "CREATE" \in mode /\ "TRUNCATE" \in mode /\ "EXCLUDE" \notin mode
          /\ m \ {"EXCLUDE"} = {"TRUNCATE"} <=> "CREATE" \notin mode /\ "TRUNCATE" \in mode
          /\ m = {"CREATE"} <=> "CREATE" \in mode /\ "TRUNCATE" \notin mode /\ "EXCLUDE" \notin mode
          /\ m \subseteq {"EXCLUDE"} <=> "CREATE" \notin mode /\ "TRUNCATE" \notin mode
          /\ {"CREATE", "EXCLUDE"} \subseteq mode <=> "CREATE" \in mode /\ "EXCLUDE" \in mode
      OBVIOUS
    <3>2. Disposition(mode) =
            CASE "CREATE" \in mode /\ "EXCLUDE" \in mode -> "CREATE_NEW"
              [] "CREATE" \in mode /\ "TRUNCATE" \in mode /\ "EXCLUDE" \notin mode -> "CREATE_ALWAYS"
              [] "CREATE" \notin mode /\ "TRUNCATE" \in mode -> "TRUNCATE_EXISTING"
              [] "CREATE" \in mode /\ "TRUNCATE" \notin mode /\ "EXCLUDE" \notin mode -> "OPEN_ALWAYS"
              [] "CREATE" \notin mode /\ "TRUNCATE" \notin mode -> "OPEN_EXISTING"
      BY <3>1 DEF Disposition
    <3>3. "CREATE" \in mode /\ "EXCLUDE" \in mode <=> Disposition(mode) = "CREATE_NEW"
      BY <3>2
    <3>4. "TRUNCATE" \in mode => Disposition(mode) \in {"CREATE_NEW", "CREATE_ALWAYS", "TRUNCATE_EXISTING"}
      BY <3>2
    <3>5. "TRUNCATE" \notin mode => Disposition(mode) \in {"CREATE_NEW", "OPEN_ALWAYS", "OPEN_EXISTING"}
      BY <3>2
    <3>6. "CREATE" \notin mode => Disposition(mode) \in {"TRUNCATE_EXISTING", "OPEN_EXISTING"}
      BY <3>2
    <3> QED BY <3>1, <3>3, <3>4, <3>5, <3>6
  <2>2. Disposition(mode) \in {"CREATE_NEW", "CREATE_ALWAYS", "TRUNCATE_EXISTING", "OPEN_ALWAYS", "OPEN_EXISTING"}
    BY <2>1
  <2>3. CASE Disposition(mode) = "CREATE_NEW"
    BY <2>1, <2>3 DEF Open, Replace
  <2>4. CASE Disposition(mode) \in {"CREATE_ALWAYS", "TRUNCATE_EXISTING"}
    BY <2>1, <2>4 DEF Open, Replace
  <2>5. CASE Disposition(mode) \in {"OPEN_ALWAYS", "OPEN_EXISTING"}
    BY <2>1, <2>5 DEF Open, Replace
  <2> QED BY <2>2, <2>3, <2>4, <2>5
<1> QED BY <1>1, PTL DEF Spec, OpenMeets

\* A read that returns has all it was asked for (File.cpp:70), whatever happens to
\* the file between its two system calls, as long as it does not become smaller.
THEOREM ReadsAreWhole == Spec => ReadWhole
<1>1. IInv => \A t \in Threads, got \in Contents :
                ReadFile(t, got) /\ call[t].count < Dword /\ ~call[t].shrunk =>
                  /\ Len(got) = call[t].count
                  /\ \A i \in 1..Len(got) : got[i] = disk[call[t].offset + i]
  BY ReadForm
<1> QED BY <1>1, Inductive, PTL DEF ReadWhole

\* setSize sets its size, though it takes two system calls (File.cpp:119), unless
\* its own File is used between them.
THEOREM SizesAreAsked == Spec => SizeIsAsked
<1>1. IInv => \A t \in Threads : SetEndOfFile(t) /\ call[t].alone => Len(disk') = call[t].count
  <2> SUFFICES ASSUME IInv, NEW t \in Threads, SetEndOfFile(t), call[t].alone PROVE Len(disk') = call[t].count
    OBVIOUS
  <2>1. Len(disk') = file[call[t].f].pos
    BY EndStep
  <2>2. call[t].at = "end" /\ CallInv(t)
    BY DEF IInv, SetEndOfFile
  <2> QED BY <2>1, <2>2 DEF CallInv
<1> QED BY <1>1, Inductive, PTL DEF SizeIsAsked

\* A view writes to the file just if its mode says so (MappedFile.cpp).
THEOREM ViewsMeet == Spec => ViewMeets
<1>1. IInv => \A offset \in Offsets, count \in Counts :
                ViewWrite(offset, count) /\ ~fault' =>
                  \A i \in 1..Len(disk) :
                    IF view.mode = "READ_WRITE" /\ i - view.offset \in offset + 1 .. offset + count
                    THEN disk'[i] = Data ELSE disk'[i] = disk[i]
  <2> SUFFICES ASSUME IInv, NEW offset \in Offsets, NEW count \in Counts, ViewWrite(offset, count), ~fault',
                      NEW i \in 1..Len(disk)
               PROVE  IF view.mode = "READ_WRITE" /\ i - view.offset \in offset + 1 .. offset + count
                      THEN disk'[i] = Data ELSE disk'[i] = disk[i]
    OBVIOUS
  <2>1. view # Closed
    BY DEF ViewWrite
  <2>2. view.mode \in ViewModes /\ view.access = MapAccess(view.mode) /\ view.offset \in Nat /\ Len(disk) \in Nat
    BY <2>1, ViewType
  <2>3. view.access = "FILE_MAP_WRITE" <=> view.mode = "READ_WRITE"
    BY <2>2 DEF MapAccess, ViewModes
  <2>4. disk'[i] = IF view.access = "FILE_MAP_WRITE" /\ i \in Touched(offset, count) THEN Data ELSE disk[i]
    BY ViewWriteForm
  <2>5. offset \in Nat /\ count \in Nat
    BY FileAssumption
  <2>6. i \in Touched(offset, count) <=> i - view.offset \in offset + 1 .. offset + count
    BY <2>2, <2>5 DEF Touched
  <2> QED BY <2>3, <2>4, <2>6
<1> QED BY <1>1, Inductive, PTL DEF ViewMeets

\* A view touches only its part of the file, which is there as long as the view is
\* (MappedFile.hpp), unless its user goes beyond 64 bits or writes where it must not.
THEOREM ViewsStayMapped == Spec => StaysMapped
<1>1. IInv => \A offset \in Offsets, count \in Counts :
                /\ offset + count < Word
                /\ ViewRead(offset, count) \/ (view # Closed /\ view.writable /\ ViewWrite(offset, count))
                => ~fault' /\ Touched(offset, count) \subseteq 1..Len(disk)
  <2> SUFFICES ASSUME IInv, NEW offset \in Offsets, NEW count \in Counts, offset + count < Word,
                      ViewRead(offset, count) \/ (view # Closed /\ view.writable /\ ViewWrite(offset, count))
               PROVE  ~fault' /\ Touched(offset, count) \subseteq 1..Len(disk)
    OBVIOUS
  <2>1. view # Closed /\ PassesTest(offset, count)
    BY DEF ViewRead, ViewWrite
  <2>2. /\ view.mode \in ViewModes /\ view.access = MapAccess(view.mode) /\ (view.writable <=> view.mode # "READ")
        /\ view.offset \in Nat /\ view.size \in Nat /\ view.length \in Nat /\ Len(disk) \in Nat
        /\ view.offset < view.length /\ view.offset + view.size <= view.length /\ view.length <= Len(disk)
    BY <2>1, ViewType
  <2>3. offset \in Nat /\ count \in Nat /\ offset + count \in Nat
    BY FileAssumption
  <2>4. offset + count <= view.size
    BY <2>1, <2>3, Remainder DEF PassesTest
  <2>5. Touched(offset, count) \subseteq Mapped /\ Touched(offset, count) \subseteq 1..Len(disk)
    <3>1. Touched(offset, count) \subseteq view.offset + 1 .. view.offset + view.size
      BY <2>2, <2>3, <2>4 DEF Touched
    <3>2. view.offset + 1 .. view.offset + view.size \subseteq Mapped
      BY <2>2 DEF Mapped
    <3>3. view.offset + 1 .. view.offset + view.size \subseteq 1..Len(disk)
      BY <2>2
    <3> QED BY <3>1, <3>2, <3>3
  <2>6. view.writable => view.access # "FILE_MAP_READ"
    BY <2>2 DEF MapAccess, ViewModes
  <2> QED BY <2>5, <2>6 DEF ViewRead, ViewWrite
<1> QED BY <1>1, Inductive, PTL DEF StaysMapped
=============================================================================
