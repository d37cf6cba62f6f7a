-------------------------------- MODULE File --------------------------------
(***************************************************************************)
(* File and MappedFile: threads that open, read, write and resize one file *)
(* through File objects, each with the file pointer of its handle, and     *)
(* through a mapped view of it.  A byte is Zero or Data, and stands for a  *)
(* page where only pages matter.                                           *)
(***************************************************************************)
EXTENDS Integers, Sequences

CONSTANTS
  Threads, Files,     \* File objects
  Missing, Closed,    \* no file; a File or a MappedFile that is not there
  Zero, Data,         \* what the system fills in, and what is written
  Dword, Word,        \* 2^32 and 2^64
  Grain,              \* an offset of a view is a multiple of it
  Offsets, Counts,    \* of reads, writes and views; counts are new sizes, too
  MaxSize,            \* bound: the largest file, the disk being full then
  MaxBegun            \* bound: Files and views opened and calls begun

ASSUME FileAssumption ==
  /\ Dword \in Nat \ {0} /\ Word \in Nat /\ Dword < Word /\ Grain \in Nat \ {0} /\ MaxSize \in Nat \ {0, 1} /\ MaxBegun \in Nat
  /\ Offsets \subseteq 0..(Word - 1) /\ Counts \subseteq 0..(Word - 1)
  /\ MaxSize + Dword <= Word  \* no file comes near the end of its offsets
  /\ Zero # Data /\ Missing \notin Seq({Zero, Data}) /\ Closed \notin [read : BOOLEAN, write : BOOLEAN, pos : Nat]

VARIABLES
  disk,     \* the file
  file,     \* each File: its access and the pointer of its handle
  call,     \* each thread's call on a File
  view,     \* the MappedFile
  fault,    \* has it touched memory it may not?
  begun

vars == <<disk, file, call, view, fault, begun>>

Contents == UNION {[1..k -> {Zero, Data}] : k \in 0..MaxSize}
Calls == [at : {"idle", "size", "read", "write", "pointer", "end"}, f : Files \cup {Closed},
          offset : Offsets \cup {0}, count : Counts \cup {0}, alone : BOOLEAN, shrunk : BOOLEAN]
ViewModes == {"READ", "READ_WRITE", "READ_WRITE_COPY"}
Accesses == {"FILE_MAP_READ", "FILE_MAP_WRITE", "FILE_MAP_COPY"}
Views == [mode : ViewModes, access : Accesses, offset : Offsets, size : Counts, length : 1..MaxSize, writable : BOOLEAN]

TypeOK ==
  /\ disk \in Contents \cup {Missing}
  /\ file \in [Files -> [read : BOOLEAN, write : BOOLEAN, pos : 0..MaxSize] \cup {Closed}]
  /\ call \in [Threads -> Calls] /\ view \in Views \cup {Closed} /\ fault \in BOOLEAN /\ begun \in 0..MaxBegun

Idle == [at |-> "idle", f |-> Closed, offset |-> 0, count |-> 0, alone |-> TRUE, shrunk |-> FALSE]

Init ==
  /\ disk \in {Missing, <<>>, <<Data, Data>>}
  /\ file = [f \in Files |-> Closed] /\ call = [t \in Threads |-> Idle]
  /\ view = Closed /\ fault = FALSE /\ begun = 0

-----------------------------------------------------------------------------
(* Opening                                                                 *)

\* Mutant: CREATE with EXCLUDE opens what is there.
DispositionLax(mode) ==
  LET m == mode \cap {"CREATE", "TRUNCATE", "EXCLUDE"}
  IN  IF "CREATE" \in m
      THEN IF "TRUNCATE" \in m THEN "CREATE_ALWAYS" ELSE "OPEN_ALWAYS"
      ELSE IF "TRUNCATE" \in m THEN "TRUNCATE_EXISTING" ELSE "OPEN_EXISTING"

Disposition(mode) ==
  LET m == mode \cap {"CREATE", "TRUNCATE", "EXCLUDE"}
  IN  CASE {"CREATE", "EXCLUDE"} \subseteq m -> "CREATE_NEW"
        [] m = {"CREATE", "TRUNCATE"} -> "CREATE_ALWAYS"
        [] m \ {"EXCLUDE"} = {"TRUNCATE"} -> "TRUNCATE_EXISTING"
        [] m = {"CREATE"} -> "OPEN_ALWAYS"
        [] m \subseteq {"EXCLUDE"} -> "OPEN_EXISTING"

\* A file cannot be made smaller than it was when it was mapped.
Shrinks(new) == disk # Missing /\ Len(new) < Len(disk)
MayBecome(new) == view # Closed => Len(new) >= view.length

\* The calls that read on after they looked at its size are told.
Replace(new, calls) ==
  /\ disk' = new
  /\ call' = [t \in Threads |->
                IF calls[t].at = "read" /\ Shrinks(new) THEN [calls[t] EXCEPT !.shrunk = TRUE] ELSE calls[t]]

BeginOne == begun < MaxBegun /\ begun' = begun + 1

\* File(path, mode), when ::CreateFileW succeeds.
Open(f, mode) ==
  /\ file[f] = Closed /\ BeginOne /\ mode \cap {"READ", "WRITE"} # {}
  /\ CASE Disposition(mode) = "CREATE_NEW" -> disk = Missing /\ Replace(<<>>, call)
       [] Disposition(mode) = "CREATE_ALWAYS" -> MayBecome(<<>>) /\ Replace(<<>>, call)
       [] Disposition(mode) = "TRUNCATE_EXISTING" ->
            disk # Missing /\ "WRITE" \in mode /\ MayBecome(<<>>) /\ Replace(<<>>, call)
       [] Disposition(mode) = "OPEN_ALWAYS" -> Replace(IF disk = Missing THEN <<>> ELSE disk, call)
       [] Disposition(mode) = "OPEN_EXISTING" -> disk # Missing /\ UNCHANGED <<disk, call>>
  /\ file' = [file EXCEPT ![f] = [read |-> "READ" \in mode, write |-> "WRITE" \in mode, pos |-> 0]]
  /\ UNCHANGED <<view, fault>>

\* ~File, after its last call.
Close(f) ==
  /\ file[f] # Closed /\ \A t \in Threads : call[t].f # f
  /\ file' = [file EXCEPT ![f] = Closed] /\ UNCHANGED <<disk, call, view, fault, begun>>

-----------------------------------------------------------------------------
(* Calls on a File, one system call in each step                           *)

Begin(t, f, at, offset, count) ==
  /\ call[t].at = "idle" /\ file[f] # Closed /\ BeginOne
  /\ call' = [call EXCEPT ![t] = [Idle EXCEPT !.at = at, !.f = f, !.offset = offset, !.count = count]]
  /\ UNCHANGED <<disk, file, view, fault>>

\* The system call of thread t moves the pointer of its handle, also under calls of others.
Moves(t, next, pos) ==
  /\ file' = [file EXCEPT ![call[t].f].pos = pos]
  /\ call' = [u \in Threads |->
                IF u = t THEN next
                ELSE IF call[u].at = "end" /\ call[u].f = call[t].f THEN [call[u] EXCEPT !.alone = FALSE]
                ELSE call[u]]

\* An exception leaves the call.
Throw(t) ==
  /\ call[t].at # "idle"
  /\ call' = [call EXCEPT ![t] = Idle] /\ UNCHANGED <<disk, file, view, fault, begun>>

\* Mutant: the count alone is compared.
GetSizeLax(t) ==
  /\ call[t].at = "size" /\ call[t].count <= Len(disk)
  /\ call' = [call EXCEPT ![t].at = "read"] /\ UNCHANGED <<disk, file, view, fault, begun>>

\* read: its test for the end of the file, which is an exception otherwise.
GetSize(t) ==
  /\ call[t].at = "size" /\ (call[t].offset + call[t].count) % Word <= Len(disk)
  /\ call' = [call EXCEPT ![t].at = "read"] /\ UNCHANGED <<disk, file, view, fault, begun>>

\* ::ReadFile, which reads what there is.
ReadFile(t, got) ==
  LET first == call[t].offset + 1
      last == call[t].offset + (call[t].count % Dword)
  IN  /\ call[t].at = "read" /\ file[call[t].f].read /\ call[t].offset <= MaxSize
      /\ IF last < first THEN got = <<>>
         ELSE first <= Len(disk) /\ got = SubSeq(disk, first, IF last < Len(disk) THEN last ELSE Len(disk))
      /\ Moves(t, Idle, call[t].offset + Len(got))
      /\ UNCHANGED <<disk, view, fault, begun>>

\* The bytes first to last are Data, and Zero up to them where there were none.
Overwritten(first, last) ==
  [i \in 1..(IF last > Len(disk) THEN last ELSE Len(disk)) |->
     IF i \in first..last THEN Data ELSE IF i <= Len(disk) THEN disk[i] ELSE Zero]

\* ::WriteFile: the largest offset is the end of the file.
WriteFile(t) ==
  LET n == call[t].count % Dword
      start == IF call[t].offset = Word - 1 THEN Len(disk) ELSE call[t].offset
  IN  /\ call[t].at = "write" /\ file[call[t].f].write /\ start + n <= MaxSize
      /\ disk' = IF n = 0 THEN disk ELSE Overwritten(start + 1, start + n)
      /\ Moves(t, Idle, start + n)
      /\ UNCHANGED <<view, fault, begun>>

\* setSize: ::SetFilePointerEx, and ::SetEndOfFile at wherever the pointer is then.
SetFilePointer(t) ==
  /\ call[t].at = "pointer" /\ call[t].count <= MaxSize
  /\ Moves(t, [call[t] EXCEPT !.at = "end"], call[t].count) /\ UNCHANGED <<disk, view, fault, begun>>

\* Mutant: the file becomes larger, never smaller.
SetEndOfFileGrows(t) ==
  LET pos == file[call[t].f].pos
      new == [i \in 1..(IF pos > Len(disk) THEN pos ELSE Len(disk)) |-> IF i <= Len(disk) THEN disk[i] ELSE Zero]
  IN  /\ call[t].at = "end" /\ file[call[t].f].write
      /\ Replace(new, [call EXCEPT ![t] = Idle])
      /\ UNCHANGED <<file, view, fault, begun>>

SetEndOfFile(t) ==
  LET new == [i \in 1..file[call[t].f].pos |-> IF i <= Len(disk) THEN disk[i] ELSE Zero]
  IN  /\ call[t].at = "end" /\ file[call[t].f].write /\ MayBecome(new)
      /\ Replace(new, [call EXCEPT ![t] = Idle])
      /\ UNCHANGED <<file, view, fault, begun>>

-----------------------------------------------------------------------------
(* The view                                                                *)

\* Mutant: a view for copies writes to the file.
MapAccessShared(mode) == IF mode = "READ" THEN "FILE_MAP_READ" ELSE "FILE_MAP_WRITE"

MapAccess(mode) ==
  CASE mode = "READ" -> "FILE_MAP_READ"
    [] mode = "READ_WRITE" -> "FILE_MAP_WRITE"
    [] mode = "READ_WRITE_COPY" -> "FILE_MAP_COPY"

\* MappedFile(file, offset, size, mode), when the system maps it: to the end of the
\* file for size 0, and no further for any.
Map(f, mode, offset, size) ==
  /\ view = Closed /\ file[f] # Closed /\ BeginOne /\ Len(disk) > 0
  /\ file[f].read /\ (MapAccess(mode) = "FILE_MAP_WRITE" => file[f].write)
  /\ offset % Grain = 0 /\ offset < Len(disk) /\ offset + size <= Len(disk)
  /\ view' = [mode |-> mode, access |-> MapAccess(mode), offset |-> offset, size |-> size, length |-> Len(disk),
              writable |-> mode # "READ"]
  /\ UNCHANGED <<disk, file, call, fault>>

Unmap == view # Closed /\ view' = Closed /\ UNCHANGED <<disk, file, call, fault, begun>>

\* Mutant: the test is off by one.
PassesTestLax(offset, count) == (offset + count) % Word <= view.size + 1

\* The test for the end of the data, in read and write.
PassesTest(offset, count) == (offset + count) % Word <= view.size

\* What is mapped, and what std::copy touches.
Mapped == view.offset + 1 .. (IF view.size = 0 THEN view.length ELSE view.offset + view.size)
Touched(offset, count) == view.offset + offset + 1 .. view.offset + offset + count

ViewRead(offset, count) ==
  /\ view # Closed /\ PassesTest(offset, count)
  /\ fault' = ~(Touched(offset, count) \subseteq Mapped)
  /\ UNCHANGED <<disk, file, call, view, begun>>

\* What is written to a view for copies is its own.
ViewWrite(offset, count) ==
  LET touched == Touched(offset, count)
  IN  /\ view # Closed /\ PassesTest(offset, count)
      /\ fault' = (~(touched \subseteq Mapped) \/ (count > 0 /\ view.access = "FILE_MAP_READ"))
      /\ disk' = IF ~fault' /\ view.access = "FILE_MAP_WRITE"
                 THEN [i \in 1..Len(disk) |-> IF i \in touched THEN Data ELSE disk[i]] ELSE disk
      /\ UNCHANGED <<file, call, view, begun>>

-----------------------------------------------------------------------------
Modes == SUBSET {"READ", "WRITE", "CREATE", "TRUNCATE", "EXCLUDE"}

Begins(t, f) ==
  \/ \E offset \in Offsets, count \in Counts : Begin(t, f, "size", offset, count) \/ Begin(t, f, "write", offset, count)
  \/ \E count \in Counts : Begin(t, f, "pointer", 0, count)

Continues(t) ==
  GetSize(t) \/ (\E got \in Contents : ReadFile(t, got)) \/ WriteFile(t) \/ SetFilePointer(t) \/ SetEndOfFile(t) \/ Throw(t)

\* A fault is the end of the program.
Next ==
  /\ ~fault
  /\ \/ \E f \in Files : Close(f) \/ \E mode \in Modes : Open(f, mode)
     \/ \E t \in Threads : Continues(t) \/ \E f \in Files : Begins(t, f)
     \/ \E offset \in Offsets, size \in Counts :
          \/ \E f \in Files, mode \in ViewModes : Map(f, mode, offset, size)
          \/ ViewRead(offset, size) \/ ViewWrite(offset, size)
     \/ Unmap

Spec == Init /\ [][Next]_vars

-----------------------------------------------------------------------------
(* Properties                                                              *)

\* What a mode promises of a File that opens: CREATE with EXCLUDE that there was no
\* file, TRUNCATE that it is empty, no CREATE that it was there and no TRUNCATE
\* that it is as it was.
OpenMeets ==
  [][\A f \in Files, mode \in Modes : Open(f, mode) =>
       /\ {"CREATE", "EXCLUDE"} \subseteq mode => disk = Missing
       /\ "TRUNCATE" \in mode => disk' = <<>>
       /\ "CREATE" \notin mode => disk # Missing
       /\ "TRUNCATE" \notin mode /\ disk # Missing => disk' = disk]_vars

\* A read that returns has filled its whole buffer with the bytes of the file from
\* its offset, if its count is not beyond a DWORD and nobody has made the file
\* smaller since it looked at the size.
ReadWhole ==
  [][\A t \in Threads, got \in Contents :
       ReadFile(t, got) /\ call[t].count < Dword /\ ~call[t].shrunk =>
         /\ Len(got) = call[t].count
         /\ \A i \in 1..Len(got) : got[i] = disk[call[t].offset + i]]_vars

\* A setSize that returns has made the file of the size asked for, if no other call
\* on the same File has moved its pointer; calls on other Files may.
SizeIsAsked ==
  [][\A t \in Threads :
       SetEndOfFile(t) /\ call[t].alone => Len(disk') = call[t].count]_vars

\* Writes through a view change the file just if it was asked for to do so.
ViewMeets ==
  [][\A offset \in Offsets, count \in Counts :
       ViewWrite(offset, count) /\ ~fault' =>
         \A i \in 1..Len(disk) :
           IF view.mode = "READ_WRITE" /\ i - view.offset \in offset + 1 .. offset + count
           THEN disk'[i] = Data ELSE disk'[i] = disk[i]]_vars

\* A view touches memory it may not only when offset and count are beyond 64 bits
\* together, or when a write ignores isWritable(): the file never shrinks below it.
StaysMapped ==
  [][\A offset \in Offsets, count \in Counts :
       /\ offset + count < Word
       /\ ViewRead(offset, count) \/ (view # Closed /\ view.writable /\ ViewWrite(offset, count))
       => ~fault' /\ Touched(offset, count) \subseteq 1..Len(disk)]_vars
=============================================================================
