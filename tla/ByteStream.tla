----------------------------- MODULE ByteStream -----------------------------
(***************************************************************************)
(* What a connected pair of sockets promises clients that have at most one *)
(* reading and one writing call going at a time: the bytes of the writes   *)
(* arrive in order and unbroken, and a call that reports success has moved *)
(* all it was asked to move (readAll, writeAll) or some of it (read,       *)
(* write): the next bytes of the stream and no others.                     *)
(***************************************************************************)
EXTENDS Naturals, Sequences

CONSTANTS Reads, Writes,    \* calls that read, calls that write
          Once,             \* those of them that may move less than asked
          Counts            \* the sizes they are asked to move

VARIABLES
  stream,       \* the bytes sent: <<w, i>> is the i-th byte of w's buffer
  taken,        \* how many bytes of it the finished reads have taken
  status,       \* of each call: "idle", "active", "done", "failed"
  want,         \* the bytes it was asked to move
  data          \* the bytes a successful read has returned

avars == <<stream, taken, status, want, data>>
ACalls == Reads \cup Writes

AInit ==
  /\ stream = <<>> /\ taken = 0
  /\ status = [x \in ACalls |-> "idle"] /\ want = [x \in ACalls |-> 0]
  /\ data = [r \in Reads |-> <<>>]

\* A call starts, or is over at once: it is refused, or has nothing to move.
Start(x, c) ==
  /\ status[x] = "idle"
  /\ \A y \in ACalls : status[y] = "active" => ((y \in Reads) # (x \in Reads))
  /\ \E st \in {"active", "failed"} \cup (IF c = 0 THEN {"done"} ELSE {}) :
       status' = [status EXCEPT ![x] = st]
  /\ want' = [want EXCEPT ![x] = c]
  /\ UNCHANGED <<stream, taken, data>>

Last(w, i) == stream # <<>> /\ stream[Len(stream)] = <<w, i>>

\* The next k bytes of a write, of which i have been sent, enter the stream.
Send(w, i, k) ==
  /\ status[w] = "active" /\ i + k <= want[w]
  /\ IF i = 0 THEN \A j \in 1..Len(stream) : stream[j][1] # w ELSE Last(w, i)
  /\ stream' = stream \o [j \in 1..k |-> <<w, i + j>>]
  /\ UNCHANGED <<taken, status, want, data>>

Written(w) ==
  /\ status[w] = "active"
  /\ w \in Once \/ want[w] = 0 \/ Last(w, want[w])
  /\ status' = [status EXCEPT ![w] = "done"]
  /\ UNCHANGED <<stream, taken, want, data>>

Returned(r, c) ==
  /\ status[r] = "active" /\ (r \in Once \/ c = want[r])
  /\ taken + c <= Len(stream)
  /\ data' = [data EXCEPT ![r] = SubSeq(stream, taken + 1, taken + c)]
  /\ taken' = taken + c
  /\ status' = [status EXCEPT ![r] = "done"]
  /\ UNCHANGED <<stream, want>>

\* The bytes a failed read has consumed are lost.
Failed(x) ==
  /\ status[x] = "active"
  /\ status' = [status EXCEPT ![x] = "failed"]
  /\ taken' \in IF x \in Reads THEN taken..Len(stream) ELSE {taken}
  /\ UNCHANGED <<stream, want, data>>

ANext ==
  \/ \E x \in ACalls, c \in Counts : Start(x, c)
  \/ \E w \in Writes : Written(w) \/ \E i, k \in 0..want[w] : Send(w, i, k)
  \/ \E r \in Reads : \E c \in 0..want[r] : Returned(r, c)
  \/ \E x \in ACalls : Failed(x)

ASpec == AInit /\ [][ANext]_avars
=============================================================================
