------------------------------- MODULE Stream -------------------------------
(***************************************************************************)
(* read, readAll, write and writeAll of Impl::Socket (and of TCPSocket,    *)
(* which passes them on): one direction of a TCP connection, with the      *)
(* socket that writes on one side and the socket that reads on the other.  *)
(* A call asks for a transfer, gets some of it, and, if it is a readAll or *)
(* writeAll, asks again for what is left: in a loop when it is synchronous *)
(* (set Sync), in a chain of callbacks dispatched by run() when it is not. *)
(* Each side has a thread of its own.  The transport moves as many bytes   *)
(* as it likes, in the order in which the transfers were asked for; it may *)
(* refuse one, and may break.                                              *)
(***************************************************************************)
EXTENDS Naturals, Sequences

CONSTANTS
  Reads,        \* calls of read and readAll
  Writes,       \* calls of write and writeAll
  Once,         \* those that are read and write
  Sync,         \* those that are synchronous
  None,         \* a byte of a buffer that is not yet filled; a failed transfer
  Counts,       \* the counts they are called with
  ULong,        \* 2^32: a transfer is asked for in an int or a u_long
  Window,       \* bound: the bytes the connection holds
  Exclusive     \* does user code wait for a read (write) before the next one?

ASSUME StreamAssumption ==
  /\ Reads \cap Writes = {} /\ Once \cup Sync \subseteq Reads \cup Writes
  /\ Counts \subseteq Nat /\ ULong \in Nat \ {0} /\ Window \in Nat \ {0}
  /\ Exclusive \in BOOLEAN /\ None \notin Nat /\ None \notin Writes \X Nat

Calls == Reads \cup Writes
Sides == {"read", "write"}
Side(x) == IF x \in Reads THEN "read" ELSE "write"

VARIABLES
  count,        \* the count argument
  state,        \* "idle", "asked" (of the transport), "moved", "done", "failed"
  n,            \* what is left to move, n of readAllImpl
  offset,       \* where in the caller's buffer: the buffer argument of readAllImpl
  result,       \* bytes moved by the last transfer, None if it failed
  asked,        \* the transfers the transport has been asked for, by side
  port,         \* packets of completed transfers, by side
  sent,         \* every byte that was ever sent, <<w, i>> for byte i of w ...
  received,     \* ... and how many of them have left the connection
  buffer,       \* the readers' buffers
  from,         \* auxiliary: received, when a read is called
  link          \* "open", "closed" by the writer's close(), "broken"

callVars == <<count, state, n, offset, from>>
transport == <<sent, received, buffer, result, link>>
vars == <<callVars, asked, port, transport>>

Byte == Writes \X Nat

TypeOK ==
  /\ state \in [Calls -> {"idle", "asked", "moved", "done", "failed"}]
  /\ count \in [Calls -> Counts \cup {0}]
  /\ n \in [Calls -> Nat] /\ offset \in [Calls -> Nat]
  /\ result \in [Calls -> Nat \cup {None}]
  /\ asked \in [Sides -> Seq(Calls)] /\ port \in [Sides -> Seq(Calls)]
  /\ sent \in Seq(Byte) /\ received \in 0..Len(sent)
  /\ buffer \in [Reads -> Seq(Byte \cup {None})]
  /\ from \in [Calls -> Nat]
  /\ link \in {"open", "closed", "broken"}

Init ==
  /\ count = [x \in Calls |-> 0] /\ state = [x \in Calls |-> "idle"]
  /\ n = [x \in Calls |-> 0] /\ offset = [x \in Calls |-> 0] /\ from = [x \in Calls |-> 0]
  /\ result = [x \in Calls |-> 0]
  /\ asked = [d \in Sides |-> <<>>] /\ port = [d \in Sides |-> <<>>]
  /\ sent = <<>> /\ received = 0
  /\ buffer = [r \in Reads |-> <<>>] /\ link = "open"

-----------------------------------------------------------------------------
(* Asking for a transfer                                                   *)

\* Mutant: the length is kept in a type half as wide.
NarrowLength(m) == m % (ULong \div 2)

\* The length a transfer of m bytes is asked for with.  Where ::recv and ::send
\* get a negative int(count), the system refuses it or takes it as unsigned.
Length(m) == m % ULong

Alive(d) == link = "open" \/ (link = "closed" /\ d = "read")

\* ::recv, ::WSARecv, ::send, ::WSASend for m bytes; before it the transfers q
\* were asked for.  If it is refused, the call fails at once.
Ask(x, m, q) ==
  \/ /\ Alive(Side(x))
     /\ state' = [state EXCEPT ![x] = "asked"]
     /\ asked' = [asked EXCEPT ![Side(x)] = Append(q, x)]
  \/ /\ state' = [state EXCEPT ![x] = "failed"]
     /\ asked' = [asked EXCEPT ![Side(x)] = q]

Active(x) == state[x] \in {"asked", "moved"}

\* No synchronous call blocks the thread of a side.
ThreadFree(d) == \A x \in Sync : Side(x) = d => ~Active(x)

MayCall(x) ==
  /\ state[x] = "idle" /\ ThreadFree(Side(x))
  /\ Exclusive => \A y \in Calls : Side(y) = Side(x) => ~Active(y)

\* read, readAll, write or writeAll is called: the loop of a synchronous
\* readAll or writeAll of nothing asks for nothing.
Call(x, c) ==
  /\ MayCall(x)
  /\ count' = [count EXCEPT ![x] = c]
  /\ n' = [n EXCEPT ![x] = c]
  /\ from' = [from EXCEPT ![x] = received]
  /\ IF x \in Reads THEN buffer' = [buffer EXCEPT ![x] = [i \in 1..c |-> None]]
                    ELSE UNCHANGED buffer
  /\ IF c = 0 /\ x \in Sync \ Once
     THEN state' = [state EXCEPT ![x] = "done"] /\ UNCHANGED asked
     ELSE Ask(x, c, asked[Side(x)])
  /\ UNCHANGED <<offset, port, sent, received, result, link>>

\* Mutants: the buffer is not advanced; the count left is not reduced.
ContinueInPlace(x, k, q) ==
  /\ n' = [n EXCEPT ![x] = @ - k] /\ UNCHANGED offset
  /\ IF x \in Once \/ n[x] = k
     THEN state' = [state EXCEPT ![x] = "done"] /\ asked' = [asked EXCEPT ![Side(x)] = q]
     ELSE Ask(x, n[x] - k, q)
ContinueForAll(x, k, q) ==
  /\ UNCHANGED n /\ offset' = [offset EXCEPT ![x] = @ + k]
  /\ IF x \in Once \/ n[x] = k
     THEN state' = [state EXCEPT ![x] = "done"] /\ asked' = [asked EXCEPT ![Side(x)] = q]
     ELSE Ask(x, n[x], q)

\* The rest of the loop, or the callback of readAllImpl, after k bytes.
Continue(x, k, q) ==
  /\ n' = [n EXCEPT ![x] = @ - k]
  /\ offset' = [offset EXCEPT ![x] = @ + k]
  /\ IF x \in Once \/ n[x] = k
     THEN state' = [state EXCEPT ![x] = "done"] /\ asked' = [asked EXCEPT ![Side(x)] = q]
     ELSE Ask(x, n[x] - k, q)

-----------------------------------------------------------------------------
(* The transport                                                           *)

\* The oldest transfer of side d is over, with k bytes or failed.
Moved(d, k) ==
  LET x == Head(asked[d])
  IN  /\ state' = [state EXCEPT ![x] = "moved"]
      /\ asked' = [asked EXCEPT ![d] = Tail(@)]
      /\ port' = IF x \in Sync THEN port ELSE [port EXCEPT ![d] = Append(@, x)]
      /\ result' = [result EXCEPT ![x] = k]
      /\ UNCHANGED <<count, n, offset, from, link>>

InFlight == Len(sent) - received

\* How many bytes the oldest receive may be given: none if it asks for none
\* or the stream has ended.
Receivable(r) ==
  IF InFlight = 0 THEN IF link = "closed" THEN {0} ELSE {}
  ELSE IF Length(n[r]) = 0 THEN {0}
  ELSE {k \in 1..Length(n[r]) : k <= InFlight}

Receive ==
  /\ asked["read"] # <<>> /\ Alive("read")
  /\ LET r == Head(asked["read"])
     IN  \E k \in Receivable(r) :
           /\ buffer' = [buffer EXCEPT ![r] = [i \in DOMAIN @ |->
                IF i \in offset[r]+1 .. offset[r]+k THEN sent[received + i - offset[r]]
                                                    ELSE @[i]]]
           /\ received' = received + k
           /\ Moved("read", k)
  /\ UNCHANGED sent

Sendable(w) ==
  IF Length(n[w]) = 0 THEN {0}
  ELSE {k \in 1..Length(n[w]) : k <= Window - InFlight}

Send ==
  /\ asked["write"] # <<>> /\ Alive("write")
  /\ LET w == Head(asked["write"])
     IN  \E k \in Sendable(w) :
           /\ sent' = sent \o [i \in 1..k |-> <<w, offset[w] + i>>]
           /\ Moved("write", k)
  /\ UNCHANGED <<received, buffer>>

\* A transfer that was asked for before the socket was closed, or the
\* connection broke, fails.
Fail(d) ==
  /\ asked[d] # <<>> /\ ~Alive(d)
  /\ Moved(d, None)
  /\ UNCHANGED <<sent, received, buffer>>

\* The writer calls close(): what it sent still arrives.
WriterCloses ==
  /\ link = "open" /\ ThreadFree("write")
  /\ link' = "closed"
  /\ UNCHANGED <<callVars, asked, port, sent, received, buffer, result>>

\* The connection is reset, or the reader closes its socket.
Break ==
  /\ link # "broken"
  /\ link' = "broken"
  /\ UNCHANGED <<callVars, asked, port, sent, received, buffer, result>>

-----------------------------------------------------------------------------
(* The end of a transfer                                                   *)

\* Mutant: an error ends the call, but is not reported.
TakeResultAsSuccess(x) ==
  /\ IF result[x] = None
     THEN state' = [state EXCEPT ![x] = "done"] /\ UNCHANGED <<n, offset, asked>>
     ELSE Continue(x, result[x], asked[Side(x)])
  /\ UNCHANGED <<count, from, transport>>

\* What the call does with the result of its transfer.
TakeResult(x) ==
  /\ IF result[x] = None
     THEN state' = [state EXCEPT ![x] = "failed"] /\ UNCHANGED <<n, offset, asked>>
     ELSE Continue(x, result[x], asked[Side(x)])
  /\ UNCHANGED <<count, from, transport>>

\* run() dispatches the oldest packet of a side.
Dispatch(d) ==
  /\ port[d] # <<>> /\ ThreadFree(d)
  /\ TakeResult(Head(port[d]))
  /\ port' = [port EXCEPT ![d] = Tail(@)]

\* ::recv or ::send returns to a synchronous call.
Resume(x) ==
  /\ state[x] = "moved"
  /\ TakeResult(x)
  /\ UNCHANGED port

Next ==
  \/ \E x \in Calls, c \in Counts : Call(x, c)
  \/ Receive \/ Send
  \/ WriterCloses \/ Break
  \/ \E d \in Sides : Fail(d) \/ Dispatch(d)
  \/ \E x \in Sync : Resume(x)

Spec == Init /\ [][Next]_vars

(* The transport goes on while there are bytes, or room for them, and the  *)
(* thread of each side runs.                                               *)
FairSpec ==
  /\ Spec /\ WF_vars(Receive) /\ WF_vars(Send)
  /\ \A d \in Sides : /\ WF_vars(Fail(d)) /\ WF_vars(Dispatch(d))
                      /\ WF_vars(\E x \in Sync : Side(x) = d /\ Resume(x))

-----------------------------------------------------------------------------
(* Properties                                                              *)

\* No transfer reaches beyond the caller's buffer, however often the count
\* and the pointer are moved on and however large the count is.
StaysInBuffer ==
  \A x \in Calls : state[x] = "asked" => offset[x] + Length(n[x]) <= count[x]

\* However calls overlap, and wherever the connection breaks, the bytes that
\* left it are in the readers' buffers, each of them once.
NothingLost ==
  LET Place == {p \in Reads \X (1..Len(sent)) :
                  p[2] \in DOMAIN buffer[p[1]] /\ buffer[p[1]][p[2]] # None}
      At(p) == buffer[p[1]][p[2]]
  IN  /\ {At(p) : p \in Place} = {sent[i] : i \in 1..received}
      /\ \A p, q \in Place : At(p) = At(q) => p = q

\* A successful readAll has filled its buffer, a successful read the part it
\* reports, with the bytes that follow those read before, in order.
Filled(r) == IF r \in Once THEN offset[r] ELSE count[r]
ExactRead ==
  \A r \in Reads : state[r] = "done" =>
    \A i \in 1..Filled(r) : from[r] + i <= received /\ buffer[r][i] = sent[from[r] + i]

(* A readAll or writeAll shorter than the width of its transfer length     *)
(* does not hang: it is called back unless the stream runs dry (the buffer *)
(* of the connection stays full) for ever.                                 *)
Short(x) == count[x] > 0 /\ count[x] < ULong
ReadsFinish ==
  \A r \in Reads : []((Active(r) /\ Short(r)) => <>(~Active(r) \/ [](InFlight = 0)))
WritesFinish ==
  \A w \in Writes : []((Active(w) /\ Short(w)) => <>(~Active(w) \/ [](InFlight = Window)))
CallsFinish == ReadsFinish /\ WritesFinish

Reading == {r \in Reads : Active(r)}
AbstractStatus == [x \in Calls |-> IF Active(x) THEN "active" ELSE state[x]]
AbstractTaken == IF Reading = {} THEN received ELSE from[CHOOSE r \in Reading : TRUE]
AbstractData ==
  [r \in Reads |-> IF state[r] = "done" THEN [i \in 1..Filled(r) |-> buffer[r][i]] ELSE <<>>]

Bytes == INSTANCE ByteStream WITH
  stream <- sent, taken <- AbstractTaken, status <- AbstractStatus,
  want <- count, data <- AbstractData

\* With one call at a time on each side, the sockets are a byte stream.
ImplementsByteStream == Bytes!ASpec
=============================================================================
