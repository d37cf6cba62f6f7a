------------------------------ MODULE Datagram ------------------------------
(***************************************************************************)
(* UDPSocket::readFrom and writeTo, over those of Impl::Socket: datagrams  *)
(* between sockets, each of which is also an address and has a thread of   *)
(* its own.  The network loses, doubles and reorders datagrams.  Where the *)
(* system puts the sender's address is a local variable of a synchronous   *)
(* readFrom, and a block of the heap (AddressBuffer) for an asynchronous   *)
(* one, which has to live until run() calls the callback, on every path.   *)
(***************************************************************************)
EXTENDS Naturals, Sequences, FiniteSets

CONSTANTS
  Sockets,      \* sockets, and their addresses
  Known,        \* those with an IPv4 or IPv6 address
  Reads,        \* calls of readFrom
  Writes,       \* calls of writeTo, and the datagrams they send
  Sync,         \* those that are synchronous
  On,           \* the socket of each call
  Count,        \* its count argument
  Cells,        \* blocks of the heap
  None,         \* no address, no datagram
  ULong,        \* 2^32: a transfer is asked for in an int or a u_long
  MaxCopies     \* bound: copies of a datagram on their way

Calls == Reads \cup Writes

ASSUME DatagramAssumption ==
  /\ Reads \cap Writes = {} /\ Sync \subseteq Reads \cup Writes
  /\ Cells \cap Reads = {} /\ Known \subseteq Sockets
  /\ On \in [Calls -> Sockets] /\ Count \in [Calls -> Nat] /\ ULong \in Nat \ {0} /\ MaxCopies \in Nat \ {0}
  /\ IsFiniteSet(Reads) /\ None \notin Sockets \cup Cells \cup Reads \cup Writes

Places == Cells \cup (Reads \cap Sync)      \* a stack frame is named by its call

VARIABLES
  state,        \* "idle", "asked" (of the system), "moved" or "broken" (the
                \* transfer is over, and failed), "done", "failed"
  peer,         \* the address a writeTo is for
  place,        \* where the sender's address of a readFrom goes
  used,         \* the blocks of the heap in use
  saddr,        \* the address in each place, None while none is written
  buffer,       \* the datagram in the buffer of each readFrom
  endpoint,     \* the sender it reports
  ret,          \* the count a call reports
  net,          \* how many copies of each datagram are on their way
  port,         \* completed transfers, for the thread of each socket
  closed        \* the sockets that were closed

memory == <<place, used, saddr>>
reports == <<endpoint, ret>>
vars == <<state, peer, memory, buffer, reports, net, port, closed>>

TypeOK ==
  /\ state \in [Calls -> {"idle", "asked", "moved", "broken", "done", "failed"}]
  /\ peer \in [Writes -> Sockets \cup {None}]
  /\ place \in [Reads -> Places \cup {None}] /\ used \subseteq Cells
  /\ saddr \in [Places -> Sockets \cup {None}]
  /\ buffer \in [Reads -> Writes \cup {None}]
  /\ endpoint \in [Reads -> Sockets \cup {None}] /\ ret \in [Calls -> Nat]
  /\ net \in [Writes -> 0..MaxCopies]
  /\ port \in [Sockets -> Seq(Calls)] /\ closed \subseteq Sockets

Init ==
  /\ state = [x \in Calls |-> "idle"]
  /\ peer = [w \in Writes |-> None]
  /\ place = [r \in Reads |-> None] /\ used = {} /\ saddr = [p \in Places |-> None]
  /\ buffer = [r \in Reads |-> None] /\ endpoint = [r \in Reads |-> None]
  /\ ret = [x \in Calls |-> 0] /\ net = [w \in Writes |-> 0]
  /\ port = [s \in Sockets |-> <<>>] /\ closed = {}

-----------------------------------------------------------------------------
(* The calls, up to the transfer they ask for                              *)

Active(x) == state[x] \in {"asked", "moved", "broken"}

\* No synchronous call blocks the thread of s.
ThreadFree(s) == \A x \in Sync : On[x] = s => ~Active(x)
MayCall(x) == state[x] = "idle" /\ ThreadFree(On[x])

\* Mutant: one AddressBuffer serves all calls.
PlaceShared(r) == IF r \in Sync THEN {r} ELSE Cells

\* new AddressBuffer, or the local variables of the synchronous call.
PlaceFor(r) == IF r \in Sync THEN {r} ELSE Cells \ used

\* Whether the system accepts the transfer or refuses it: an asynchronous call
\* that is refused calls its callback, which deletes the block, at once.
ReadFrom(r) ==
  /\ MayCall(r)
  /\ \E p \in PlaceFor(r) :
       \/ /\ On[r] \notin closed
          /\ state' = [state EXCEPT ![r] = "asked"]
          /\ place' = [place EXCEPT ![r] = p]
          /\ used' = used \cup ({p} \cap Cells)
       \/ state' = [state EXCEPT ![r] = "failed"] /\ UNCHANGED <<place, used>>
  /\ UNCHANGED <<peer, saddr, buffer, reports, net, port, closed>>

\* toSockaddr succeeds for the two types of address.
Converts(d) == d \in Known

WriteTo(w, d) ==
  /\ MayCall(w)
  /\ peer' = [peer EXCEPT ![w] = d]
  /\ \/ On[w] \notin closed /\ Converts(d) /\ state' = [state EXCEPT ![w] = "asked"]
     \/ state' = [state EXCEPT ![w] = "failed"]
  /\ UNCHANGED <<memory, buffer, reports, net, port, closed>>

-----------------------------------------------------------------------------
(* The system and the network                                              *)

\* A transfer asked for n bytes is one of as many as fit into a u_long.
Length(n) == n % ULong
Size(w) == Length(Count[w])

\* A transfer ends: it is queued for run(), or the thread blocked in it goes on.
Ends(x, result) ==
  /\ state' = [state EXCEPT ![x] = result]
  /\ port' = IF x \in Sync THEN port ELSE [port EXCEPT ![On[x]] = Append(@, x)]

Send(w) ==
  /\ state[w] = "asked" /\ w \in Writes
  /\ net' = [net EXCEPT ![w] = 1]
  /\ ret' = [ret EXCEPT ![w] = Size(w)]
  /\ Ends(w, "moved")
  /\ UNCHANGED <<peer, memory, buffer, endpoint, closed>>

\* A datagram that is larger than the buffer is cut, and the transfer fails.
Receive(r, w) ==
  /\ state[r] = "asked" /\ peer[w] = On[r] /\ On[r] \notin closed /\ net[w] > 0
  /\ net' = [net EXCEPT ![w] = @ - 1]
  /\ saddr' = [saddr EXCEPT ![place[r]] = On[w]]
  /\ buffer' = [buffer EXCEPT ![r] = w]
  /\ LET fits == Size(w) <= Length(Count[r])
     IN  /\ ret' = [ret EXCEPT ![r] = IF fits THEN Size(w) ELSE Length(Count[r])]
         /\ Ends(r, IF fits THEN "moved" ELSE "broken")
  /\ UNCHANGED <<peer, place, used, endpoint, closed>>

Fail(x) ==
  /\ state[x] = "asked"
  /\ Ends(x, "broken")
  /\ UNCHANGED <<peer, memory, buffer, reports, net, closed>>

Lose(w) ==
  /\ net[w] > 0 /\ net' = [net EXCEPT ![w] = @ - 1]
  /\ UNCHANGED <<state, peer, memory, buffer, reports, port, closed>>

Duplicate(w) ==
  /\ net[w] \in 1 .. MaxCopies - 1 /\ net' = [net EXCEPT ![w] = @ + 1]
  /\ UNCHANGED <<state, peer, memory, buffer, reports, port, closed>>

\* close(): the transfers asked for fail.
Close(s) ==
  /\ closed' = closed \cup {s}
  /\ UNCHANGED <<state, peer, memory, buffer, reports, net, port>>

-----------------------------------------------------------------------------
(* What follows the transfer                                               *)

\* fromSockaddr: the address in p, or any, where none has been written.
Addresses(p) == IF saddr[p] = None THEN Sockets ELSE {saddr[p]}

\* The place is gone after the call.
Discard(r) == place' = [place EXCEPT ![r] = None] /\ saddr' = [saddr EXCEPT ![place[r]] = None]

\* The address is converted, which fails for one of another family.
Take(r) ==
  \E a \in Addresses(place[r]) :
    \/ /\ a \in Known
       /\ state' = [state EXCEPT ![r] = "done"]
       /\ endpoint' = [endpoint EXCEPT ![r] = a] /\ UNCHANGED ret
    \/ /\ a \notin Known
       /\ state' = [state EXCEPT ![r] = "failed"]
       /\ ret' = [ret EXCEPT ![r] = 0] /\ UNCHANGED endpoint

\* Mutants: the block is not deleted when the transfer failed; a failed transfer
\* is not told from another.
ConcludeLeaks(r) ==
  /\ \/ /\ state[r] = "broken" /\ state' = [state EXCEPT ![r] = "failed"]
        /\ UNCHANGED <<endpoint, ret, used>>
     \/ state[r] = "moved" /\ Take(r) /\ used' = used \ {place[r]}
  /\ Discard(r)
ConcludeCut(r) == Take(r) /\ Discard(r) /\ used' = used \ {place[r]}

\* readFrom after its transfer.
Conclude(r) ==
  /\ \/ /\ state[r] = "broken" /\ state' = [state EXCEPT ![r] = "failed"]
        /\ ret' = [ret EXCEPT ![r] = IF r \in Sync THEN 0 ELSE @] /\ UNCHANGED endpoint
     \/ state[r] = "moved" /\ Take(r)
  /\ Discard(r) /\ used' = used \ {place[r]}

ConcludeWrite(w) ==
  /\ state' = [state EXCEPT ![w] = IF state[w] = "moved" THEN "done" ELSE "failed"]
  /\ UNCHANGED <<memory, reports>>

Over(x) ==
  /\ state[x] \in {"moved", "broken"}
  /\ IF x \in Reads THEN Conclude(x) ELSE ConcludeWrite(x)
  /\ UNCHANGED <<peer, buffer, net, closed>>

\* Mutant: run() drops the packet of a failed transfer.
DispatchDrops(s) ==
  /\ ThreadFree(s) /\ port[s] # <<>>
  /\ IF state[Head(port[s])] = "broken"
     THEN UNCHANGED <<state, peer, memory, buffer, reports, net, closed>>
     ELSE Over(Head(port[s]))
  /\ port' = [port EXCEPT ![s] = Tail(@)]

\* run() calls the next callback of s; a synchronous call goes on.
Dispatch(s) ==
  /\ ThreadFree(s) /\ port[s] # <<>>
  /\ Over(Head(port[s]))
  /\ port' = [port EXCEPT ![s] = Tail(@)]
Resume(x) == x \in Sync /\ Over(x) /\ UNCHANGED port

-----------------------------------------------------------------------------
Next ==
  \/ \E r \in Reads : ReadFrom(r)
  \/ \E w \in Writes, d \in Sockets \cup {None} : WriteTo(w, d)
  \/ \E w \in Writes : Send(w) \/ Lose(w) \/ Duplicate(w)
  \/ \E r \in Reads, w \in Writes : Receive(r, w)
  \/ \E x \in Calls : Fail(x) \/ Resume(x)
  \/ \E s \in Sockets : Close(s) \/ Dispatch(s)

Spec == Init /\ [][Next]_vars

(* Threads go on; what arrives is received, and what is asked of the       *)
(* system, sent or failed, except for a read that waits on an open socket. *)
Fairness ==
  /\ \A s \in Sockets : WF_vars(Dispatch(s))
  /\ \A x \in Calls : WF_vars(Resume(x))
  /\ \A r \in Reads : WF_vars(\E w \in Writes : Receive(r, w))
  /\ \A r \in Reads : WF_vars(On[r] \in closed /\ Fail(r))
  /\ \A w \in Writes : WF_vars(Send(w) \/ Fail(w))

FairSpec == Spec /\ Fairness

-----------------------------------------------------------------------------
(* Properties                                                              *)

\* A readFrom that succeeds has a whole datagram in its buffer that was sent to
\* its socket, and reports its size and the address it was sent from, although
\* others were received, and blocks reused, before its callback was called.
SenderReported ==
  \A r \in Reads : state[r] = "done" =>
    LET w == buffer[r]
    IN  /\ w \in Writes /\ peer[w] = On[r]
        /\ endpoint[r] = On[w] /\ ret[r] = Size(w)

\* The blocks in use are those of the asynchronous reads that are not over, one
\* each: none is leaked, on any path, and none is deleted before the system
\* has written to it and the callback has read it.
BlocksOwned ==
  LET reading == {r \in Reads \ Sync : Active(r)}
  IN  /\ used = {place[r] : r \in reading}
      /\ \A r, q \in reading : place[r] = place[q] => r = q

\* A socket none of whose datagrams is left, while a read waits for one.
Starved(s) ==
  /\ \A w \in Writes : peer[w] = s => net[w] = 0
  /\ \E r \in Reads : On[r] = s /\ state[r] = "asked"

\* Every call is over in the end, unless a datagram is waited for that does not
\* come: by the call itself, or by a synchronous one that has the thread.
CallsFinish == \A x \in Calls : <>[]Active(x) => <>[]Starved(On[x])

\* What the clients of two sockets see: a datagram that is received but not yet
\* reported is still on its way.
Unreported(w) == {r \in Reads : state[r] = "moved" /\ buffer[r] = w}
Copies == [w \in Writes |-> net[w] + Cardinality(Unreported(w))]
Written == [w \in Writes |-> IF state[w] = "moved" THEN "sent"
                             ELSE IF state[w] \in {"asked", "broken"} THEN "called" ELSE state[w]]
Taken == [r \in Reads |-> IF state[r] = "done" THEN buffer[r] ELSE None]
Service == INSTANCE DatagramService WITH copies <- Copies, written <- Written, read <- Taken
ImplementsService == Service!DSpec
=============================================================================
