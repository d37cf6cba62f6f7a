------------------------------- MODULE Socket -------------------------------
(***************************************************************************)
(* The handles of Impl::Socket, and of TCPSocket, TCPServer and UDPSocket, *)
(* each of which is one Impl::Socket: who opens, overwrites, passes on and *)
(* closes them, on every success and error path.  All calls are made by    *)
(* the loop thread, inside or outside a callback; the operating system     *)
(* completes the pending AcceptEx calls, recycles the handles that were    *)
(* closed, and may refuse anything.                                        *)
(***************************************************************************)
EXTENDS Naturals, FiniteSets

CONSTANTS
  Sockets,        \* Impl::Socket objects
  WithExecutor,   \* those constructed with an IOExecutor
  Handles,        \* SOCKET values the operating system hands out
  Families,       \* address families
  None,           \* 0: no handle, or no family cached
  Invalid,        \* INVALID_SOCKET
  Careful         \* does user code open a socket only when it is closed?

ASSUME SocketAssumption ==
  /\ WithExecutor \subseteq Sockets /\ Careful \in BOOLEAN
  /\ None \notin Handles \cup Families /\ Invalid \notin Handles

VARIABLES
  handle,         \* Socket::handle
  family,         \* Socket::family (and type and protocol), None when unknown
  open,           \* handles that are open in the operating system ...
  af,             \* ... their address family ...
  listening,      \* ... those that listen ...
  attached,       \* ... and those attached to the completion port
  accepting       \* asynchronous accepts whose callback has not been called

members == <<handle, family>>
kernel == <<open, af, listening, attached>>
vars == <<members, kernel, accepting>>

Accepts == [on : Handles, new : Handles, into : Sockets, status : {"pending", "ok", "failed"}]

TypeOK ==
  /\ handle \in [Sockets -> Handles \cup {None, Invalid}]
  /\ family \in [Sockets -> Families \cup {None}]
  /\ open \subseteq Handles /\ af \in [Handles -> Families \cup {None}]
  /\ listening \subseteq open /\ attached \subseteq open
  /\ accepting \subseteq Accepts

Init ==
  /\ handle = [s \in Sockets |-> None] /\ family = [s \in Sockets |-> None]
  /\ open = {} /\ af = [h \in Handles |-> None]
  /\ listening = {} /\ attached = {} /\ accepting = {}

-----------------------------------------------------------------------------
(* The operating system                                                    *)

\* ::socket or ::accept: a new handle of a family, attached or not.
NewHandle(h, f, attach) ==
  /\ h \notin open
  /\ open' = open \cup {h} /\ af' = [af EXCEPT ![h] = f]
  /\ attached' = IF attach THEN attached \cup {h} ELSE attached

\* ::closesocket, which aborts the accepts that are pending on the handle and
\* does nothing when h is no open handle.
CloseHandle(h) ==
  /\ open' = open \ {h} /\ listening' = listening \ {h} /\ attached' = attached \ {h}
  /\ af' = [g \in Handles |-> IF g = h THEN None ELSE af[g]]

Aborted(h) ==
  {IF a.on = h /\ a.status = "pending" THEN [a EXCEPT !.status = "failed"] ELSE a : a \in accepting}

AcceptCompletes(a) ==
  /\ a.status = "pending"
  /\ \E st \in {"ok", "failed"} :
       accepting' = (accepting \ {a}) \cup {[a EXCEPT !.status = st]}
  /\ UNCHANGED <<members, kernel>>

-----------------------------------------------------------------------------
(* Opening and closing                                                     *)

\* No handle in the socket, and none on its way into it.
Free(s) == handle[s] \notin Handles /\ \A a \in accepting : a.into # s

MayOpen(s) == Careful => Free(s)

\* Mutant: the cached family survives.
CloseKeepsFamily(s) ==
  /\ CloseHandle(handle[s])
  /\ accepting' = Aborted(handle[s])
  /\ handle' = [handle EXCEPT ![s] = None]
  /\ UNCHANGED family

\* Socket::close(); also the destructor, when no accept into the socket is
\* pending, and a new object in its place.
Close(s) ==
  /\ CloseHandle(handle[s])
  /\ accepting' = Aborted(handle[s])
  /\ handle' = [handle EXCEPT ![s] = None]
  /\ family' = [family EXCEPT ![s] = None]

\* Socket::socket() fails: INVALID_SOCKET replaces the handle.
SocketFails(s) ==
  /\ handle' = [handle EXCEPT ![s] = Invalid]
  /\ UNCHANGED <<family, kernel, accepting>>

\* Socket::socket() succeeds: the new handle replaces the old one.
Opened(s, f, h) ==
  /\ NewHandle(h, f, s \in WithExecutor)
  /\ handle' = [handle EXCEPT ![s] = h]
  /\ family' = [family EXCEPT ![s] = f]

\* Socket::socket() succeeds, a later call fails, and the handle is closed.
OpenedAndClosed(s) ==
  /\ open # Handles
  /\ handle' = [handle EXCEPT ![s] = None]
  /\ family' = [family EXCEPT ![s] = None]
  /\ UNCHANGED <<kernel, accepting>>

\* Socket::socket(), then one more call that succeeds, or the handle is closed.
OpenedWhole(s, f) ==
  \/ SocketFails(s) \/ OpenedAndClosed(s)
  \/ (\E h \in Handles : Opened(s, f, h)) /\ UNCHANGED <<listening, accepting>>

\* TCPSocket::connect: socket() and connect().
ConnectSync(s, f) == MayOpen(s) /\ OpenedWhole(s, f)

\* UDPSocket::bind: socket() and bind().
Bind(s, f) == MayOpen(s) /\ OpenedWhole(s, f)

\* TCPSocket::connect with a callback: the handle stays open, whether ConnectEx
\* connects, fails, or is refused, or the bind before it fails.  (toSockaddr
\* refuses no type that the switch before it lets pass.)
ConnectAsync(s, f) ==
  /\ MayOpen(s) /\ s \in WithExecutor
  /\ \/ SocketFails(s)
     \/ (\E h \in Handles : Opened(s, f, h)) /\ UNCHANGED <<listening, accepting>>

\* TCPServer::listen: socket(), bind() and listen().
Listen(s, f) ==
  /\ MayOpen(s)
  /\ \/ SocketFails(s) \/ OpenedAndClosed(s)
     \/ \E h \in Handles : Opened(s, f, h) /\ listening' = listening \cup {h}
  /\ UNCHANGED accepting

\* Mutant: the executor does not get to know the handle.
SetHandleUnattached(s, f, h) ==
  /\ NewHandle(h, f, FALSE)
  /\ handle' = [handle EXCEPT ![s] = h]
  /\ UNCHANGED <<family, listening, accepting>>

\* Socket::setHandle(h), for a handle that user code or ::accept has made and
\* that is in no socket: setHandle(other.getHandle()) is not modelled.  So is not
\* a handle that is on a completion port already, for which attachHandle throws
\* and the noexcept of setHandle ends the program.
SetHandle(s, f, h) ==
  /\ NewHandle(h, f, s \in WithExecutor)
  /\ handle' = [handle EXCEPT ![s] = h]
  /\ UNCHANGED <<family, listening, accepting>>

Adopt(s, f) == MayOpen(s) /\ \E h \in Handles : SetHandle(s, f, h)

-----------------------------------------------------------------------------
(* Accepting                                                               *)

AcceptSync(v, s) ==
  /\ MayOpen(s) /\ v # s /\ handle[v] \in listening
  /\ \E h \in Handles : SetHandle(s, af[handle[v]], h)

\* getSocketInfo() recovers the family when it is not cached.
FamilyOf(v) == IF family[v] # None THEN family[v]
               ELSE IF handle[v] \in open THEN af[handle[v]] ELSE None

\* Mutant: the socket gets its handle before the connection has arrived.
AcceptAsyncAtOnce(v, s) ==
  /\ MayOpen(s) /\ v \in WithExecutor /\ v # s /\ handle[v] \in listening
  /\ \E h \in Handles :
       /\ NewHandle(h, FamilyOf(v), s \in WithExecutor)
       /\ handle' = [handle EXCEPT ![s] = h]
       /\ accepting' = accepting \cup
            {[on |-> handle[v], new |-> h, into |-> s, status |-> "pending"]}
  /\ UNCHANGED <<family, listening>>

(* Socket::accept with a callback.  When the family is unknown and cannot  *)
(* be recovered, no socket can be created, or AcceptEx is refused and the  *)
(* new handle is closed again, the callback is called inline.              *)
AcceptAsync(v, s) ==
  /\ MayOpen(s) /\ v \in WithExecutor /\ v # s
  /\ family' = [family EXCEPT ![v] = FamilyOf(v)]
  /\ \/ UNCHANGED <<kernel, accepting>>
     \/ /\ handle[v] \in listening
        /\ \E h \in Handles :
             /\ NewHandle(h, FamilyOf(v), FALSE)
             /\ accepting' = accepting \cup
                  {[on |-> handle[v], new |-> h, into |-> s, status |-> "pending"]}
        /\ UNCHANGED listening
  /\ UNCHANGED handle

\* Mutant: after an error the handle is not closed.
AcceptCallbackLeaks(a) ==
  /\ accepting' = accepting \ {a}
  /\ \/ a.status = "failed" /\ UNCHANGED <<members, kernel>>
     \/ /\ a.status = "ok" /\ handle' = [handle EXCEPT ![a.into] = a.new]
        /\ attached' = IF a.into \in WithExecutor THEN attached \cup {a.new} ELSE attached
        /\ UNCHANGED <<family, open, af, listening>>

\* TCPServer::accept, with a callback or without: that of Impl::Socket.
Accept(v, s) == AcceptSync(v, s) \/ AcceptAsync(v, s)

\* run() calls back: the new handle goes to the socket, or is closed.
AcceptCallback(a) ==
  /\ accepting' = accepting \ {a}
  /\ \/ /\ a.status = "failed"
        /\ CloseHandle(a.new)
        /\ UNCHANGED members
     \/ /\ a.status = "ok"
        /\ handle' = [handle EXCEPT ![a.into] = a.new]
        /\ attached' = IF a.into \in WithExecutor THEN attached \cup {a.new} ELSE attached
        /\ UNCHANGED <<family, open, af, listening>>

Next ==
  \/ \E s \in Sockets : Close(s)
  \/ \E s \in Sockets, f \in Families :
       ConnectSync(s, f) \/ ConnectAsync(s, f) \/ Bind(s, f) \/ Listen(s, f) \/ Adopt(s, f)
  \/ \E v, s \in Sockets : Accept(v, s)
  \/ \E a \in accepting : AcceptCompletes(a) \/ AcceptCallback(a)

Spec == Init /\ [][Next]_vars

-----------------------------------------------------------------------------
(* Properties                                                              *)

\* In whatever order user code makes its calls, as long as it gives setHandle()
\* no handle that is in a socket, no two sockets, and no socket and pending
\* accept, have the same open handle: closing one closes no other.
OwnedOnce ==
  /\ \A s, r \in Sockets : handle[s] = handle[r] /\ handle[s] \in Handles => s = r
  /\ \A s \in Sockets, a \in accepting : handle[s] # a.new
  /\ \A a, b \in accepting : a.new = b.new => a = b

\* In whatever order user code makes its calls, with the same exception, the
\* handle in a socket, or in a pending accept, is open: it is not closed twice,
\* nor is its successor closed.
NeverDangling ==
  /\ \A s \in Sockets : handle[s] \in Handles => handle[s] \in open
  /\ \A a \in accepting : a.new \in open

\* No handle is shared, and none is closed under its owner.
WellOwned == OwnedOnce /\ NeverDangling

\* A socket with an executor is on its completion port, and so is the handle
\* an accept is pending on: its completion reaches run().
CompletionsArrive ==
  /\ \A s \in WithExecutor : handle[s] \in Handles => handle[s] \in attached
  /\ \A a \in accepting : a.status = "pending" => a.on \in attached

\* Careful user code leaks no handle, on any path, synchronous or not.
NoLeak ==
  \A h \in open : (\E s \in Sockets : handle[s] = h) \/ \E a \in accepting : a.new = h

\* With careful user code the family an asynchronous accept opens its socket
\* with is the family of the handle it accepts on.
FamilyIsCurrent ==
  \A s \in Sockets : family[s] # None => handle[s] \in open /\ family[s] = af[handle[s]]

\* The handle of a socket, if it has one, and those to be accepted into it.
Held == [s \in Sockets |-> {handle[s]} \cap Handles]
Incoming == [s \in Sockets |-> {a.new : a \in {b \in accepting : b.into = s}}]

Ownership == INSTANCE HandleOwnership WITH
  free <- Handles \ open, held <- Held, incoming <- Incoming

\* With careful user code every handle has one owner until it is closed.
ImplementsOwnership == Ownership!ASpec
=============================================================================
