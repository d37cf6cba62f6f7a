--------------------------- MODULE HandleOwnership ---------------------------
(***************************************************************************)
(* What the sockets promise about the handles of the operating system:     *)
(* from its creation until it is closed a handle has exactly one owner, a  *)
(* socket or the accept that is to give it to one; a socket has at most    *)
(* one handle; and an incoming connection goes to the socket it was        *)
(* accepted for, or is closed.                                             *)
(***************************************************************************)
CONSTANTS Sockets, Handles
VARIABLES
  free,       \* handles the operating system may hand out
  held,       \* the handles of each socket
  incoming    \* the handles waiting in an accept for each socket

avars == <<free, held, incoming>>

AInit ==
  /\ free = Handles
  /\ held = [s \in Sockets |-> {}] /\ incoming = [s \in Sockets |-> {}]

Create(s, h) ==
  /\ h \in free /\ held[s] = {}
  /\ free' = free \ {h} /\ held' = [held EXCEPT ![s] = {h}]
  /\ UNCHANGED incoming

Close(s, h) ==
  /\ h \in held[s]
  /\ free' = free \cup {h} /\ held' = [held EXCEPT ![s] = {}]
  /\ UNCHANGED incoming

Arrive(s, h) ==
  /\ h \in free
  /\ free' = free \ {h} /\ incoming' = [incoming EXCEPT ![s] = @ \cup {h}]
  /\ UNCHANGED held

Accept(s, h) ==
  /\ h \in incoming[s] /\ held[s] = {}
  /\ held' = [held EXCEPT ![s] = {h}]
  /\ incoming' = [incoming EXCEPT ![s] = @ \ {h}]
  /\ UNCHANGED free

Refuse(s, h) ==
  /\ h \in incoming[s]
  /\ free' = free \cup {h} /\ incoming' = [incoming EXCEPT ![s] = @ \ {h}]
  /\ UNCHANGED held

ANext == \E s \in Sockets, h \in Handles :
  Create(s, h) \/ Close(s, h) \/ Arrive(s, h) \/ Accept(s, h) \/ Refuse(s, h)

ASpec == AInit /\ [][ANext]_avars
=============================================================================
