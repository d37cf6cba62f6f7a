-------------------------- MODULE DatagramService --------------------------
(***************************************************************************)
(* What sockets promise the clients that exchange datagrams over them: a   *)
(* write that reports success has sent its datagram, once, and one that    *)
(* reports failure has sent none; every read that succeeds takes one of    *)
(* the copies that are on their way, which the network loses and doubles   *)
(* but never makes up.                                                     *)
(***************************************************************************)
EXTENDS Naturals

CONSTANTS Reads, Writes, None

VARIABLES
  written,  \* "idle", "called", "sent" but not yet reported, "done", "failed"
  copies,   \* copies of each datagram on their way
  read      \* the datagram of each read that has succeeded
dvars == <<written, copies, read>>

DInit ==
  /\ written = [w \in Writes |-> "idle"]
  /\ copies = [w \in Writes |-> 0] /\ read = [r \in Reads |-> None]

Progress(w, from, to) == written[w] = from /\ written' = [written EXCEPT ![w] = to]

\* A write is called, or refused; it fails; its success is reported.
Proceed(w) ==
  /\ Progress(w, "idle", "called") \/ Progress(w, "idle", "failed")
     \/ Progress(w, "called", "failed") \/ Progress(w, "sent", "done")
  /\ UNCHANGED <<copies, read>>

Send(w) ==
  /\ Progress(w, "called", "sent")
  /\ copies' = [copies EXCEPT ![w] = 1] /\ UNCHANGED read

Take(r, w) ==
  /\ read[r] = None /\ copies[w] > 0
  /\ read' = [read EXCEPT ![r] = w]
  /\ copies' = [copies EXCEPT ![w] = @ - 1] /\ UNCHANGED written

\* The network loses copies and makes others, of datagrams that are on their way.
Network ==
  /\ copies' \in [Writes -> Nat]
  /\ \A w \in Writes : copies[w] = 0 => copies'[w] = 0
  /\ UNCHANGED <<written, read>>

DNext ==
  \/ \E w \in Writes : Proceed(w) \/ Send(w)
  \/ \E r \in Reads, w \in Writes : Take(r, w)
  \/ Network

DSpec == DInit /\ [][DNext]_dvars
=============================================================================
