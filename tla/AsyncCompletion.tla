-------------------------- MODULE AsyncCompletion --------------------------
(***************************************************************************)
(* What IOExecutor promises the clients of its asynchronous calls, and no  *)
(* more: a callback is called exactly once, either inline by the call that *)
(* was refused or by run(); and run() returns normally only when nothing   *)
(* that was submitted still waits for its callback.  An exception thrown   *)
(* by a callback may end run() at any time.                                *)
(***************************************************************************)
CONSTANT Callbacks      \* everything that is given a callback: I/O, functions,
                        \* resolver jobs, timers
VARIABLES
  outstanding,          \* submitted, callback not yet called
  delivered,            \* callback called
  running               \* is run() active: "no", "yes", "returned", "threw"?

avars == <<outstanding, delivered, running>>

AInit == outstanding = {} /\ delivered = {} /\ running = "no"

Submit(c) ==
  /\ c \notin outstanding \cup delivered
  /\ outstanding' = outstanding \cup {c}
  /\ UNCHANGED <<delivered, running>>

\* The call fails at once and reports it inline.
Refuse(c) ==
  /\ c \notin outstanding \cup delivered
  /\ delivered' = delivered \cup {c}
  /\ UNCHANGED <<outstanding, running>>

Deliver(c) ==
  /\ running = "yes" /\ c \in outstanding
  /\ outstanding' = outstanding \ {c}
  /\ delivered' = delivered \cup {c}
  /\ UNCHANGED running

Start ==
  /\ running # "yes"
  /\ running' = "yes"
  /\ UNCHANGED <<outstanding, delivered>>

Return ==
  /\ running = "yes" /\ outstanding = {}
  /\ running' = "returned"
  /\ UNCHANGED <<outstanding, delivered>>

Throw ==
  /\ running = "yes"
  /\ running' = "threw"
  /\ UNCHANGED <<outstanding, delivered>>

ANext ==
  \/ \E c \in Callbacks : Submit(c) \/ Refuse(c) \/ Deliver(c)
  \/ Start \/ Return \/ Throw

ASpec == AInit /\ [][ANext]_avars
=============================================================================
