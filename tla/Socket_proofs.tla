---------------------------- MODULE Socket_proofs ----------------------------
(***************************************************************************)
(* Theorems about Socket, for all sets of sockets, handles and families:   *)
(* what holds in whatever order user code makes its calls, and what holds  *)
(* when it opens only closed sockets.  Either way it gives setHandle() no  *)
(* handle that is in a socket: Adopt, the model of setHandle, says so.     *)
(***************************************************************************)
EXTENDS Socket, TLAPS

\* An accept is pending only on a listening handle, and the handle made for
\* an accept does not listen itself.
PendingListens ==
  \A a \in accepting : /\ a.status = "pending" => a.on \in listening
                       /\ a.new \notin listening

AnyInv == TypeOK /\ OwnedOnce /\ NeverDangling /\ CompletionsArrive /\ PendingListens

\* Careful user code: nothing is opened while an accept is to fill it, and at
\* most one accept is to fill it.
FilledOnce ==
  /\ \A a \in accepting : handle[a.into] \notin Handles
  /\ \A a, b \in accepting : a.into = b.into => a = b

CarefulInv == NoLeak /\ FamilyIsCurrent /\ FilledOnce

-----------------------------------------------------------------------------
\* The forms a step can take.
OpenStep(s, f, h) ==
  /\ MayOpen(s) /\ Opened(s, f, h) /\ accepting' = accepting
  /\ listening' \in {listening, listening \cup {h}}
SetStep(s, f, h) == MayOpen(s) /\ SetHandle(s, f, h)

LEMMA Steps ==
  ASSUME TypeOK, [Next]_vars
  PROVE  \/ \E s \in Sockets : Close(s)
         \/ \E s \in Sockets : MayOpen(s) /\ SocketFails(s)
         \/ \E s \in Sockets : MayOpen(s) /\ OpenedAndClosed(s)
         \/ \E s \in Sockets, f \in Families, h \in Handles : OpenStep(s, f, h)
         \/ \E s \in Sockets, f \in Families \cup {None}, h \in Handles : SetStep(s, f, h)
         \/ \E v, s \in Sockets : AcceptAsync(v, s)
         \/ \E a \in accepting : AcceptCompletes(a) \/ AcceptCallback(a)
         \/ UNCHANGED vars
<1>1. ASSUME NEW s \in Sockets, NEW f \in Families,
             ConnectSync(s, f) \/ ConnectAsync(s, f) \/ Bind(s, f) \/ Listen(s, f)
      PROVE  MayOpen(s) /\ (SocketFails(s) \/ OpenedAndClosed(s) \/ \E h \in Handles : OpenStep(s, f, h))
  BY <1>1 DEF ConnectSync, ConnectAsync, Bind, OpenedWhole, Listen, OpenStep
<1>2. ASSUME NEW v \in Sockets, NEW s \in Sockets, AcceptSync(v, s)
      PROVE  \E f \in Families \cup {None}, h \in Handles : SetStep(s, f, h)
  <2>1. handle[v] \in Handles
    BY <1>2 DEF AcceptSync, TypeOK
  <2>2. af[handle[v]] \in Families \cup {None}
    BY <2>1 DEF TypeOK
  <2> QED BY <1>2, <2>2 DEF AcceptSync, SetStep
<1>3. ASSUME NEW s \in Sockets, NEW f \in Families, Adopt(s, f)
      PROVE  \E h \in Handles : SetStep(s, f, h)
  BY <1>3 DEF Adopt, SetStep
<1>4. CASE UNCHANGED vars
  BY <1>4
<1>5. CASE Next
  BY <1>1, <1>2, <1>3, <1>5 DEF Next, Accept
<1> QED BY <1>4, <1>5

-----------------------------------------------------------------------------
LEMMA AbortedType ==
  ASSUME TypeOK, NEW h
  PROVE  /\ Aborted(h) \subseteq Accepts
         /\ \A a \in Aborted(h) : \E b \in accepting :
              /\ a.on = b.on /\ a.new = b.new /\ a.into = b.into
              /\ a.status = "pending" => b = a /\ a.on # h
         /\ \A b \in accepting : \E a \in Aborted(h) : a.new = b.new /\ a.into = b.into
         /\ \A a, b \in Aborted(h) : a.new = b.new =>
              \E c, d \in accepting : c.new = d.new /\ c.new = a.new /\ (c = d => a = b)
<1> DEFINE F(a) == IF a.on = h /\ a.status = "pending" THEN [a EXCEPT !.status = "failed"] ELSE a
<1>1. ASSUME NEW b \in accepting
      PROVE  /\ F(b) \in Accepts /\ F(b).on = b.on /\ F(b).new = b.new /\ F(b).into = b.into
             /\ F(b).status = "pending" => F(b) = b /\ b.on # h
  <2>1. b \in Accepts
    BY DEF TypeOK
  <2> QED BY <2>1 DEF Accepts
<1>2. Aborted(h) = {F(a) : a \in accepting}
  BY DEF Aborted
<1> HIDE DEF F
<1>3. \A a \in Aborted(h) : \E b \in accepting : a = F(b)
  BY <1>2
<1>4. \A b \in accepting : F(b) \in Aborted(h)
  BY <1>2
<1> QED BY <1>1, <1>3, <1>4

\* The invariant that needs no care of user code.
LEMMA AnyStep ==
  ASSUME AnyInv, [Next]_vars
  PROVE  AnyInv'
<1> USE SocketAssumption
<1>1. ASSUME NEW s \in Sockets, Close(s) PROVE AnyInv'
  <2> DEFINE h == handle[s]
  <2>1. /\ accepting' = Aborted(h)
        /\ handle' = [handle EXCEPT ![s] = None] /\ family' = [family EXCEPT ![s] = None]
        /\ open' = open \ {h} /\ listening' = listening \ {h} /\ attached' = attached \ {h}
        /\ af' \in [Handles -> Families \cup {None}]
    BY <1>1 DEF Close, CloseHandle, AnyInv, TypeOK
  <2>2. TypeOK'
    BY <2>1, AbortedType DEF AnyInv, TypeOK
  <2>3. \A r \in Sockets : r # s /\ handle[r] \in Handles => handle[r] # h
    BY DEF AnyInv, OwnedOnce
  <2>4. \A a \in accepting : a.new # h
    BY DEF AnyInv, OwnedOnce
  <2>n. None \notin Handles
    OBVIOUS
  <2>t. \A a \in accepting : a.on \in Handles /\ a.new \in Handles /\ a.into \in Sockets
    BY DEF AnyInv, TypeOK, Accepts
  <2>h. \A r \in Sockets : handle'[r] = IF r = s THEN None ELSE handle[r]
    BY <2>1 DEF AnyInv, TypeOK
  <2> HIDE DEF h
  <2>5. OwnedOnce'
    <3>1. \A r, q \in Sockets : handle'[r] = handle'[q] /\ handle'[r] \in Handles => r = q
      BY <2>h, <2>n DEF AnyInv, OwnedOnce
    <3>2. \A r \in Sockets, a \in accepting' : handle'[r] # a.new
      BY <2>1, <2>h, <2>n, <2>t, AbortedType DEF AnyInv, OwnedOnce
    <3>3. \A a, b \in accepting' : a.new = b.new => a = b
      BY <2>1, AbortedType DEF AnyInv, OwnedOnce
    <3> QED BY <3>1, <3>2, <3>3 DEF OwnedOnce
  <2>a. ASSUME NEW a \in accepting'
        PROVE  \E b \in accepting : /\ a.on = b.on /\ a.new = b.new
                                    /\ a.status = "pending" => b = a /\ a.on # h
    BY <2>1, <2>a, AbortedType DEF AnyInv
  <2>6. NeverDangling'
    <3>1. \A r \in Sockets : handle'[r] \in Handles => handle'[r] \in open'
      BY <2>1, <2>3, <2>h, <2>n DEF AnyInv, NeverDangling
    <3>2. \A a \in accepting' : a.new \in open'
      BY <2>1, <2>4, <2>a DEF AnyInv, NeverDangling
    <3> QED BY <3>1, <3>2 DEF NeverDangling
  <2>7. CompletionsArrive'
    <3>1. \A r \in WithExecutor : handle'[r] \in Handles => handle'[r] \in attached'
      BY <2>1, <2>3, <2>h, <2>n DEF AnyInv, CompletionsArrive
    <3>2. \A a \in accepting' : a.status = "pending" => a.on \in attached'
      BY <2>1, <2>a DEF AnyInv, CompletionsArrive
    <3> QED BY <3>1, <3>2 DEF CompletionsArrive
  <2>8. PendingListens'
    <3> SUFFICES ASSUME NEW a \in accepting'
                 PROVE  (a.status = "pending" => a.on \in listening') /\ a.new \notin listening'
      BY DEF PendingListens
    <3> QED BY <2>1, <2>a DEF AnyInv, PendingListens
  <2> QED BY <2>2, <2>5, <2>6, <2>7, <2>8 DEF AnyInv
<1>2. ASSUME NEW s \in Sockets, SocketFails(s) \/ OpenedAndClosed(s) PROVE AnyInv'
  <2>1. /\ UNCHANGED <<open, af, listening, attached, accepting>>
        /\ \E x \in {None, Invalid} : handle' = [handle EXCEPT ![s] = x]
        /\ family' \in [Sockets -> Families \cup {None}]
    BY <1>2 DEF SocketFails, OpenedAndClosed, kernel, AnyInv, TypeOK
  <2>2. TypeOK'
    BY <2>1 DEF AnyInv, TypeOK
  <2>3. \A r \in Sockets : handle'[r] = handle[r] \/ (r = s /\ handle'[r] \notin Handles)
    BY <2>1 DEF AnyInv, TypeOK
  <2>4. \A a \in accepting : a.new \in Handles
    BY DEF AnyInv, TypeOK, Accepts
  <2>5. OwnedOnce' /\ NeverDangling' /\ CompletionsArrive' /\ PendingListens'
    BY <2>1, <2>3, <2>4 DEF AnyInv, OwnedOnce, NeverDangling, CompletionsArrive, PendingListens
  <2> QED BY <2>2, <2>5 DEF AnyInv
<1>3. ASSUME NEW s \in Sockets, NEW f \in Families \cup {None}, NEW h \in Handles,
             NewHandle(h, f, s \in WithExecutor), handle' = [handle EXCEPT ![s] = h],
             family' \in [Sockets -> Families \cup {None}],
             listening' \in {listening, listening \cup {h}}, accepting' = accepting
      PROVE  AnyInv'
  <2>1. /\ h \notin open /\ open' = open \cup {h} /\ af' = [af EXCEPT ![h] = f]
        /\ attached' = IF s \in WithExecutor THEN attached \cup {h} ELSE attached
    BY <1>3 DEF NewHandle
  <2>2. TypeOK'
    BY <1>3, <2>1 DEF AnyInv, TypeOK
  <2>3. \A r \in Sockets : handle'[r] = IF r = s THEN h ELSE handle[r]
    BY <1>3 DEF AnyInv, TypeOK
  <2>4. (\A r \in Sockets : handle[r] # h) /\ (\A a \in accepting : a.new # h)
    BY <2>1 DEF AnyInv, NeverDangling
  <2>5. OwnedOnce'
    BY <1>3, <2>3, <2>4 DEF AnyInv, OwnedOnce
  <2>6. NeverDangling' /\ CompletionsArrive' /\ PendingListens'
    BY <1>3, <2>1, <2>3, <2>4 DEF AnyInv, NeverDangling, CompletionsArrive, PendingListens
  <2> QED BY <2>2, <2>5, <2>6 DEF AnyInv
<1>4. ASSUME NEW s \in Sockets, NEW f \in Families, NEW h \in Handles, OpenStep(s, f, h)
      PROVE  AnyInv'
  BY <1>3, <1>4 DEF OpenStep, Opened, AnyInv, TypeOK
<1>5. ASSUME NEW s \in Sockets, NEW f \in Families \cup {None}, NEW h \in Handles, SetStep(s, f, h)
      PROVE  AnyInv'
  <2>1. /\ NewHandle(h, f, s \in WithExecutor) /\ handle' = [handle EXCEPT ![s] = h]
        /\ UNCHANGED <<family, listening, accepting>>
    BY <1>5 DEF SetStep, SetHandle
  <2> QED BY <1>3, <2>1 DEF AnyInv, TypeOK
<1>6. ASSUME NEW v \in Sockets, NEW s \in Sockets, AcceptAsync(v, s) PROVE AnyInv'
  <2>1. FamilyOf(v) \in Families \cup {None}
    BY DEF FamilyOf, AnyInv, TypeOK
  <2>2. family' \in [Sockets -> Families \cup {None}] /\ handle' = handle
    BY <1>6, <2>1 DEF AcceptAsync, AnyInv, TypeOK
  <2>3. CASE UNCHANGED <<kernel, accepting>>
    BY <2>2, <2>3 DEF kernel, AnyInv, TypeOK, OwnedOnce, NeverDangling, CompletionsArrive,
                      PendingListens
  <2>4. ASSUME NEW h \in Handles, NewHandle(h, FamilyOf(v), FALSE), handle[v] \in listening,
               listening' = listening, v \in WithExecutor,
               accepting' = accepting \cup
                 {[on |-> handle[v], new |-> h, into |-> s, status |-> "pending"]}
        PROVE  AnyInv'
    <3> DEFINE b == [on |-> handle[v], new |-> h, into |-> s, status |-> "pending"]
    <3>1. /\ b.on = handle[v] /\ b.new = h /\ b \in Accepts /\ handle[v] \in Handles
          /\ handle[v] \in attached
      BY <2>4 DEF Accepts, AnyInv, TypeOK, CompletionsArrive
    <3>2. /\ h \notin open /\ open' = open \cup {h} /\ attached' = attached
          /\ af' = [af EXCEPT ![h] = FamilyOf(v)]
      BY <2>4 DEF NewHandle
    <3>3. accepting' = accepting \cup {b}
      BY <2>4
    <3> HIDE DEF b
    <3>4. TypeOK'
      BY <2>1, <2>2, <2>4, <3>1, <3>2, <3>3 DEF AnyInv, TypeOK
    <3>5. (\A r \in Sockets : handle[r] # h) /\ (\A a \in accepting : a.new # h) /\ h \notin listening
      BY <3>2 DEF AnyInv, NeverDangling, TypeOK
    <3>6. OwnedOnce'
      BY <2>2, <3>1, <3>3, <3>5 DEF AnyInv, OwnedOnce
    <3>7. NeverDangling' /\ CompletionsArrive' /\ PendingListens'
      BY <2>2, <2>4, <3>1, <3>2, <3>3, <3>5
         DEF AnyInv, NeverDangling, CompletionsArrive, PendingListens
    <3> QED BY <3>4, <3>6, <3>7 DEF AnyInv
  <2> QED BY <1>6, <2>3, <2>4 DEF AcceptAsync
<1>7. ASSUME NEW a \in accepting, AcceptCompletes(a) PROVE AnyInv'
  <2>1. a \in Accepts /\ a.status = "pending"
    BY <1>7 DEF AcceptCompletes, AnyInv, TypeOK
  <2>2. PICK st \in {"ok", "failed"} :
          accepting' = (accepting \ {a}) \cup {[a EXCEPT !.status = st]}
    BY <1>7 DEF AcceptCompletes
  <2> DEFINE b == [a EXCEPT !.status = st]
  <2>3. b \in Accepts /\ b.new = a.new /\ b.status # "pending"
    BY <2>1 DEF Accepts
  <2>4. accepting' = (accepting \ {a}) \cup {b} /\ UNCHANGED <<members, kernel>>
    BY <1>7, <2>2 DEF AcceptCompletes
  <2> HIDE DEF b
  <2>5. TypeOK'
    BY <2>3, <2>4 DEF members, kernel, AnyInv, TypeOK
  <2>6. OwnedOnce'
    BY <2>3, <2>4 DEF members, kernel, AnyInv, OwnedOnce
  <2>7. NeverDangling' /\ CompletionsArrive' /\ PendingListens'
    BY <2>3, <2>4 DEF members, kernel, AnyInv, NeverDangling, CompletionsArrive, PendingListens
  <2> QED BY <2>5, <2>6, <2>7 DEF AnyInv
<1>8. ASSUME NEW a \in accepting, AcceptCallback(a) PROVE AnyInv'
  <2>1. a \in Accepts /\ a.new \in Handles /\ a.into \in Sockets /\ accepting' = accepting \ {a}
    BY <1>8 DEF AcceptCallback, AnyInv, TypeOK, Accepts
  <2>2. /\ \A r \in Sockets : handle[r] # a.new
        /\ \A b \in accepting \ {a} : b.new # a.new
    BY DEF AnyInv, OwnedOnce
  <2>3. CASE a.status = "failed" /\ CloseHandle(a.new) /\ UNCHANGED members
    <3>1. /\ open' = open \ {a.new} /\ listening' = listening \ {a.new}
          /\ attached' = attached \ {a.new} /\ UNCHANGED <<handle, family>>
          /\ af' \in [Handles -> Families \cup {None}]
      BY <2>3 DEF CloseHandle, members, AnyInv, TypeOK
    <3>2. \A b \in accepting : b.status = "pending" => b.on # a.new
      BY DEF AnyInv, PendingListens
    <3>3. TypeOK'
      BY <2>1, <3>1 DEF AnyInv, TypeOK
    <3>4. OwnedOnce'
      BY <2>1, <3>1 DEF AnyInv, OwnedOnce
    <3>5. NeverDangling' /\ CompletionsArrive' /\ PendingListens'
      BY <2>1, <2>2, <3>1, <3>2 DEF AnyInv, NeverDangling, CompletionsArrive, PendingListens
    <3> QED BY <3>3, <3>4, <3>5 DEF AnyInv
  <2>4. CASE /\ handle' = [handle EXCEPT ![a.into] = a.new]
             /\ attached' = IF a.into \in WithExecutor THEN attached \cup {a.new} ELSE attached
             /\ UNCHANGED <<family, open, af, listening>>
    <3>1. \A r \in Sockets : handle'[r] = IF r = a.into THEN a.new ELSE handle[r]
      BY <2>1, <2>4 DEF AnyInv, TypeOK
    <3>2. a.new \in open
      BY DEF AnyInv, NeverDangling
    <3>3. TypeOK'
      BY <2>1, <2>4, <3>2 DEF AnyInv, TypeOK
    <3>4. OwnedOnce'
      BY <2>1, <2>2, <3>1 DEF AnyInv, OwnedOnce
    <3>5. NeverDangling' /\ CompletionsArrive' /\ PendingListens'
      BY <2>1, <2>4, <3>1, <3>2 DEF AnyInv, NeverDangling, CompletionsArrive, PendingListens
    <3> QED BY <3>3, <3>4, <3>5 DEF AnyInv
  <2> QED BY <1>8, <2>3, <2>4 DEF AcceptCallback
<1>9. CASE UNCHANGED vars
  BY <1>9 DEF vars, members, kernel, AnyInv, TypeOK, OwnedOnce, NeverDangling,
              CompletionsArrive, PendingListens
<1> QED BY Steps, <1>1, <1>2, <1>4, <1>5, <1>6, <1>7, <1>8, <1>9 DEF AnyInv

LEMMA AnyInit ==
  ASSUME Init PROVE AnyInv
BY SocketAssumption DEF Init, AnyInv, TypeOK, OwnedOnce, NeverDangling, CompletionsArrive, PendingListens

\* In whatever order calls are made, the invariant holds: the theorems below follow.
THEOREM AnyInvariant == Spec => []AnyInv
<1>1. Init => AnyInv
  BY AnyInit
<1>2. AnyInv /\ [Next]_vars => AnyInv'
  BY AnyStep
<1> QED BY <1>1, <1>2, PTL DEF Spec

\* Every member of a socket, and every pending accept, keeps its type.
THEOREM TypeCorrectness == Spec => []TypeOK
<1>1. AnyInv => TypeOK
  BY DEF AnyInv
<1> QED BY <1>1, AnyInvariant, PTL

\* No open handle ever has two owners, in whatever order user code makes its
\* calls, if it gives setHandle() no handle that is in a socket.
THEOREM NoSharedHandle == Spec => []OwnedOnce
<1>1. AnyInv => OwnedOnce
  BY DEF AnyInv
<1> QED BY <1>1, AnyInvariant, PTL

\* No socket and no accept holds a closed handle, in whatever order user code
\* makes its calls, if it gives setHandle() no handle that is in a socket.
THEOREM NoDanglingHandle == Spec => []NeverDangling
<1>1. AnyInv => NeverDangling
  BY DEF AnyInv
<1> QED BY <1>1, AnyInvariant, PTL

\* So every open handle has one owner, and every owner an open handle.
THEOREM HandlesAreOwned == Spec => []WellOwned
<1>1. OwnedOnce /\ NeverDangling => WellOwned
  BY DEF WellOwned
<1> QED BY <1>1, NoSharedHandle, NoDanglingHandle, PTL

\* Every handle whose completions are awaited is on the completion port.
THEOREM HandlesAttached == Spec => []CompletionsArrive
<1>1. AnyInv => CompletionsArrive
  BY DEF AnyInv
<1> QED BY <1>1, AnyInvariant, PTL

-----------------------------------------------------------------------------
(* Careful user code                                                       *)

LEMMA CarefulInit ==
  ASSUME Init PROVE CarefulInv
BY DEF Init, CarefulInv, NoLeak, FamilyIsCurrent, FilledOnce

LEMMA CarefulStep ==
  ASSUME Careful, AnyInv, CarefulInv, [Next]_vars
  PROVE  CarefulInv'
<1> USE SocketAssumption
<1>i. \A a \in accepting : a \in Accepts /\ a.new \in Handles /\ a.into \in Sockets /\ a.new \in open
  BY DEF AnyInv, TypeOK, Accepts, NeverDangling
<1>1. ASSUME NEW s \in Sockets, Close(s) PROVE CarefulInv'
  <2> DEFINE h == handle[s]
  <2>1. /\ accepting' = Aborted(h) /\ open' = open \ {h}
        /\ \A r \in Sockets : handle'[r] = IF r = s THEN None ELSE handle[r]
        /\ \A r \in Sockets : family'[r] = IF r = s THEN None ELSE family[r]
        /\ \A g \in Handles : g # h => af'[g] = af[g]
    BY <1>1 DEF Close, CloseHandle, AnyInv, TypeOK
  <2>2. \A r \in Sockets : r # s /\ handle[r] \in Handles => handle[r] # h
    BY DEF AnyInv, OwnedOnce
  <2>3. open \subseteq Handles
    BY DEF AnyInv, TypeOK
  <2> HIDE DEF h
  <2>4. NoLeak'
    <3>1. \A g \in open' : g \in open /\ g # h /\ g \in Handles
      BY <2>1, <2>3
    <3>2. ASSUME NEW g \in open'
          PROVE  (\E r \in Sockets : handle'[r] = g) \/ \E a \in accepting' : a.new = g
      <4>1. CASE \E r \in Sockets : handle[r] = g
        BY <2>1, <3>1, <4>1 DEF h
      <4>2. CASE \E a \in accepting : a.new = g
        <5>1. PICK a \in accepting : a.new = g
          BY <4>2
        <5>2. \E b \in Aborted(h) : b.new = a.new
          BY AbortedType DEF AnyInv
        <5> QED BY <2>1, <5>1, <5>2
      <4> QED BY <3>1, <4>1, <4>2 DEF CarefulInv, NoLeak
    <3> QED BY <3>2 DEF NoLeak
  <2>5. FamilyIsCurrent'
    <3> SUFFICES ASSUME NEW r \in Sockets, family'[r] # None
                 PROVE  handle'[r] \in open' /\ family'[r] = af'[handle'[r]]
      BY DEF FamilyIsCurrent
    <3>1. r # s /\ handle'[r] = handle[r] /\ family'[r] = family[r]
      BY <2>1
    <3>2. handle[r] \in open /\ family[r] = af[handle[r]]
      BY <3>1 DEF CarefulInv, FamilyIsCurrent
    <3> QED BY <2>1, <2>2, <2>3, <3>1, <3>2
  <2>6. FilledOnce'
    <3>1. ASSUME NEW a \in accepting', NEW c \in accepting'
          PROVE  handle'[a.into] \notin Handles /\ (a.into = c.into => a = c)
      <4>1. PICK b \in accepting : a.new = b.new /\ a.into = b.into
        BY <2>1, AbortedType DEF AnyInv
      <4>2. PICK d \in accepting : c.new = d.new /\ c.into = d.into
        BY <2>1, AbortedType DEF AnyInv
      <4>3. handle'[a.into] \notin Handles
        BY <1>i, <2>1, <4>1 DEF CarefulInv, FilledOnce
      <4>4. ASSUME a.into = c.into PROVE a.new = c.new
        BY <4>1, <4>2, <4>4 DEF CarefulInv, FilledOnce
      <4>5. a.new = c.new => a = c
        BY <2>1, AbortedType DEF AnyInv, OwnedOnce
      <4> QED BY <4>3, <4>4, <4>5
    <3> QED BY <3>1 DEF FilledOnce
  <2> QED BY <2>4, <2>5, <2>6 DEF CarefulInv
<1>2. ASSUME NEW s \in Sockets, MayOpen(s), SocketFails(s) \/ OpenedAndClosed(s) PROVE CarefulInv'
  <2>1. handle[s] \notin Handles
    BY <1>2 DEF MayOpen, Free
  <2>2. family[s] = None
    BY <2>1 DEF CarefulInv, FamilyIsCurrent, AnyInv, TypeOK
  <2>3. /\ UNCHANGED <<open, af, accepting>>
        /\ \A r \in Sockets : r # s => handle'[r] = handle[r] /\ family'[r] = family[r]
        /\ handle'[s] \notin Handles /\ family'[s] = None
    BY <1>2, <2>2 DEF SocketFails, OpenedAndClosed, kernel, AnyInv, TypeOK
  <2>4. open \subseteq Handles
    BY DEF AnyInv, TypeOK
  <2>5. NoLeak' /\ FamilyIsCurrent'
    BY <2>1, <2>3, <2>4 DEF CarefulInv, NoLeak, FamilyIsCurrent
  <2>6. FilledOnce'
    BY <1>i, <2>3 DEF CarefulInv, FilledOnce
  <2> QED BY <2>5, <2>6 DEF CarefulInv
<1>3. ASSUME NEW s \in Sockets, NEW f \in Families \cup {None}, NEW h \in Handles,
             MayOpen(s), NewHandle(h, f, s \in WithExecutor), handle' = [handle EXCEPT ![s] = h],
             family' \in {family, [family EXCEPT ![s] = f]}, accepting' = accepting
      PROVE  CarefulInv'
  <2>1. /\ handle[s] \notin Handles /\ \A a \in accepting : a.into # s
        /\ family[s] = None
    BY <1>3 DEF MayOpen, Free, CarefulInv, FamilyIsCurrent, AnyInv, TypeOK
  <2>2. /\ h \notin open /\ open' = open \cup {h} /\ open \subseteq Handles
        /\ \A g \in Handles : af'[g] = IF g = h THEN f ELSE af[g]
        /\ \A r \in Sockets : handle'[r] = IF r = s THEN h ELSE handle[r]
        /\ \A r \in Sockets : r # s => family'[r] = family[r]
        /\ family'[s] \in {None, f}
    BY <1>3, <2>1 DEF NewHandle, AnyInv, TypeOK
  <2>3. NoLeak'
    BY <1>3, <2>1, <2>2 DEF CarefulInv, NoLeak
  <2>4. FamilyIsCurrent'
    BY <2>2 DEF CarefulInv, FamilyIsCurrent
  <2>5. FilledOnce'
    BY <1>3, <1>i, <2>1, <2>2 DEF CarefulInv, FilledOnce
  <2> QED BY <2>3, <2>4, <2>5 DEF CarefulInv
<1>4. ASSUME NEW s \in Sockets, NEW f \in Families, NEW h \in Handles, OpenStep(s, f, h)
      PROVE  CarefulInv'
  BY <1>3, <1>4 DEF OpenStep, Opened
<1>5. ASSUME NEW s \in Sockets, NEW f \in Families \cup {None}, NEW h \in Handles, SetStep(s, f, h)
      PROVE  CarefulInv'
  BY <1>3, <1>5 DEF SetStep, SetHandle
<1>6. ASSUME NEW v \in Sockets, NEW s \in Sockets, AcceptAsync(v, s) PROVE CarefulInv'
  <2>1. /\ handle' = handle /\ handle[s] \notin Handles /\ \A a \in accepting : a.into # s
        /\ \A r \in Sockets : family'[r] = IF r = v THEN FamilyOf(v) ELSE family[r]
    BY <1>6 DEF AcceptAsync, MayOpen, Free, AnyInv, TypeOK
  <2>2. FamilyOf(v) # None => handle[v] \in open /\ FamilyOf(v) = af[handle[v]]
    BY DEF FamilyOf, CarefulInv, FamilyIsCurrent
  <2>3. open \subseteq Handles
    BY DEF AnyInv, TypeOK
  <2>4. CASE UNCHANGED <<kernel, accepting>>
    <3>1. NoLeak' /\ FilledOnce'
      BY <2>1, <2>4 DEF kernel, CarefulInv, NoLeak, FilledOnce
    <3>2. FamilyIsCurrent'
      BY <2>1, <2>2, <2>4 DEF kernel, CarefulInv, FamilyIsCurrent
    <3> QED BY <3>1, <3>2 DEF CarefulInv
  <2>5. ASSUME NEW h \in Handles, NewHandle(h, FamilyOf(v), FALSE),
               accepting' = accepting \cup
                 {[on |-> handle[v], new |-> h, into |-> s, status |-> "pending"]}
        PROVE  CarefulInv'
    <3> DEFINE b == [on |-> handle[v], new |-> h, into |-> s, status |-> "pending"]
    <3>1. b.new = h /\ b.into = s /\ accepting' = accepting \cup {b}
      BY <2>5
    <3>2. /\ h \notin open /\ open' = open \cup {h}
          /\ \A g \in open : af'[g] = af[g]
      BY <2>3, <2>5 DEF NewHandle, AnyInv, TypeOK
    <3> HIDE DEF b
    <3>3. NoLeak'
      BY <2>1, <3>1, <3>2 DEF CarefulInv, NoLeak
    <3>4. FamilyIsCurrent'
      BY <2>1, <2>2, <3>2 DEF CarefulInv, FamilyIsCurrent
    <3>5. FilledOnce'
      BY <2>1, <3>1 DEF CarefulInv, FilledOnce
    <3> QED BY <3>3, <3>4, <3>5 DEF CarefulInv
  <2> QED BY <1>6, <2>4, <2>5 DEF AcceptAsync
<1>7. ASSUME NEW a \in accepting, AcceptCompletes(a) PROVE CarefulInv'
  <2>1. PICK b : /\ b.new = a.new /\ b.into = a.into
                 /\ accepting' = (accepting \ {a}) \cup {b}
    BY <1>7, <1>i DEF AcceptCompletes, Accepts
  <2>2. UNCHANGED <<members, kernel>>
    BY <1>7 DEF AcceptCompletes
  <2>3. NoLeak' /\ FamilyIsCurrent'
    BY <2>1, <2>2 DEF members, kernel, CarefulInv, NoLeak, FamilyIsCurrent
  <2>4. FilledOnce'
    BY <2>1, <2>2 DEF members, kernel, CarefulInv, FilledOnce
  <2> QED BY <2>3, <2>4 DEF CarefulInv
<1>8. ASSUME NEW a \in accepting, AcceptCallback(a) PROVE CarefulInv'
  <2>1. accepting' = accepting \ {a} /\ family' = family /\ handle[a.into] \notin Handles
    BY <1>8 DEF AcceptCallback, members, CarefulInv, FilledOnce
  <2>2. \A r \in Sockets : handle[r] # a.new
    BY DEF AnyInv, OwnedOnce
  <2>3. open \subseteq Handles
    BY DEF AnyInv, TypeOK
  <2>4. CASE CloseHandle(a.new) /\ UNCHANGED members
    <3>1. /\ open' = open \ {a.new} /\ handle' = handle
          /\ \A g \in Handles : g # a.new => af'[g] = af[g]
      BY <2>4 DEF CloseHandle, members
    <3>2. NoLeak' /\ FilledOnce'
      BY <2>1, <3>1 DEF CarefulInv, NoLeak, FilledOnce
    <3>3. FamilyIsCurrent'
      BY <2>1, <2>2, <2>3, <3>1 DEF CarefulInv, FamilyIsCurrent
    <3> QED BY <3>2, <3>3 DEF CarefulInv
  <2>5. CASE handle' = [handle EXCEPT ![a.into] = a.new] /\ UNCHANGED <<open, af>>
    <3>1. \A r \in Sockets : handle'[r] = IF r = a.into THEN a.new ELSE handle[r]
      BY <2>5, <1>i DEF AnyInv, TypeOK
    <3>2. family[a.into] = None
      BY <1>i, <2>1, <2>3 DEF CarefulInv, FamilyIsCurrent
    <3>3. NoLeak'
      BY <1>i, <2>1, <2>3, <2>5, <3>1 DEF CarefulInv, NoLeak
    <3>4. FamilyIsCurrent' /\ FilledOnce'
      BY <1>i, <2>1, <2>5, <3>1, <3>2 DEF CarefulInv, FamilyIsCurrent, FilledOnce
    <3> QED BY <3>3, <3>4 DEF CarefulInv
  <2> QED BY <1>8, <2>4, <2>5 DEF AcceptCallback
<1>9. CASE UNCHANGED vars
  BY <1>9 DEF vars, members, kernel, CarefulInv, NoLeak, FamilyIsCurrent, FilledOnce
<1> QED BY Steps, <1>1, <1>2, <1>4, <1>5, <1>6, <1>7, <1>8, <1>9 DEF AnyInv

\* With careful user code both invariants hold.
THEOREM CarefulInvariant ==
  ASSUME Careful PROVE Spec => [](AnyInv /\ CarefulInv)
<1>1. Init => AnyInv /\ CarefulInv
  BY AnyInit, CarefulInit
<1>2. (AnyInv /\ CarefulInv) /\ [Next]_vars => (AnyInv /\ CarefulInv)'
  BY AnyStep, CarefulStep
<1> QED BY <1>1, <1>2, PTL DEF Spec

\* With careful user code no path of any operation leaks a handle.
THEOREM NothingLeaks ==
  ASSUME Careful PROVE Spec => []NoLeak
<1>1. CarefulInv => NoLeak
  BY DEF CarefulInv
<1> QED BY <1>1, CarefulInvariant, PTL

\* With careful user code a cached family is the one of the socket's handle.
THEOREM CachedFamilyIsCurrent ==
  ASSUME Careful PROVE Spec => []FamilyIsCurrent
<1>1. CarefulInv => FamilyIsCurrent
  BY DEF CarefulInv
<1> QED BY <1>1, CarefulInvariant, PTL

-----------------------------------------------------------------------------
(* Refinement                                                              *)

\* How a step changes the handles held and incoming.
LEMMA HeldChange ==
  ASSUME NEW s \in Sockets, NEW x, handle \in [Sockets -> Handles \cup {None, Invalid}],
         handle' = [handle EXCEPT ![s] = x]
  PROVE  Held' = [Held EXCEPT ![s] = {x} \cap Handles]
<1>1. \A r \in Sockets : handle'[r] = IF r = s THEN x ELSE handle[r]
  OBVIOUS
<1> QED BY <1>1, Zenon DEF Held

LEMMA IncomingSame ==
  ASSUME \A a \in accepting' : \E b \in accepting : a.new = b.new /\ a.into = b.into,
         \A b \in accepting : \E a \in accepting' : a.new = b.new /\ a.into = b.into
  PROVE  Incoming' = Incoming
<1>1. ASSUME NEW s \in Sockets
      PROVE  {a.new : a \in {b \in accepting' : b.into = s}} = {a.new : a \in {b \in accepting : b.into = s}}
  OBVIOUS
<1> QED BY <1>1 DEF Incoming

LEMMA IncomingGone ==
  ASSUME NEW a \in accepting, accepting' = accepting \ {a}, AnyInv
  PROVE  Incoming' = [Incoming EXCEPT ![a.into] = @ \ {a.new}]
<1>1. \A b \in accepting : b.new = a.new => b = a
  BY DEF AnyInv, OwnedOnce
<1>2. ASSUME NEW s \in Sockets
      PROVE  {c.new : c \in {b \in accepting' : b.into = s}}
             = IF s = a.into THEN {c.new : c \in {b \in accepting : b.into = s}} \ {a.new}
                             ELSE {c.new : c \in {b \in accepting : b.into = s}}
  BY <1>1
<1> QED BY <1>2 DEF Incoming

LEMMA IncomingNew ==
  ASSUME NEW s \in Sockets, NEW b, b.into = s, accepting' = accepting \cup {b}
  PROVE  Incoming' = [Incoming EXCEPT ![s] = @ \cup {b.new}]
<1>1. ASSUME NEW r \in Sockets
      PROVE  {c.new : c \in {d \in accepting' : d.into = r}}
             = IF r = s THEN {c.new : c \in {d \in accepting : d.into = r}} \cup {b.new}
                        ELSE {c.new : c \in {d \in accepting : d.into = r}}
  OBVIOUS
<1> QED BY <1>1 DEF Incoming

\* Every step of careful user code moves at most one handle, as the abstract
\* specification allows.
LEMMA StepRefines ==
  ASSUME Careful, AnyInv, CarefulInv, [Next]_vars
  PROVE  [Ownership!ANext]_(Ownership!avars)
<1> USE SocketAssumption
<1> DEFINE free == Handles \ open
<1>u. UNCHANGED <<free, Held, Incoming>> => UNCHANGED Ownership!avars
  BY DEF Ownership!avars
<1>t. /\ handle \in [Sockets -> Handles \cup {None, Invalid}] /\ open \subseteq Handles
      /\ \A a \in accepting : a.new \in Handles /\ a.into \in Sockets /\ a \in Accepts
  BY DEF AnyInv, TypeOK, Accepts
<1>s. \A s \in Sockets : Held[s] = {handle[s]} \cap Handles
  BY DEF Held
<1>1. ASSUME NEW s \in Sockets, Close(s) PROVE Ownership!ANext \/ UNCHANGED Ownership!avars
  <2>1. /\ open' = open \ {handle[s]} /\ accepting' = Aborted(handle[s])
        /\ handle' = [handle EXCEPT ![s] = None]
    BY <1>1 DEF Close, CloseHandle
  <2>2. Held' = [Held EXCEPT ![s] = {}]
    <3>1. {None} \cap Handles = {}
      OBVIOUS
    <3> QED BY <1>t, <2>1, <3>1, HeldChange
  <2>3. Incoming' = Incoming
    BY <2>1, AbortedType, IncomingSame DEF AnyInv
  <2>4. CASE handle[s] \in Handles
    <3>1. handle[s] \in Held[s] /\ free' = free \cup {handle[s]}
      BY <1>s, <2>1, <2>4
    <3> QED BY <2>2, <2>3, <2>4, <3>1 DEF Ownership!ANext, Ownership!Close
  <2>5. CASE handle[s] \notin Handles
    <3>1. free' = free /\ Held[s] = {}
      BY <1>s, <1>t, <2>1, <2>5
    <3>2. Held' = Held
      BY <2>2, <3>1 DEF Held
    <3> QED BY <1>u, <2>3, <3>1, <3>2
  <2> QED BY <2>4, <2>5
<1>2. ASSUME NEW s \in Sockets, MayOpen(s), SocketFails(s) \/ OpenedAndClosed(s)
      PROVE  UNCHANGED Ownership!avars
  <2>1. PICK x \in {None, Invalid} : handle' = [handle EXCEPT ![s] = x]
    BY <1>2 DEF SocketFails, OpenedAndClosed
  <2>2. open' = open /\ accepting' = accepting
    BY <1>2 DEF SocketFails, OpenedAndClosed, kernel
  <2>3. Held[s] = {} /\ {x} \cap Handles = {}
    BY <1>2, <1>s DEF MayOpen, Free
  <2>4. Held' = Held
    BY <1>t, <2>1, <2>3, HeldChange DEF Held
  <2> QED BY <1>u, <2>2, <2>4 DEF Incoming
<1>3. ASSUME NEW s \in Sockets, NEW h \in Handles, MayOpen(s), h \notin open, open' = open \cup {h},
             handle' = [handle EXCEPT ![s] = h], accepting' = accepting
      PROVE  Ownership!ANext
  <2>1. Held[s] = {} /\ h \in free /\ free' = free \ {h}
    BY <1>3, <1>s DEF MayOpen, Free
  <2>2. Held' = [Held EXCEPT ![s] = {h}]
    <3>1. {h} \cap Handles = {h}
      OBVIOUS
    <3> QED BY <1>3, <1>t, <3>1, HeldChange
  <2>3. Incoming' = Incoming
    BY <1>3 DEF Incoming
  <2> QED BY <2>1, <2>2, <2>3 DEF Ownership!ANext, Ownership!Create
<1>4. ASSUME NEW s \in Sockets, NEW f \in Families, NEW h \in Handles, OpenStep(s, f, h)
      PROVE  Ownership!ANext
  BY <1>3, <1>4 DEF OpenStep, Opened, NewHandle
<1>5. ASSUME NEW s \in Sockets, NEW f \in Families \cup {None}, NEW h \in Handles, SetStep(s, f, h)
      PROVE  Ownership!ANext
  BY <1>3, <1>5 DEF SetStep, SetHandle, NewHandle
<1>6. ASSUME NEW v \in Sockets, NEW s \in Sockets, AcceptAsync(v, s)
      PROVE  Ownership!ANext \/ UNCHANGED Ownership!avars
  <2>1. handle' = handle
    BY <1>6 DEF AcceptAsync
  <2>2. CASE UNCHANGED <<kernel, accepting>>
    BY <1>u, <2>1, <2>2 DEF kernel, Held, Incoming
  <2>3. ASSUME NEW h \in Handles, NewHandle(h, FamilyOf(v), FALSE),
               accepting' = accepting \cup
                 {[on |-> handle[v], new |-> h, into |-> s, status |-> "pending"]}
        PROVE  Ownership!ANext
    <3>1. Incoming' = [Incoming EXCEPT ![s] = @ \cup {h}]
      BY <2>3, IncomingNew
    <3>2. h \in free /\ free' = free \ {h}
      BY <2>3 DEF NewHandle
    <3>3. Held' = Held
      BY <2>1 DEF Held
    <3> QED BY <3>1, <3>2, <3>3 DEF Ownership!ANext, Ownership!Arrive
  <2> QED BY <1>6, <2>2, <2>3 DEF AcceptAsync
<1>7. ASSUME NEW a \in accepting, AcceptCompletes(a) PROVE UNCHANGED Ownership!avars
  <2>1. PICK b : /\ b.new = a.new /\ b.into = a.into
                 /\ accepting' = (accepting \ {a}) \cup {b}
    BY <1>7, <1>t DEF AcceptCompletes, Accepts
  <2>2. Incoming' = Incoming
    BY <2>1, IncomingSame
  <2> QED BY <1>7, <1>u, <2>2 DEF AcceptCompletes, members, kernel, Held
<1>8. ASSUME NEW a \in accepting, AcceptCallback(a) PROVE Ownership!ANext
  <2>1. accepting' = accepting \ {a} /\ a.into \in Sockets /\ a.new \in Handles
    BY <1>8, <1>t DEF AcceptCallback
  <2>2. Incoming' = [Incoming EXCEPT ![a.into] = @ \ {a.new}] /\ a.new \in Incoming[a.into]
    BY <2>1, IncomingGone DEF Incoming
  <2>3. CASE CloseHandle(a.new) /\ UNCHANGED members
    <3>1. free' = free \cup {a.new} /\ Held' = Held
      BY <2>1, <2>3 DEF CloseHandle, members, Held
    <3> QED BY <2>1, <2>2, <3>1 DEF Ownership!ANext, Ownership!Refuse
  <2>4. CASE handle' = [handle EXCEPT ![a.into] = a.new] /\ open' = open
    <3>1. Held[a.into] = {}
      BY <1>s, <2>1 DEF CarefulInv, FilledOnce
    <3>2. Held' = [Held EXCEPT ![a.into] = {a.new}]
      <4>1. {a.new} \cap Handles = {a.new}
        BY <2>1
      <4> QED BY <1>t, <2>1, <2>4, <4>1, HeldChange
    <3> QED BY <2>1, <2>2, <2>4, <3>1, <3>2 DEF Ownership!ANext, Ownership!Accept
  <2> QED BY <1>8, <2>3, <2>4 DEF AcceptCallback
<1>9. CASE UNCHANGED vars
  BY <1>9, <1>u DEF vars, members, kernel, Held, Incoming
<1> QED BY Steps, <1>1, <1>2, <1>4, <1>5, <1>6, <1>7, <1>8, <1>9 DEF AnyInv

\* With careful user code the sockets implement the ownership of handles.
THEOREM Refinement ==
  ASSUME Careful PROVE Spec => ImplementsOwnership
<1>1. Init => Ownership!AInit
  BY SocketAssumption DEF Init, Ownership!AInit, Held, Incoming
<1>2. (AnyInv /\ CarefulInv) /\ [Next]_vars => [Ownership!ANext]_(Ownership!avars)
  BY StepRefines
<1> QED BY <1>1, <1>2, CarefulInvariant, PTL DEF Spec, ImplementsOwnership, Ownership!ASpec
=============================================================================
