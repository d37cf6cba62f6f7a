---------------------------- MODULE Stream_proofs ----------------------------
(***************************************************************************)
(* Theorems about Stream, for all sets of calls, counts and widths: calls  *)
(* stay in their buffers however they overlap, and with one call at a time *)
(* on each side a successful read returns the next bytes of the stream,    *)
(* and the sockets are the byte stream of ByteStream.                      *)
(***************************************************************************)
EXTENDS Stream, TLAPS

\* Every transfer that is asked for, and every packet, belongs to one call,
\* whose state shows it.
Queues ==
  \A d \in Sides :
    /\ \A i \in 1..Len(asked[d]) : /\ state[asked[d][i]] = "asked" /\ Side(asked[d][i]) = d
                                   /\ \A j \in 1..Len(asked[d]) : asked[d][i] = asked[d][j] => i = j
    /\ \A i \in 1..Len(port[d]) : /\ state[port[d][i]] = "moved" /\ Side(port[d][i]) = d
                                  /\ port[d][i] \notin Sync
                                  /\ \A j \in 1..Len(port[d]) : port[d][i] = port[d][j] => i = j

\* What has been moved and what is left make up the count.
Budget ==
  \A x \in Calls :
    /\ state[x] = "idle" => offset[x] = 0
    /\ Active(x) => offset[x] + n[x] = count[x]
    /\ state[x] = "moved" /\ result[x] # None => result[x] <= n[x]
    /\ state[x] = "done" => offset[x] <= count[x] /\ (x \notin Once => offset[x] = count[x])
    /\ x \in Reads /\ state[x] # "idle" => buffer[x] \in [1..count[x] -> Byte \cup {None}]

AnyInv == TypeOK /\ Queues /\ Budget

\* One call at a time on each side, ...
OneAtATime ==
  \A x, y \in Calls : Active(x) /\ Active(y) /\ Side(x) = Side(y) => x = y

\* ... a read has all that was received since it was called, ...
Got(r) == offset[r] + IF state[r] = "moved" /\ result[r] # None THEN result[r] ELSE 0
UpToDate == \A r \in Reads : Active(r) => from[r] + Got(r) = received

\* ... and it has it in its buffer.
Content ==
  \A r \in Reads : state[r] # "idle" =>
    \A i \in 1..Got(r) : from[r] + i <= received /\ buffer[r][i] = sent[from[r] + i]

ExclusiveInv == OneAtATime /\ UpToDate /\ Content

-----------------------------------------------------------------------------
\* The forms a step can take.
NewState(x, st, q) ==
  /\ state' = [state EXCEPT ![x] = st]
  /\ asked' = [asked EXCEPT ![Side(x)] = IF st = "asked" THEN Append(q, x) ELSE q]

CallStep(x, c, st) ==
  /\ MayCall(x) /\ NewState(x, st, asked[Side(x)]) /\ (st = "done" => c = 0)
  /\ count' = [count EXCEPT ![x] = c] /\ n' = [n EXCEPT ![x] = c]
  /\ from' = [from EXCEPT ![x] = received]
  /\ buffer' = IF x \in Reads THEN [buffer EXCEPT ![x] = [i \in 1..c |-> None]] ELSE buffer
  /\ UNCHANGED <<offset, port, sent, received, result, link>>

TakeStep(x, st) ==
  /\ state[x] = "moved" /\ NewState(x, st, asked[Side(x)])
  /\ \/ result[x] = None /\ st = "failed" /\ UNCHANGED <<n, offset>>
     \/ /\ result[x] # None
        /\ n' = [n EXCEPT ![x] = @ - result[x]] /\ offset' = [offset EXCEPT ![x] = @ + result[x]]
        /\ st = "done" => x \in Once \/ n[x] = result[x]
  /\ \/ x \in Sync /\ UNCHANGED port
     \/ \E d \in Sides : /\ port[d] # <<>> /\ x = Head(port[d])
                         /\ port' = [port EXCEPT ![d] = Tail(@)]
  /\ UNCHANGED <<count, from, transport>>

LinkStep == UNCHANGED <<callVars, asked, port, sent, received, buffer, result>>
            /\ link' \in {"open", "closed", "broken"}

Outcomes == {"asked", "failed", "done"}

LEMMA AskForm ==
  ASSUME NEW x, NEW m, NEW q, Ask(x, m, q)
  PROVE  \E st \in {"asked", "failed"} : NewState(x, st, q)
BY DEF Ask, NewState

LEMMA SideIn ==
  ASSUME NEW x PROVE Side(x) \in Sides
BY DEF Side, Sides

LEMMA CallForm ==
  ASSUME TypeOK, NEW x \in Calls, NEW c \in Counts, Call(x, c)
  PROVE  \E st \in Outcomes : CallStep(x, c, st)
<1>1. CASE c = 0 /\ state' = [state EXCEPT ![x] = "done"] /\ UNCHANGED asked
  <2>1. asked' = [asked EXCEPT ![Side(x)] = asked[Side(x)]]
    BY <1>1, SideIn DEF TypeOK
  <2>2. NewState(x, "done", asked[Side(x)])
    BY <1>1, <2>1 DEF NewState
  <2> QED BY <1>1, <2>2 DEF Call, CallStep, Outcomes
<1>2. CASE Ask(x, c, asked[Side(x)])
  <2>1. PICK st \in {"asked", "failed"} : NewState(x, st, asked[Side(x)])
    BY <1>2, AskForm
  <2> QED BY <2>1 DEF Call, CallStep, Outcomes
<1> QED BY <1>1, <1>2 DEF Call

LEMMA TakeForm ==
  ASSUME TypeOK, NEW x \in Calls, state[x] = "moved", TakeResult(x),
         \/ x \in Sync /\ UNCHANGED port
         \/ \E d \in Sides : /\ port[d] # <<>> /\ x = Head(port[d])
                             /\ port' = [port EXCEPT ![d] = Tail(@)]
  PROVE  \E st \in Outcomes : TakeStep(x, st)
<1>1. CASE result[x] = None
  <2>1. asked' = [asked EXCEPT ![Side(x)] = asked[Side(x)]]
    BY <1>1, SideIn DEF TypeOK, TakeResult
  <2>2. NewState(x, "failed", asked[Side(x)])
    BY <1>1, <2>1 DEF TakeResult, NewState
  <2> QED BY <1>1, <2>2 DEF TakeResult, TakeStep, Outcomes
<1>2. CASE result[x] # None
  <2>1. Continue(x, result[x], asked[Side(x)]) /\ UNCHANGED <<count, from, transport>>
    BY <1>2 DEF TakeResult
  <2>2. \E st \in Outcomes : /\ NewState(x, st, asked[Side(x)])
                             /\ st = "done" => x \in Once \/ n[x] = result[x]
    <3>1. CASE x \in Once \/ n[x] = result[x]
      BY <2>1, <3>1 DEF Continue, NewState, Outcomes
    <3>2. CASE ~(x \in Once \/ n[x] = result[x])
      <4>1. Ask(x, n[x] - result[x], asked[Side(x)])
        BY <2>1, <3>2 DEF Continue
      <4> QED BY <4>1, AskForm DEF Outcomes
    <3> QED BY <3>1, <3>2
  <2> QED BY <1>2, <2>1, <2>2 DEF Continue, TakeStep
<1> QED BY <1>1, <1>2

LEMMA Steps ==
  ASSUME TypeOK, Queues, [Next]_vars
  PROVE  \/ \E x \in Calls, c \in Counts, st \in Outcomes : CallStep(x, c, st)
         \/ Receive \/ Send
         \/ \E d \in Sides : Fail(d)
         \/ \E x \in Calls, st \in Outcomes : TakeStep(x, st)
         \/ LinkStep
<1> USE StreamAssumption
<1>1. ASSUME NEW d \in Sides, Dispatch(d)
      PROVE  \E x \in Calls, st \in Outcomes : TakeStep(x, st)
  <2>1. /\ Head(port[d]) \in Calls /\ Head(port[d]) = port[d][1] /\ 1 \in 1..Len(port[d])
        /\ port[d] # <<>>
    BY <1>1 DEF Dispatch, TypeOK
  <2>2. state[Head(port[d])] = "moved"
    BY <2>1 DEF Queues
  <2> QED BY <1>1, <2>1, <2>2, TakeForm DEF Dispatch
<1>2. ASSUME NEW x \in Sync, Resume(x)
      PROVE  \E y \in Calls, st \in Outcomes : TakeStep(y, st)
  <2>1. x \in Calls
    BY DEF Calls
  <2> QED BY <1>2, <2>1, TakeForm DEF Resume
<1>3. ASSUME WriterCloses \/ Break PROVE LinkStep
  BY <1>3 DEF WriterCloses, Break, LinkStep
<1>4. CASE UNCHANGED vars
  BY <1>4 DEF vars, callVars, transport, LinkStep, TypeOK
<1>5. CASE Next
  BY <1>1, <1>2, <1>3, <1>5, CallForm DEF Next
<1> QED BY <1>4, <1>5

-----------------------------------------------------------------------------
(* Calls stay in their buffers                                             *)

LEMMA LengthFits ==
  ASSUME NEW m \in Nat PROVE Length(m) \in 0..m
BY StreamAssumption DEF Length

LEMMA Elements ==
  ASSUME TypeOK, NEW d \in Sides
  PROVE  /\ asked[d] \in Seq(Calls) /\ port[d] \in Seq(Calls)
         /\ \A i \in 1..Len(asked[d]) : asked[d][i] \in Calls
         /\ \A i \in 1..Len(port[d]) : port[d][i] \in Calls
<1>1. asked[d] \in Seq(Calls) /\ port[d] \in Seq(Calls)
  BY DEF TypeOK
<1> QED BY <1>1

LEMMA Distinct ==
  ASSUME Queues, NEW d \in Sides, NEW i \in 1..Len(asked[d]), NEW j \in 1..Len(asked[d]),
         asked[d][i] = asked[d][j]
  PROVE  i = j
BY DEF Queues

LEMMA DistinctPort ==
  ASSUME Queues, NEW d \in Sides, NEW i \in 1..Len(port[d])
  PROVE  /\ state[port[d][i]] = "moved" /\ Side(port[d][i]) = d /\ port[d][i] \notin Sync
         /\ \A j \in 1..Len(port[d]) : port[d][i] = port[d][j] => i = j
BY DEF Queues

\* The call whose transfer is the oldest of its side.
LEMMA Oldest ==
  ASSUME TypeOK, Queues, NEW d \in Sides, asked[d] # <<>>
  PROVE  /\ Head(asked[d]) \in Calls /\ state[Head(asked[d])] = "asked"
         /\ Side(Head(asked[d])) = d
         /\ \A i \in 1..Len(Tail(asked[d])) :
              /\ Tail(asked[d])[i] = asked[d][i + 1] /\ i + 1 \in 1..Len(asked[d])
              /\ Tail(asked[d])[i] # Head(asked[d])
<1>1. asked[d] \in Seq(Calls) /\ Len(asked[d]) > 0 /\ Head(asked[d]) = asked[d][1] /\ 1 \in 1..Len(asked[d])
  BY DEF TypeOK
<1>2. \A i \in 1..Len(Tail(asked[d])) :
        Tail(asked[d])[i] = asked[d][i + 1] /\ i + 1 \in 1..Len(asked[d]) /\ i + 1 # 1
  BY <1>1
<1> QED BY <1>1, <1>2 DEF Queues

LEMMA SideRead ==
  ASSUME NEW x \in Calls PROVE (Side(x) = "read" <=> x \in Reads) /\ (Side(x) = "write" => x \in Writes)
BY DEF Side, Calls

\* What the end of a transfer does to the calls.
LEMMA MovedEffect ==
  ASSUME TypeOK, Queues, NEW d \in Sides, NEW k \in Nat \cup {None}, asked[d] # <<>>, Moved(d, k)
  PROVE  /\ state' = [state EXCEPT ![Head(asked[d])] = "moved"]
         /\ result' = [result EXCEPT ![Head(asked[d])] = k]
         /\ UNCHANGED <<count, n, offset, from, link>>
         /\ state' \in [Calls -> {"idle", "asked", "moved", "done", "failed"}]
         /\ result' \in [Calls -> Nat \cup {None}]
         /\ asked' \in [Sides -> Seq(Calls)] /\ port' \in [Sides -> Seq(Calls)]
         /\ Queues'
<1> DEFINE x == Head(asked[d])
<1>1. /\ state' = [state EXCEPT ![x] = "moved"] /\ result' = [result EXCEPT ![x] = k]
      /\ asked' = [asked EXCEPT ![d] = Tail(asked[d])]
      /\ port' = IF x \in Sync THEN port ELSE [port EXCEPT ![d] = Append(port[d], x)]
      /\ UNCHANGED <<count, n, offset, from, link>>
  BY DEF Moved, TypeOK
<1>2. x \in Calls /\ state[x] = "asked" /\ Side(x) = d
  BY Oldest
<1>3. \A y \in Calls : state'[y] = IF y = x THEN "moved" ELSE state[y]
  BY <1>1, <1>2 DEF TypeOK
<1>4. /\ state' \in [Calls -> {"idle", "asked", "moved", "done", "failed"}]
      /\ result' \in [Calls -> Nat \cup {None}]
  BY <1>1, <1>2 DEF TypeOK
<1>5. asked' \in [Sides -> Seq(Calls)]
  BY <1>1 DEF TypeOK
<1>6. port' \in [Sides -> Seq(Calls)]
  BY <1>1, <1>2 DEF TypeOK
<1>7. ASSUME NEW e \in Sides, NEW i \in 1..Len(asked'[e])
      PROVE  /\ state'[asked'[e][i]] = "asked" /\ Side(asked'[e][i]) = e
             /\ \A j \in 1..Len(asked'[e]) : asked'[e][i] = asked'[e][j] => i = j
  <2>1. CASE e = d
    <3>1. asked'[e] = Tail(asked[d])
      BY <1>1, <2>1 DEF TypeOK
    <3>2. \A j \in 1..Len(asked'[e]) : /\ asked'[e][j] = asked[d][j + 1] /\ j + 1 \in 1..Len(asked[d])
                                       /\ asked'[e][j] # x
      BY <3>1, Oldest
    <3>3. asked'[e][i] \in Calls
      BY <3>2, Elements
    <3>4. state'[asked'[e][i]] = "asked" /\ Side(asked'[e][i]) = e
      BY <1>3, <2>1, <3>2, <3>3 DEF Queues
    <3>5. asked[d] \in Seq(Calls) /\ asked[d] # <<>> /\ Len(asked'[e]) = Len(asked[d]) - 1
      BY <3>1, Elements
    <3>6. \A j \in 1..Len(asked'[e]) : asked'[e][i] = asked'[e][j] => i + 1 = j + 1
      BY <3>2, Distinct
    <3> QED BY <3>4, <3>5, <3>6
  <2>2. CASE e # d
    <3>1. asked'[e] = asked[e]
      BY <1>1, <2>2 DEF TypeOK
    <3>2. asked[e][i] \in Calls /\ state[asked[e][i]] = "asked" /\ Side(asked[e][i]) = e
      BY <3>1, Elements DEF Queues
    <3>3. asked[e][i] # x
      BY <1>2, <2>2, <3>2
    <3> QED BY <1>3, <3>1, <3>2, <3>3 DEF Queues
  <2> QED BY <2>1, <2>2
<1>8. ASSUME NEW e \in Sides, NEW i \in 1..Len(port'[e])
      PROVE  /\ state'[port'[e][i]] = "moved" /\ Side(port'[e][i]) = e /\ port'[e][i] \notin Sync
             /\ \A j \in 1..Len(port'[e]) : port'[e][i] = port'[e][j] => i = j
  <2>1. \A j \in 1..Len(port[e]) : /\ port[e][j] \in Calls /\ state[port[e][j]] = "moved"
                                   /\ Side(port[e][j]) = e /\ port[e][j] \notin Sync /\ port[e][j] # x
    BY <1>2, Elements DEF Queues
  <2>2. CASE e # d \/ x \in Sync
    <3>1. port'[e] = port[e]
      BY <1>1, <2>2 DEF TypeOK
    <3> QED BY <1>3, <2>1, <3>1 DEF Queues
  <2>3. CASE e = d /\ x \notin Sync
    <3>1. port'[e] = Append(port[e], x) /\ port[e] \in Seq(Calls)
      BY <1>1, <2>3 DEF TypeOK
    <3>2. Len(port'[e]) = Len(port[e]) + 1
      BY <3>1
    <3>3. \A j \in 1..Len(port'[e]) : port'[e][j] = IF j \in 1..Len(port[e]) THEN port[e][j] ELSE x
      BY <3>1, <3>2
    <3>4. state'[port'[e][i]] = "moved" /\ Side(port'[e][i]) = e /\ port'[e][i] \notin Sync
      BY <1>2, <1>3, <2>1, <2>3, <3>3
    <3>5. \A j \in 1..Len(port'[e]) : port'[e][i] = port'[e][j] => i = j
      BY <2>1, <3>1, <3>2, <3>3 DEF Queues
    <3> QED BY <3>4, <3>5
  <2> QED BY <2>2, <2>3
<1>9. Queues'
  BY <1>7, <1>8 DEF Queues
<1> QED BY <1>1, <1>4, <1>5, <1>6, <1>9

\* What asking for a transfer, or ending the call, does to the queues, for a
\* call that is in neither.
LEMMA NewStateEffect ==
  ASSUME TypeOK, Queues, NEW x \in Calls, NEW st \in Outcomes, state[x] \notin {"asked"},
         NewState(x, st, asked[Side(x)]), port' \in [Sides -> Seq(Calls)],
         \A d \in Sides : \A i \in 1..Len(port'[d]) :
            /\ port'[d][i] \in Calls /\ port'[d][i] # x
            /\ state[port'[d][i]] = "moved" /\ Side(port'[d][i]) = d /\ port'[d][i] \notin Sync
            /\ \A j \in 1..Len(port'[d]) : port'[d][i] = port'[d][j] => i = j
  PROVE  /\ state' \in [Calls -> {"idle", "asked", "moved", "done", "failed"}]
         /\ asked' \in [Sides -> Seq(Calls)]
         /\ \A y \in Calls : state'[y] = IF y = x THEN st ELSE state[y]
         /\ Queues'
<1>1. /\ state' \in [Calls -> {"idle", "asked", "moved", "done", "failed"}]
      /\ \A y \in Calls : state'[y] = IF y = x THEN st ELSE state[y]
  BY DEF NewState, TypeOK, Outcomes
<1>2. \A d \in Sides : asked'[d] = IF d = Side(x) /\ st = "asked" THEN Append(asked[d], x) ELSE asked[d]
  BY SideIn DEF NewState, TypeOK
<1>3. asked' \in [Sides -> Seq(Calls)]
  BY SideIn DEF NewState, TypeOK
<1>4. ASSUME NEW d \in Sides, NEW i \in 1..Len(asked'[d])
      PROVE  /\ state'[asked'[d][i]] = "asked" /\ Side(asked'[d][i]) = d
             /\ \A j \in 1..Len(asked'[d]) : asked'[d][i] = asked'[d][j] => i = j
  <2>1. \A j \in 1..Len(asked[d]) : /\ asked[d][j] \in Calls /\ asked[d][j] # x
                                    /\ state[asked[d][j]] = "asked" /\ Side(asked[d][j]) = d
    BY Elements DEF Queues
  <2>2. CASE d = Side(x) /\ st = "asked"
    <3>1. asked'[d] = Append(asked[d], x) /\ asked[d] \in Seq(Calls)
      BY <1>2, <2>2 DEF TypeOK
    <3>2. Len(asked'[d]) = Len(asked[d]) + 1
      BY <3>1
    <3>3. \A j \in 1..Len(asked'[d]) : asked'[d][j] = IF j \in 1..Len(asked[d]) THEN asked[d][j] ELSE x
      BY <3>1, <3>2
    <3>4. state'[asked'[d][i]] = "asked" /\ Side(asked'[d][i]) = d
      BY <1>1, <2>1, <2>2, <3>3
    <3>5. \A j \in 1..Len(asked'[d]) : asked'[d][i] = asked'[d][j] => i = j
      BY <2>1, <3>1, <3>2, <3>3 DEF Queues
    <3> QED BY <3>4, <3>5
  <2>3. CASE ~(d = Side(x) /\ st = "asked")
    <3>1. asked'[d] = asked[d]
      BY <1>2, <2>3
    <3>2. state'[asked'[d][i]] = "asked" /\ Side(asked'[d][i]) = d
      BY <1>1, <2>1, <3>1
    <3> QED BY <3>1, <3>2, Distinct
  <2> QED BY <2>2, <2>3
<1>5. Queues'
  BY <1>1, <1>4 DEF Queues
<1> QED BY <1>1, <1>3, <1>5

LEMMA AnyCall ==
  ASSUME AnyInv, NEW x \in Calls, NEW c \in Counts, NEW st \in Outcomes, CallStep(x, c, st)
  PROVE  AnyInv'
<1> USE StreamAssumption
<1>1. /\ state[x] = "idle" /\ NewState(x, st, asked[Side(x)]) /\ c \in Nat
      /\ count' = [count EXCEPT ![x] = c] /\ n' = [n EXCEPT ![x] = c]
      /\ from' = [from EXCEPT ![x] = received]
      /\ buffer' = IF x \in Reads THEN [buffer EXCEPT ![x] = [i \in 1..c |-> None]] ELSE buffer
      /\ UNCHANGED <<offset, port, sent, received, result, link>>
      /\ st = "done" => c = 0
  BY DEF CallStep, MayCall
<1>2. /\ state' \in [Calls -> {"idle", "asked", "moved", "done", "failed"}]
      /\ asked' \in [Sides -> Seq(Calls)]
      /\ \A y \in Calls : state'[y] = IF y = x THEN st ELSE state[y]
      /\ Queues'
  <2>1. port' \in [Sides -> Seq(Calls)]
    BY <1>1 DEF AnyInv, TypeOK
  <2>2. ASSUME NEW d \in Sides, NEW i \in 1..Len(port'[d])
        PROVE  /\ port'[d][i] \in Calls /\ port'[d][i] # x
               /\ state[port'[d][i]] = "moved" /\ Side(port'[d][i]) = d /\ port'[d][i] \notin Sync
               /\ \A j \in 1..Len(port'[d]) : port'[d][i] = port'[d][j] => i = j
    <3>1. port'[d] = port[d]
      BY <1>1
    <3>2. port[d][i] \in Calls
      BY <3>1, Elements DEF AnyInv
    <3>3. /\ state[port[d][i]] = "moved" /\ Side(port[d][i]) = d /\ port[d][i] \notin Sync
          /\ \A j \in 1..Len(port[d]) : port[d][i] = port[d][j] => i = j
      BY <3>1, DistinctPort DEF AnyInv
    <3>4. port[d][i] # x
      BY <1>1, <3>3
    <3> QED BY <3>1, <3>2, <3>3, <3>4
  <2>3. TypeOK /\ Queues /\ state[x] # "asked" /\ NewState(x, st, asked[Side(x)])
    BY <1>1 DEF AnyInv
  <2> QED BY <2>1, <2>2, <2>3, NewStateEffect
<1>3. [i \in 1..c |-> None] \in Seq(Byte \cup {None})
  BY <1>1
<1>4. TypeOK'
  <2>1. buffer' \in [Reads -> Seq(Byte \cup {None})]
    BY <1>1, <1>3 DEF AnyInv, TypeOK
  <2>2. count' \in [Calls -> Counts \cup {0}] /\ n' \in [Calls -> Nat] /\ from' \in [Calls -> Nat]
    BY <1>1 DEF AnyInv, TypeOK
  <2> QED BY <1>1, <1>2, <2>1, <2>2 DEF AnyInv, TypeOK
<1>5. Budget'
  <2>1. ASSUME NEW y \in Calls, y # x
        PROVE  /\ state'[y] = state[y] /\ offset'[y] = offset[y] /\ n'[y] = n[y]
               /\ count'[y] = count[y] /\ result'[y] = result[y] /\ (y \in Reads => buffer'[y] = buffer[y])
    BY <1>1, <1>2, <2>1 DEF AnyInv, TypeOK
  <2>2. /\ state'[x] = st /\ offset'[x] = 0 /\ n'[x] = c /\ count'[x] = c
        /\ x \in Reads => buffer'[x] = [i \in 1..c |-> None]
    BY <1>1, <1>2 DEF AnyInv, TypeOK, Budget
  <2>3. ASSUME NEW y \in Calls
        PROVE  /\ state'[y] = "idle" => offset'[y] = 0
               /\ state'[y] \in {"asked", "moved"} => offset'[y] + n'[y] = count'[y]
               /\ state'[y] = "moved" /\ result'[y] # None => result'[y] <= n'[y]
               /\ state'[y] = "done" => offset'[y] <= count'[y] /\ (y \notin Once => offset'[y] = count'[y])
               /\ y \in Reads /\ state'[y] # "idle" => buffer'[y] \in [1..count'[y] -> Byte \cup {None}]
    <3>1. CASE y = x
      BY <1>1, <2>2, <3>1 DEF Outcomes
    <3>2. CASE y # x
      BY <2>1, <3>2 DEF AnyInv, Budget, Active
    <3> QED BY <3>1, <3>2
  <2> QED BY <2>3 DEF Budget, Active
<1> QED BY <1>2, <1>4, <1>5 DEF AnyInv

\* A transfer of k bytes, or a failed one, keeps the budget.
LEMMA MovedBudget ==
  ASSUME AnyInv, NEW d \in Sides, NEW k \in Nat \cup {None}, asked[d] # <<>>, Moved(d, k),
         k # None => k <= n[Head(asked[d])],
         \A r \in Reads : r # Head(asked[d]) => buffer'[r] = buffer[r],
         Head(asked[d]) \in Reads =>
            buffer'[Head(asked[d])] \in [1..count[Head(asked[d])] -> Byte \cup {None}]
  PROVE  Budget'
<1> DEFINE x == Head(asked[d])
<1>1. x \in Calls /\ state[x] = "asked"
  BY Oldest DEF AnyInv
<1>2. /\ \A y \in Calls : state'[y] = IF y = x THEN "moved" ELSE state[y]
      /\ \A y \in Calls : result'[y] = IF y = x THEN k ELSE result[y]
      /\ UNCHANGED <<count, n, offset>>
  <2>1. /\ state' = [state EXCEPT ![x] = "moved"] /\ result' = [result EXCEPT ![x] = k]
        /\ UNCHANGED <<count, n, offset>>
    BY MovedEffect DEF AnyInv
  <2> QED BY <2>1 DEF AnyInv, TypeOK
<1>4. k # None => k <= n[x]
  OBVIOUS
<1>5. /\ \A r \in Reads : r # x => buffer'[r] = buffer[r]
      /\ x \in Reads => buffer'[x] \in [1..count[x] -> Byte \cup {None}]
  OBVIOUS
<1> HIDE DEF x
<1>3. ASSUME NEW y \in Calls
      PROVE  /\ state'[y] = "idle" => offset'[y] = 0
             /\ state'[y] \in {"asked", "moved"} => offset'[y] + n'[y] = count'[y]
             /\ state'[y] = "moved" /\ result'[y] # None => result'[y] <= n'[y]
             /\ state'[y] = "done" => offset'[y] <= count'[y] /\ (y \notin Once => offset'[y] = count'[y])
             /\ y \in Reads /\ state'[y] # "idle" => buffer'[y] \in [1..count'[y] -> Byte \cup {None}]
  <2>1. CASE y = x
    <3>1. offset[x] + n[x] = count[x]
      BY <1>1 DEF AnyInv, Budget, Active
    <3> QED BY <1>1, <1>2, <1>4, <1>5, <2>1, <3>1
  <2>2. CASE y # x
    BY <1>2, <1>5, <2>2 DEF AnyInv, Budget, Active
  <2> QED BY <2>1, <2>2
<1> QED BY <1>3 DEF Budget, Active

\* What Receive and Send do, in terms of the call they serve.
LEMMA ReceiveEffect ==
  ASSUME AnyInv, Receive
  PROVE  \E k \in Nat : LET r == Head(asked["read"]) IN
    /\ asked["read"] # <<>> /\ r \in Reads /\ r \in Calls /\ state[r] = "asked"
    /\ k <= n[r] /\ received + k <= Len(sent)
    /\ buffer' = [buffer EXCEPT ![r] = [i \in 1..count[r] |->
         IF i \in offset[r]+1 .. offset[r]+k THEN sent[received + i - offset[r]] ELSE buffer[r][i]]]
    /\ received' = received + k /\ sent' = sent /\ Moved("read", k)
<1> DEFINE r == Head(asked["read"])
<1>1. asked["read"] # <<>> /\ "read" \in Sides
  BY DEF Receive, Sides
<1>2. r \in Calls /\ state[r] = "asked" /\ r \in Reads
  BY <1>1, Oldest, SideRead DEF AnyInv
<1>3. PICK k \in Receivable(r) :
        /\ buffer' = [buffer EXCEPT ![r] = [i \in DOMAIN @ |->
                IF i \in offset[r]+1 .. offset[r]+k THEN sent[received + i - offset[r]]
                                                    ELSE @[i]]]
        /\ received' = received + k /\ Moved("read", k) /\ sent' = sent
  BY DEF Receive
<1>4. DOMAIN buffer[r] = 1..count[r]
  BY <1>2 DEF AnyInv, Budget
<1>5. n[r] \in Nat /\ received \in 0..Len(sent) /\ Len(sent) \in Nat /\ sent \in Seq(Byte)
  BY <1>2 DEF AnyInv, TypeOK
<1>6. Length(n[r]) \in 0..n[r]
  BY <1>5, LengthFits
<1>7. k \in Nat /\ k <= n[r] /\ received + k <= Len(sent)
  BY <1>5, <1>6 DEF Receivable, InFlight
<1>8. buffer' = [buffer EXCEPT ![r] = [i \in 1..count[r] |->
         IF i \in offset[r]+1 .. offset[r]+k THEN sent[received + i - offset[r]] ELSE buffer[r][i]]]
  BY <1>2, <1>3, <1>4 DEF AnyInv, TypeOK
<1> QED BY <1>1, <1>2, <1>3, <1>7, <1>8

LEMMA SendEffect ==
  ASSUME AnyInv, Send
  PROVE  \E k \in Nat : LET w == Head(asked["write"]) IN
    /\ asked["write"] # <<>> /\ w \in Writes /\ w \in Calls /\ state[w] = "asked"
    /\ k <= n[w]
    /\ sent' = sent \o [i \in 1..k |-> <<w, offset[w] + i>>]
    /\ UNCHANGED <<received, buffer>> /\ Moved("write", k)
<1> DEFINE w == Head(asked["write"])
<1>1. asked["write"] # <<>> /\ "write" \in Sides
  BY DEF Send, Sides
<1>2. w \in Calls /\ state[w] = "asked" /\ w \in Writes
  BY <1>1, Oldest, SideRead DEF AnyInv
<1>3. PICK k \in Sendable(w) :
        sent' = sent \o [i \in 1..k |-> <<w, offset[w] + i>>] /\ Moved("write", k)
  BY DEF Send
<1>4. n[w] \in Nat
  BY <1>2 DEF AnyInv, TypeOK
<1>5. k \in Nat /\ k <= n[w]
  BY <1>4, LengthFits DEF Sendable
<1> QED BY <1>1, <1>2, <1>3, <1>5 DEF Send

LEMMA AnyReceive ==
  ASSUME AnyInv, Receive PROVE AnyInv'
<1> DEFINE r == Head(asked["read"])
<1>1. PICK k \in Nat :
        /\ asked["read"] # <<>> /\ r \in Reads /\ r \in Calls /\ state[r] = "asked"
        /\ k <= n[r] /\ received + k <= Len(sent)
        /\ buffer' = [buffer EXCEPT ![r] = [i \in 1..count[r] |->
             IF i \in offset[r]+1 .. offset[r]+k THEN sent[received + i - offset[r]] ELSE buffer[r][i]]]
        /\ received' = received + k /\ sent' = sent /\ Moved("read", k)
  BY ReceiveEffect
<1>2. /\ received \in Nat /\ Len(sent) \in Nat /\ received <= Len(sent) /\ sent \in Seq(Byte)
      /\ offset[r] \in Nat /\ count[r] \in Nat
  <2>1. /\ received \in 0..Len(sent) /\ sent \in Seq(Byte)
        /\ offset[r] \in Nat /\ count[r] \in Counts \cup {0}
    BY <1>1 DEF AnyInv, TypeOK
  <2>2. Len(sent) \in Nat
    BY <2>1
  <2>3. count[r] \in Nat
    <3>1. Counts \subseteq Nat
      BY StreamAssumption
    <3>2. \A c \in Counts \cup {0} : c \in Nat
      BY <3>1
    <3> QED BY <2>1, <3>2
  <2> QED BY <2>1, <2>2, <2>3
<1>3. \A i \in offset[r]+1 .. offset[r]+k : sent[received + i - offset[r]] \in Byte
  <2>1. ASSUME NEW o \in Nat, NEW l \in Nat, NEW v \in Nat, v + k <= l, NEW i \in o+1 .. o+k
        PROVE  v + i - o \in 1..l
    BY <2>1
  <2>2. ASSUME NEW i \in offset[r]+1 .. offset[r]+k PROVE received + i - offset[r] \in 1..Len(sent)
    <3> HIDE DEF r
    <3> QED BY <1>1, <1>2, <2>1
  <2> QED BY <1>2, <2>2
<1>4. buffer[r] \in [1..count[r] -> Byte \cup {None}]
  BY <1>1 DEF AnyInv, Budget
<1>5. /\ buffer'[r] \in [1..count[r] -> Byte \cup {None}]
      /\ \A q \in Reads : q # r => buffer'[q] = buffer[q]
  BY <1>1, <1>3, <1>4 DEF AnyInv, TypeOK
<1>6. "read" \in Sides
  BY DEF Sides
<1>7. Budget'
  BY <1>1, <1>5, <1>6, MovedBudget
<1>8. buffer' \in [Reads -> Seq(Byte \cup {None})]
  <2>1. [i \in 1..count[r] |->
             IF i \in offset[r]+1 .. offset[r]+k THEN sent[received + i - offset[r]] ELSE buffer[r][i]]
        \in Seq(Byte \cup {None})
    <3>1. ASSUME NEW c \in Nat, NEW f \in [1..c -> Byte \cup {None}] PROVE f \in Seq(Byte \cup {None})
      BY <3>1
    <3>2. [i \in 1..count[r] |->
             IF i \in offset[r]+1 .. offset[r]+k THEN sent[received + i - offset[r]] ELSE buffer[r][i]]
          \in [1..count[r] -> Byte \cup {None}]
      BY <1>3, <1>4
    <3> QED BY <1>2, <3>1, <3>2
  <2> QED BY <1>1, <2>1 DEF AnyInv, TypeOK
<1>9. received' \in 0..Len(sent')
  BY <1>1, <1>2
<1> HIDE DEF r
<1>10. TypeOK' /\ Queues'
  BY <1>1, <1>6, <1>8, <1>9, MovedEffect DEF AnyInv, TypeOK
<1> QED BY <1>7, <1>10 DEF AnyInv

LEMMA AnySend ==
  ASSUME AnyInv, Send PROVE AnyInv'
<1> DEFINE w == Head(asked["write"])
<1>1. PICK k \in Nat :
        /\ asked["write"] # <<>> /\ w \in Writes /\ w \in Calls /\ state[w] = "asked"
        /\ k <= n[w]
        /\ sent' = sent \o [i \in 1..k |-> <<w, offset[w] + i>>]
        /\ UNCHANGED <<received, buffer>> /\ Moved("write", k)
  BY SendEffect
<1>2. sent' \in Seq(Byte) /\ Len(sent') = Len(sent) + k /\ sent \in Seq(Byte)
  <2>1. sent \in Seq(Byte) /\ offset[w] \in Nat
    BY <1>1 DEF AnyInv, TypeOK
  <2>2. [i \in 1..k |-> <<w, offset[w] + i>>] \in Seq(Byte)
    BY <1>1, <2>1 DEF Byte
  <2> QED BY <1>1, <2>1, <2>2
<1>3. received' \in 0..Len(sent')
  BY <1>1, <1>2 DEF AnyInv, TypeOK
<1>4. "write" \in Sides /\ w \notin Reads
  BY <1>1, StreamAssumption DEF Sides
<1>5. Budget'
  BY <1>1, <1>4, MovedBudget
<1> HIDE DEF w
<1>6. TypeOK' /\ Queues'
  BY <1>1, <1>2, <1>3, <1>4, MovedEffect DEF AnyInv, TypeOK
<1> QED BY <1>5, <1>6 DEF AnyInv

LEMMA AnyFail ==
  ASSUME AnyInv, NEW d \in Sides, Fail(d) PROVE AnyInv'
<1>1. asked[d] # <<>> /\ Moved(d, None) /\ UNCHANGED <<sent, received, buffer>>
  BY DEF Fail
<1>2. Head(asked[d]) \in Calls /\ state[Head(asked[d])] = "asked"
  BY <1>1, Oldest DEF AnyInv
<1>3. Head(asked[d]) \in Reads =>
        buffer'[Head(asked[d])] \in [1..count[Head(asked[d])] -> Byte \cup {None}]
  BY <1>1, <1>2 DEF AnyInv, Budget
<1>4. Budget'
  BY <1>1, <1>3, MovedBudget
<1>5. TypeOK' /\ Queues'
  BY <1>1, MovedEffect DEF AnyInv, TypeOK
<1> QED BY <1>4, <1>5 DEF AnyInv

LEMMA AnyTake ==
  ASSUME AnyInv, NEW x \in Calls, NEW st \in Outcomes, TakeStep(x, st) PROVE AnyInv'
<1>1. /\ state[x] = "moved" /\ NewState(x, st, asked[Side(x)])
      /\ UNCHANGED <<count, from, sent, received, buffer, result, link>>
  BY DEF TakeStep, transport
<1>2. /\ port' \in [Sides -> Seq(Calls)]
      /\ \A d \in Sides : \A i \in 1..Len(port'[d]) :
            /\ port'[d][i] \in Calls /\ port'[d][i] # x
            /\ state[port'[d][i]] = "moved" /\ Side(port'[d][i]) = d /\ port'[d][i] \notin Sync
            /\ \A j \in 1..Len(port'[d]) : port'[d][i] = port'[d][j] => i = j
  <2>1. CASE x \in Sync /\ UNCHANGED port
    <3>1. port' = port /\ port \in [Sides -> Seq(Calls)]
      BY <2>1 DEF AnyInv, TypeOK
    <3>2. ASSUME NEW d \in Sides, NEW i \in 1..Len(port[d])
          PROVE  /\ port[d][i] \in Calls /\ port[d][i] # x
                 /\ state[port[d][i]] = "moved" /\ Side(port[d][i]) = d /\ port[d][i] \notin Sync
                 /\ \A j \in 1..Len(port[d]) : port[d][i] = port[d][j] => i = j
      <4>1. port[d][i] \in Calls
        BY Elements DEF AnyInv
      <4> QED BY <2>1, <4>1, DistinctPort DEF AnyInv
    <3> QED BY <3>1, <3>2
  <2>2. ASSUME NEW e \in Sides, port[e] # <<>>, x = Head(port[e]), port' = [port EXCEPT ![e] = Tail(@)]
        PROVE  /\ port' \in [Sides -> Seq(Calls)]
               /\ \A d \in Sides : \A i \in 1..Len(port'[d]) :
                     /\ port'[d][i] \in Calls /\ port'[d][i] # x
                     /\ state[port'[d][i]] = "moved" /\ Side(port'[d][i]) = d /\ port'[d][i] \notin Sync
                     /\ \A j \in 1..Len(port'[d]) : port'[d][i] = port'[d][j] => i = j
    <3>1. port[e] \in Seq(Calls) /\ x = port[e][1] /\ 1 \in 1..Len(port[e])
      BY <2>2, Elements DEF AnyInv
    <3>2. Side(x) = e
      BY <3>1 DEF AnyInv, Queues
    <3>3. port'[e] = Tail(port[e]) /\ port' \in [Sides -> Seq(Calls)]
      BY <2>2, <3>1 DEF AnyInv, TypeOK
    <3>4. \A i \in 1..Len(port'[e]) : port'[e][i] = port[e][i + 1] /\ i + 1 \in 1..Len(port[e]) /\ i + 1 # 1
      BY <3>1, <3>3
    <3>5. \A d \in Sides : d # e => port'[d] = port[d]
      BY <2>2 DEF AnyInv, TypeOK
    <3>6. ASSUME NEW d \in Sides, NEW i \in 1..Len(port'[d])
          PROVE  /\ port'[d][i] \in Calls /\ port'[d][i] # x
                 /\ state[port'[d][i]] = "moved" /\ Side(port'[d][i]) = d /\ port'[d][i] \notin Sync
                 /\ \A j \in 1..Len(port'[d]) : port'[d][i] = port'[d][j] => i = j
      <4>1. CASE d # e
        <5>1. port'[d] = port[d]
          BY <3>5, <4>1
        <5>2. port[d][i] \in Calls
          BY <5>1, Elements DEF AnyInv
        <5>3. /\ state[port[d][i]] = "moved" /\ Side(port[d][i]) = d /\ port[d][i] \notin Sync
              /\ \A j \in 1..Len(port[d]) : port[d][i] = port[d][j] => i = j
          BY <5>1, DistinctPort DEF AnyInv
        <5> QED BY <3>2, <4>1, <5>1, <5>2, <5>3
      <4>2. CASE d = e
        <5>0. i + 1 \in 1..Len(port[e]) /\ i + 1 # 1 /\ port'[e][i] = port[e][i + 1] /\ i \in Nat
          BY <3>4, <4>2
        <5>1. port[e][i + 1] \in Calls
          BY <5>0, Elements DEF AnyInv
        <5>2. /\ state[port[e][i + 1]] = "moved" /\ Side(port[e][i + 1]) = e
              /\ port[e][i + 1] \notin Sync
              /\ \A j \in 1..Len(port[e]) : port[e][i + 1] = port[e][j] => i + 1 = j
          BY <5>0, DistinctPort DEF AnyInv
        <5>3. port[e][i + 1] # x
          BY <3>1, <5>0, <5>2
        <5>4. ASSUME NEW j \in 1..Len(port'[e]), port'[e][i] = port'[e][j] PROVE i = j
          <6>1. port'[e][j] = port[e][j + 1] /\ j + 1 \in 1..Len(port[e]) /\ j \in Nat
            BY <3>4
          <6>2. i + 1 = j + 1
            BY <5>0, <5>2, <5>4, <6>1
          <6> QED BY <5>0, <6>1, <6>2
        <5> QED BY <4>2, <5>0, <5>1, <5>2, <5>3, <5>4
      <4> QED BY <4>1, <4>2
    <3> QED BY <3>3, <3>6
  <2> QED BY <2>1, <2>2 DEF TakeStep
<1>3. /\ state' \in [Calls -> {"idle", "asked", "moved", "done", "failed"}]
      /\ asked' \in [Sides -> Seq(Calls)]
      /\ \A y \in Calls : state'[y] = IF y = x THEN st ELSE state[y]
      /\ Queues'
  BY <1>1, <1>2, NewStateEffect DEF AnyInv
<1>4. /\ n[x] \in Nat /\ offset[x] \in Nat /\ offset[x] + n[x] = count[x]
      /\ result[x] # None => result[x] \in Nat /\ result[x] <= n[x]
  BY <1>1 DEF AnyInv, TypeOK, Budget, Active
<1>5. /\ \A y \in Calls : y # x => n'[y] = n[y] /\ offset'[y] = offset[y]
      /\ \/ st = "failed" /\ n'[x] = n[x] /\ offset'[x] = offset[x]
         \/ /\ n'[x] = n[x] - result[x] /\ offset'[x] = offset[x] + result[x] /\ result[x] # None
            /\ st = "done" => x \in Once \/ n[x] = result[x]
      /\ n' \in [Calls -> Nat] /\ offset' \in [Calls -> Nat]
  <2>1. CASE result[x] = None /\ st = "failed" /\ UNCHANGED <<n, offset>>
    BY <2>1 DEF AnyInv, TypeOK
  <2>2. CASE /\ result[x] # None
             /\ n' = [n EXCEPT ![x] = @ - result[x]] /\ offset' = [offset EXCEPT ![x] = @ + result[x]]
             /\ st = "done" => x \in Once \/ n[x] = result[x]
    <3>1. n[x] - result[x] \in Nat /\ offset[x] + result[x] \in Nat
      BY <1>4, <2>2
    <3> QED BY <2>2, <3>1 DEF AnyInv, TypeOK
  <2> QED BY <2>1, <2>2 DEF TakeStep
<1>6. TypeOK'
  BY <1>1, <1>2, <1>3, <1>5 DEF AnyInv, TypeOK
<1>7. ASSUME NEW y \in Calls
      PROVE  /\ state'[y] = "idle" => offset'[y] = 0
             /\ state'[y] \in {"asked", "moved"} => offset'[y] + n'[y] = count'[y]
             /\ state'[y] = "moved" /\ result'[y] # None => result'[y] <= n'[y]
             /\ state'[y] = "done" => offset'[y] <= count'[y] /\ (y \notin Once => offset'[y] = count'[y])
             /\ y \in Reads /\ state'[y] # "idle" => buffer'[y] \in [1..count'[y] -> Byte \cup {None}]
  <2>1. CASE y = x
    <3>1. state'[y] = st /\ count'[y] = count[y] /\ (y \in Reads => buffer'[y] = buffer[y])
      BY <1>1, <1>3, <2>1
    <3>2. y \in Reads => buffer[y] \in [1..count[y] -> Byte \cup {None}]
      BY <1>1, <2>1 DEF AnyInv, Budget
    <3> QED BY <1>4, <1>5, <2>1, <3>1, <3>2 DEF Outcomes
  <2>2. CASE y # x
    BY <1>1, <1>3, <1>5, <2>2 DEF AnyInv, Budget, Active
  <2> QED BY <2>1, <2>2
<1>8. Budget'
  BY <1>7 DEF Budget, Active
<1> QED BY <1>3, <1>6, <1>8 DEF AnyInv

LEMMA AnyStep ==
  ASSUME AnyInv, [Next]_vars PROVE AnyInv'
<1>1. ASSUME LinkStep PROVE AnyInv'
  BY <1>1 DEF LinkStep, callVars, AnyInv, TypeOK, Queues, Budget, Active
<1> QED BY <1>1, Steps, AnyCall, AnyReceive, AnySend, AnyFail, AnyTake DEF AnyInv

LEMMA AnyInit ==
  ASSUME Init PROVE AnyInv
<1>1. TypeOK
  BY DEF Init, TypeOK, Sides
<1>2. Queues /\ Budget
  BY DEF Init, Queues, Budget, Active, Sides
<1> QED BY <1>1, <1>2 DEF AnyInv

\* The invariant that holds however calls overlap.
THEOREM AnyInvariant == Spec => []AnyInv
<1>1. Init => AnyInv
  BY AnyInit
<1>2. AnyInv /\ [Next]_vars => AnyInv'
  BY AnyStep
<1> QED BY <1>1, <1>2, PTL DEF Spec

\* Every variable keeps its type.
THEOREM TypeCorrectness == Spec => []TypeOK
<1>1. AnyInv => TypeOK
  BY DEF AnyInv
<1> QED BY <1>1, AnyInvariant, PTL

\* No transfer reaches beyond the caller's buffer.
THEOREM BuffersKept == Spec => []StaysInBuffer
<1>1. AnyInv => StaysInBuffer
  <2> SUFFICES ASSUME AnyInv, NEW x \in Calls, state[x] = "asked"
               PROVE  offset[x] + Length(n[x]) <= count[x]
    BY DEF StaysInBuffer
  <2>1. n[x] \in Nat /\ offset[x] \in Nat /\ offset[x] + n[x] = count[x]
    BY DEF AnyInv, TypeOK, Budget, Active
  <2>2. Length(n[x]) \in 0..n[x]
    BY <2>1, LengthFits
  <2> QED BY <2>1, <2>2
<1> QED BY <1>1, AnyInvariant, PTL

-----------------------------------------------------------------------------
(* What a successful read returns, with one call at a time on each side    *)

\* Reads whose state is the same, and whose bytes are, stay right.
LEMMA ContentKept ==
  ASSUME AnyInv, Content, NEW r \in Reads, state[r] # "idle",
         state'[r] = state[r], result'[r] = result[r], offset'[r] = offset[r],
         buffer'[r] = buffer[r], from'[r] = from[r], received' \in Nat, received' >= received,
         \A j \in 1..received : sent'[j] = sent[j],
         NEW i \in 1..Got(r)'
  PROVE  from'[r] + i <= received' /\ buffer'[r][i] = sent'[from'[r] + i]
<1>1. Got(r)' = Got(r)
  BY DEF Got
<1>2. from[r] + i <= received /\ buffer[r][i] = sent[from[r] + i]
  BY <1>1 DEF Content
<1>3. r \in Calls
  BY DEF Calls
<1>4. from[r] \in Nat /\ received \in 0..Len(sent) /\ Len(sent) \in Nat
  <2>1. from[r] \in Nat /\ received \in 0..Len(sent) /\ sent \in Seq(Byte)
    BY <1>3 DEF AnyInv, TypeOK
  <2> QED BY <2>1
<1>5. offset[r] \in Nat /\ Got(r) \in Nat
  BY <1>3 DEF AnyInv, TypeOK, Got
<1>6. from[r] + i \in 1..received
  BY <1>1, <1>2, <1>4, <1>5
<1> QED BY <1>2, <1>4, <1>6

LEMMA ExclusiveCall ==
  ASSUME Exclusive, AnyInv, ExclusiveInv, NEW x \in Calls, NEW c \in Counts, NEW st \in Outcomes,
         CallStep(x, c, st)
  PROVE  ExclusiveInv'
<1>1. /\ state[x] = "idle" /\ \A y \in Calls : Side(y) = Side(x) => ~Active(y)
      /\ NewState(x, st, asked[Side(x)]) /\ from' = [from EXCEPT ![x] = received]
      /\ buffer' = IF x \in Reads THEN [buffer EXCEPT ![x] = [i \in 1..c |-> None]] ELSE buffer
      /\ UNCHANGED <<offset, sent, received, result>>
  BY DEF CallStep, MayCall
<1>2. \A y \in Calls : state'[y] = IF y = x THEN st ELSE state[y]
  BY <1>1 DEF NewState, AnyInv, TypeOK
<1>3. OneAtATime'
  BY <1>1, <1>2 DEF ExclusiveInv, OneAtATime, Active
<1>4. \A y \in Calls : y # x => from'[y] = from[y] /\ (y \in Reads => buffer'[y] = buffer[y])
  BY <1>1 DEF AnyInv, TypeOK
<1>5. x \in Reads => from'[x] = received /\ Got(x)' = 0
  <2>1. offset[x] = 0
    BY <1>1 DEF AnyInv, Budget
  <2>2. from'[x] = received
    BY <1>1 DEF AnyInv, TypeOK
  <2> QED BY <1>1, <1>2, <2>1, <2>2 DEF Got, Outcomes
<1>6. received \in Nat
  BY DEF AnyInv, TypeOK
<1>7. ASSUME NEW r \in Reads, Active(r)' PROVE from'[r] + Got(r)' = received'
  <2>1. r \in Calls
    BY DEF Calls
  <2>2. CASE r = x
    BY <1>1, <1>5, <1>6, <2>2
  <2>3. CASE r # x
    <3>1. Active(r) /\ Got(r)' = Got(r) /\ from'[r] = from[r]
      BY <1>1, <1>2, <1>4, <1>7, <2>1, <2>3 DEF Active, Got
    <3> QED BY <1>1, <3>1 DEF ExclusiveInv, UpToDate
  <2> QED BY <2>2, <2>3
<1>8. ASSUME NEW r \in Reads, state'[r] # "idle", NEW i \in 1..Got(r)'
      PROVE  from'[r] + i <= received' /\ buffer'[r][i] = sent'[from'[r] + i]
  <2>1. r # x
    BY <1>5, <1>8
  <2>2. r \in Calls
    BY DEF Calls
  <2> QED BY <1>1, <1>2, <1>4, <1>6, <1>8, <2>1, <2>2, ContentKept DEF ExclusiveInv
<1> QED BY <1>3, <1>7, <1>8 DEF ExclusiveInv, UpToDate, Content

LEMMA GotNat ==
  ASSUME AnyInv, NEW x \in Calls PROVE Got(x) \in Nat /\ (state[x] # "moved" => Got(x) = offset[x])
BY DEF AnyInv, TypeOK, Got

\* Taking the result of a transfer gives a call no more than it had.
LEMMA TakeGot ==
  ASSUME AnyInv, NEW x \in Calls, NEW st \in Outcomes, TakeStep(x, st)
  PROVE  \A y \in Calls : Got(y)' = Got(y)
<1>1. /\ state[x] = "moved" /\ NewState(x, st, asked[Side(x)]) /\ result' = result
  BY DEF TakeStep, transport
<1>2. \A y \in Calls : state'[y] = IF y = x THEN st ELSE state[y]
  BY <1>1 DEF NewState, AnyInv, TypeOK
<1>3. /\ \A y \in Calls : y # x => offset'[y] = offset[y]
      /\ \/ result[x] = None /\ offset'[x] = offset[x]
         \/ result[x] # None /\ offset'[x] = offset[x] + result[x]
  BY DEF TakeStep, AnyInv, TypeOK
<1>4. offset[x] \in Nat /\ (result[x] # None => result[x] \in Nat) /\ state'[x] # "moved"
  BY <1>2 DEF AnyInv, TypeOK, Outcomes
<1>5. Got(x)' = offset'[x] + 0
  BY <1>4 DEF Got
<1>6. Got(x) = offset[x] + IF result[x] # None THEN result[x] ELSE 0
  BY <1>1 DEF Got
<1>7. Got(x)' = Got(x)
  <2>1. CASE result[x] = None
    <3>1. offset'[x] = offset[x]
      BY <1>3, <2>1
    <3> QED BY <1>5, <1>6, <2>1, <3>1
  <2>2. CASE result[x] # None
    <3>1. offset'[x] = offset[x] + result[x]
      BY <1>3, <2>2
    <3> QED BY <1>4, <1>5, <1>6, <2>2, <3>1
  <2> QED BY <2>1, <2>2
<1>8. ASSUME NEW y \in Calls, y # x PROVE Got(y)' = Got(y)
  BY <1>1, <1>2, <1>3, <1>8 DEF Got
<1> QED BY <1>7, <1>8

LEMMA ExclusiveTake ==
  ASSUME AnyInv, ExclusiveInv, NEW x \in Calls, NEW st \in Outcomes, TakeStep(x, st)
  PROVE  ExclusiveInv'
<1>1. /\ state[x] = "moved" /\ NewState(x, st, asked[Side(x)])
      /\ UNCHANGED <<from, sent, received, buffer, result>>
  BY DEF TakeStep, transport
<1>2. \A y \in Calls : state'[y] = IF y = x THEN st ELSE state[y]
  BY <1>1 DEF NewState, AnyInv, TypeOK
<1>3. OneAtATime'
  BY <1>1, <1>2 DEF ExclusiveInv, OneAtATime, Active
<1>5. \A y \in Calls : Got(y)' = Got(y)
  BY TakeGot
<1>6. received \in Nat
  BY DEF AnyInv, TypeOK
<1>7. ASSUME NEW r \in Reads, Active(r)' PROVE from'[r] + Got(r)' = received'
  <2>1. r \in Calls
    BY DEF Calls
  <2>2. Active(r) /\ Got(r)' = Got(r)
    BY <1>1, <1>2, <1>5, <1>7, <2>1 DEF Active
  <2> QED BY <1>1, <2>2 DEF ExclusiveInv, UpToDate
<1>8. ASSUME NEW r \in Reads, state'[r] # "idle", NEW i \in 1..Got(r)'
      PROVE  from'[r] + i <= received' /\ buffer'[r][i] = sent'[from'[r] + i]
  <2>1. r \in Calls
    BY DEF Calls
  <2>2. state[r] # "idle" /\ Got(r)' = Got(r)
    BY <1>1, <1>2, <1>5, <1>8, <2>1
  <2> QED BY <1>1, <1>8, <2>2 DEF ExclusiveInv, Content
<1> QED BY <1>3, <1>7, <1>8 DEF ExclusiveInv, UpToDate, Content

\* The end of a transfer of call x, for the calls that are not x.
LEMMA ExclusiveMoved ==
  ASSUME AnyInv, ExclusiveInv, NEW d \in Sides, NEW k \in Nat \cup {None}, asked[d] # <<>>, Moved(d, k)
  PROVE  /\ OneAtATime' /\ UNCHANGED <<count, n, offset, from>>
         /\ Head(asked[d]) \in Calls /\ state[Head(asked[d])] = "asked" /\ Side(Head(asked[d])) = d
         /\ \A y \in Calls : /\ state'[y] = IF y = Head(asked[d]) THEN "moved" ELSE state[y]
                             /\ result'[y] = IF y = Head(asked[d]) THEN k ELSE result[y]
<1> DEFINE x == Head(asked[d])
<1>1. x \in Calls /\ state[x] = "asked" /\ Side(x) = d
  BY Oldest DEF AnyInv
<1>2. /\ state' = [state EXCEPT ![x] = "moved"] /\ result' = [result EXCEPT ![x] = k]
      /\ UNCHANGED <<count, n, offset, from>>
  BY MovedEffect DEF AnyInv
<1>3. \A y \in Calls : /\ state'[y] = IF y = x THEN "moved" ELSE state[y]
                       /\ result'[y] = IF y = x THEN k ELSE result[y]
  BY <1>2 DEF AnyInv, TypeOK
<1>4. OneAtATime'
  <2> HIDE DEF x
  <2> QED BY <1>1, <1>3 DEF ExclusiveInv, OneAtATime, Active
<1> QED BY <1>1, <1>2, <1>3, <1>4

LEMMA ExclusiveReceive ==
  ASSUME AnyInv, ExclusiveInv, Receive PROVE ExclusiveInv'
<1>0. PICK r \in Reads : r = Head(asked["read"])
  BY ReceiveEffect
<1>1. PICK k \in Nat :
        /\ asked["read"] # <<>> /\ r \in Reads /\ r \in Calls /\ state[r] = "asked"
        /\ k <= n[r] /\ received + k <= Len(sent)
        /\ buffer' = [buffer EXCEPT ![r] = [i \in 1..count[r] |->
             IF i \in offset[r]+1 .. offset[r]+k THEN sent[received + i - offset[r]] ELSE buffer[r][i]]]
        /\ received' = received + k /\ sent' = sent /\ Moved("read", k)
  BY <1>0, ReceiveEffect
<1>2. "read" \in Sides
  BY DEF Sides
<1>3. /\ OneAtATime' /\ UNCHANGED <<count, n, offset, from>> /\ Side(r) = "read"
      /\ \A y \in Calls : /\ state'[y] = IF y = r THEN "moved" ELSE state[y]
                          /\ result'[y] = IF y = r THEN k ELSE result[y]
  BY <1>0, <1>1, <1>2, ExclusiveMoved
<1>4. /\ received \in Nat /\ sent \in Seq(Byte) /\ offset[r] \in Nat /\ n[r] \in Nat /\ from[r] \in Nat
      /\ offset[r] + n[r] = count[r]
  BY <1>1 DEF AnyInv, TypeOK, Budget, Active
<1>5. k # None
  BY <1>1, StreamAssumption
<1>6. Got(r) = offset[r] /\ Got(r)' = offset[r] + k
  BY <1>1, <1>3, <1>4, <1>5 DEF Got
<1>7. from[r] + offset[r] = received
  BY <1>1, <1>6 DEF ExclusiveInv, UpToDate, Active
<1>8. /\ \A q \in Reads : q # r => buffer'[q] = buffer[q]
      /\ buffer'[r] = [i \in 1..count[r] |->
             IF i \in offset[r]+1 .. offset[r]+k THEN sent[received + i - offset[r]] ELSE buffer[r][i]]
  BY <1>1 DEF AnyInv, TypeOK
<1>9. ASSUME NEW i \in 1..Got(r)'
      PROVE  from'[r] + i <= received' /\ buffer'[r][i] = sent'[from'[r] + i]
  <2>1. i \in 1..count[r] /\ i \in 1..(offset[r] + k)
    <3> QED BY <1>1, <1>4, <1>6
  <2>2. CASE i <= offset[r]
    <3>1. i \in 1..Got(r) /\ state[r] # "idle"
      BY <1>1, <1>4, <1>6, <2>1, <2>2
    <3>2. from[r] + i <= received /\ buffer[r][i] = sent[from[r] + i]
      BY <1>1, <3>1 DEF ExclusiveInv, Content
    <3>3. i \notin offset[r]+1 .. offset[r]+k
      BY <1>4, <2>1, <2>2
    <3>4. buffer'[r][i] = buffer[r][i]
      BY <1>8, <2>1, <3>3
    <3>5. from[r] + i <= received + k
      BY <1>1, <1>4, <2>1, <3>2
    <3> QED BY <1>1, <1>3, <3>2, <3>4, <3>5
  <2>3. CASE i > offset[r]
    <3>1. i \in offset[r]+1 .. offset[r]+k
      BY <1>1, <1>4, <2>1, <2>3
    <3>2. buffer'[r][i] = sent[received + i - offset[r]]
      BY <1>8, <2>1, <3>1
    <3>3. received + i - offset[r] = from[r] + i /\ from[r] + i <= received + k
      BY <1>1, <1>4, <1>7, <2>1
    <3> QED BY <1>1, <1>3, <3>2, <3>3
  <2> QED BY <1>4, <2>1, <2>2, <2>3
<1>10. ASSUME NEW q \in Reads, Active(q)' PROVE from'[q] + Got(q)' = received'
  <2>1. CASE q = r
    <3>1. from'[q] = from[r] /\ Got(q)' = offset[r] + k /\ received' = received + k
      BY <1>1, <1>3, <1>6, <2>1
    <3>2. \A a, b \in Nat : a + b = received => a + (b + k) = received + k
      BY <1>4
    <3>3. from[r] + (offset[r] + k) = received + k
      BY <1>4, <1>7, <3>2
    <3> QED BY <3>1, <3>3
  <2>2. CASE q # r
    <3>1. q \in Calls /\ Side(q) = "read"
      BY DEF Calls, Side
    <3>2. Active(q) /\ Active(r)
      BY <1>1, <1>3, <1>10, <2>2, <3>1 DEF Active
    <3> QED BY <1>1, <1>3, <2>2, <3>1, <3>2 DEF ExclusiveInv, OneAtATime
  <2> QED BY <2>1, <2>2
<1>11. ASSUME NEW q \in Reads, state'[q] # "idle", NEW i \in 1..Got(q)'
       PROVE  from'[q] + i <= received' /\ buffer'[q][i] = sent'[from'[q] + i]
  <2>1. CASE q = r
    BY <1>9, <1>11, <2>1
  <2>2. CASE q # r
    <3>1. q \in Calls
      BY DEF Calls
    <3>2. /\ state'[q] = state[q] /\ result'[q] = result[q] /\ offset'[q] = offset[q]
          /\ buffer'[q] = buffer[q] /\ from'[q] = from[q]
      BY <1>3, <1>8, <2>2, <3>1
    <3>3. received' \in Nat /\ received' >= received /\ \A j \in 1..received : sent'[j] = sent[j]
      BY <1>1, <1>4
    <3> QED BY <1>11, <3>2, <3>3, ContentKept DEF ExclusiveInv
  <2> QED BY <2>1, <2>2
<1> QED BY <1>3, <1>10, <1>11 DEF ExclusiveInv, UpToDate, Content

\* A step that moves bytes to no reader.
LEMMA ExclusiveOther ==
  ASSUME AnyInv, ExclusiveInv, OneAtATime', UNCHANGED <<offset, from, received, buffer>>,
         \A j \in 1..received : sent'[j] = sent[j],
         \A r \in Reads : \/ state'[r] = state[r] /\ result'[r] = result[r]
                          \/ state[r] = "asked" /\ state'[r] = "moved" /\ result'[r] = None
  PROVE  ExclusiveInv'
<1>1. received \in Nat
  BY DEF AnyInv, TypeOK
<1>2. ASSUME NEW r \in Reads
      PROVE  /\ Got(r)' = Got(r) /\ (Active(r)' => Active(r)) /\ (state'[r] # "idle" => state[r] # "idle")
             /\ from[r] \in Nat /\ Got(r) \in Nat
  <2>1. r \in Calls
    BY DEF Calls
  <2>2. from[r] \in Nat /\ Got(r) \in Nat
    BY <2>1 DEF AnyInv, TypeOK, Got
  <2>3. CASE state'[r] = state[r] /\ result'[r] = result[r]
    BY <2>2, <2>3 DEF Got, Active
  <2>4. CASE state[r] = "asked" /\ state'[r] = "moved" /\ result'[r] = None
    BY <2>2, <2>4 DEF Got, Active
  <2> QED BY <2>3, <2>4
<1>3. UpToDate'
  BY <1>2 DEF ExclusiveInv, UpToDate
<1>4. ASSUME NEW r \in Reads, state'[r] # "idle", NEW i \in 1..Got(r)'
      PROVE  from'[r] + i <= received' /\ buffer'[r][i] = sent'[from'[r] + i]
  <2>1. state[r] # "idle" /\ i \in 1..Got(r)
    BY <1>2, <1>4
  <2>2. from[r] + i <= received /\ buffer[r][i] = sent[from[r] + i]
    BY <2>1 DEF ExclusiveInv, Content
  <2>3. from[r] + i \in 1..received
    BY <1>1, <1>2, <2>1, <2>2
  <2> QED BY <2>2, <2>3
<1> QED BY <1>3, <1>4 DEF ExclusiveInv, Content

LEMMA ExclusiveSend ==
  ASSUME AnyInv, ExclusiveInv, Send PROVE ExclusiveInv'
<1> DEFINE w == Head(asked["write"])
<1>1. PICK k \in Nat :
        /\ asked["write"] # <<>> /\ w \in Writes /\ w \in Calls /\ state[w] = "asked"
        /\ k <= n[w]
        /\ sent' = sent \o [i \in 1..k |-> <<w, offset[w] + i>>]
        /\ UNCHANGED <<received, buffer>> /\ Moved("write", k)
  BY SendEffect
<1>2. "write" \in Sides /\ w \notin Reads
  BY <1>1, StreamAssumption DEF Sides
<1>3. /\ OneAtATime' /\ UNCHANGED <<count, n, offset, from>>
      /\ \A y \in Calls : /\ state'[y] = IF y = w THEN "moved" ELSE state[y]
                          /\ result'[y] = IF y = w THEN k ELSE result[y]
  BY <1>1, <1>2, ExclusiveMoved
<1>4. \A j \in 1..received : sent'[j] = sent[j]
  <2>1. sent \in Seq(Byte) /\ received \in 0..Len(sent)
    BY DEF AnyInv, TypeOK
  <2>2. offset[w] \in Nat
    BY <1>1 DEF AnyInv, TypeOK
  <2>4. [i \in 1..k |-> <<w, offset[w] + i>>] \in Seq(Byte)
    BY <1>1, <2>2 DEF Byte
  <2>3. \A j \in 1..Len(sent) : sent'[j] = sent[j]
    BY <1>1, <2>1, <2>4
  <2> QED BY <2>1, <2>3
<1>5. \A r \in Reads : state'[r] = state[r] /\ result'[r] = result[r]
  BY <1>2, <1>3 DEF Calls
<1> QED BY <1>1, <1>3, <1>4, <1>5, ExclusiveOther

LEMMA ExclusiveFail ==
  ASSUME AnyInv, ExclusiveInv, NEW d \in Sides, Fail(d) PROVE ExclusiveInv'
<1>1. asked[d] # <<>> /\ Moved(d, None) /\ UNCHANGED <<sent, received, buffer>>
  BY DEF Fail
<1>2. /\ OneAtATime' /\ UNCHANGED <<offset, from>> /\ state[Head(asked[d])] = "asked"
      /\ \A y \in Calls : /\ state'[y] = IF y = Head(asked[d]) THEN "moved" ELSE state[y]
                          /\ result'[y] = IF y = Head(asked[d]) THEN None ELSE result[y]
  BY <1>1, ExclusiveMoved
<1>3. \A r \in Reads : \/ state'[r] = state[r] /\ result'[r] = result[r]
                       \/ state[r] = "asked" /\ state'[r] = "moved" /\ result'[r] = None
  BY <1>2 DEF Calls
<1>4. \A j \in 1..received : sent'[j] = sent[j]
  BY <1>1
<1> QED BY <1>1, <1>2, <1>3, <1>4, ExclusiveOther

LEMMA ExclusiveStep ==
  ASSUME Exclusive, AnyInv, ExclusiveInv, [Next]_vars PROVE ExclusiveInv'
<1>1. ASSUME LinkStep PROVE ExclusiveInv'
  BY <1>1 DEF LinkStep, callVars, ExclusiveInv, OneAtATime, UpToDate, Content, Got, Active
<1> QED BY <1>1, Steps, ExclusiveCall, ExclusiveReceive, ExclusiveSend, ExclusiveFail, ExclusiveTake
        DEF AnyInv

\* With one call at a time on each side: no two calls go on at once, and each
\* read has what was received since it was called.
THEOREM ExclusiveInvariant ==
  ASSUME Exclusive PROVE Spec => [](AnyInv /\ ExclusiveInv)
<1>1. Init => AnyInv /\ ExclusiveInv
  <2> SUFFICES ASSUME Init PROVE AnyInv /\ ExclusiveInv
    OBVIOUS
  <2>1. \A x \in Calls : state[x] = "idle"
    BY DEF Init
  <2>2. Reads \subseteq Calls
    BY DEF Calls
  <2> QED BY <2>1, <2>2, AnyInit DEF ExclusiveInv, OneAtATime, UpToDate, Content, Active
<1>2. (AnyInv /\ ExclusiveInv) /\ [Next]_vars => (AnyInv /\ ExclusiveInv)'
  BY AnyStep, ExclusiveStep
<1> QED BY <1>1, <1>2, PTL DEF Spec

\* A successful readAll has filled its buffer, and a successful read the part
\* it reports, with the next bytes of the stream in order.
THEOREM ReadsAreExact ==
  ASSUME Exclusive PROVE Spec => []ExactRead
<1>1. AnyInv /\ ExclusiveInv => ExactRead
  <2> SUFFICES ASSUME AnyInv, ExclusiveInv, NEW r \in Reads, state[r] = "done", NEW i \in 1..Filled(r)
               PROVE  from[r] + i <= received /\ buffer[r][i] = sent[from[r] + i]
    BY DEF ExactRead
  <2>1. r \in Calls /\ offset[r] \in Nat
    BY DEF Calls, AnyInv, TypeOK
  <2>2. Got(r) = offset[r]
    BY <2>1 DEF Got
  <2>3. Filled(r) = offset[r]
    BY <2>1 DEF Filled, AnyInv, Budget
  <2> QED BY <2>2, <2>3 DEF ExclusiveInv, Content
<1> QED BY <1>1, ExclusiveInvariant, PTL
-----------------------------------------------------------------------------
(* No byte is lost, however calls overlap                                  *)

\* Every byte is sent once, ...
SentOnce ==
  /\ \A i, j \in 1..Len(sent) : sent[i] = sent[j] => i = j
  /\ \A i \in 1..Len(sent), w \in Writes : sent[i][1] = w => sent[i][2] \in 1..Got(w)

\* ... what a read has not been given yet is unfilled, ...
Unfilled ==
  \A r \in Reads : /\ state[r] = "idle" => buffer[r] = <<>>
                   /\ Got(r) <= received
                   /\ \A j \in DOMAIN buffer[r] : buffer[r][j] # None => j <= Got(r)

\* ... and what was received is in one place.
Placed ==
  /\ \A r \in Reads : \A j \in DOMAIN buffer[r] :
       buffer[r][j] # None => \E i \in 1..received : buffer[r][j] = sent[i]
  /\ \A i \in 1..received : \E r \in Reads : \E j \in DOMAIN buffer[r] : buffer[r][j] = sent[i]
  /\ \A q, r \in Reads : \A i \in DOMAIN buffer[q], j \in DOMAIN buffer[r] :
       buffer[q][i] # None /\ buffer[q][i] = buffer[r][j] => q = r /\ i = j

OnceInv == SentOnce /\ Unfilled /\ Placed

\* The bytes of the stream are not the mark of an unfilled place.
LEMMA SentBytes ==
  ASSUME AnyInv, NEW i \in 1..Len(sent)
  PROVE  sent[i] \in Byte /\ sent[i] # None /\ sent[i][1] \in Writes /\ sent[i][2] \in Nat
<1>1. sent \in Seq(Byte)
  BY DEF AnyInv, TypeOK
<1>2. sent[i] \in Byte
  BY <1>1
<1> QED BY <1>2, StreamAssumption DEF Byte

\* A step that sends nothing, moves nothing and at most readies a buffer.
LEMMA OnceKept ==
  ASSUME AnyInv, OnceInv, UNCHANGED <<sent, received>>,
         \A x \in Calls : Got(x)' = Got(x),
         \A r \in Reads :
            /\ state'[r] = "idle" => state[r] = "idle" /\ buffer'[r] = buffer[r]
            /\ \/ buffer'[r] = buffer[r]
               \/ buffer[r] = <<>> /\ \A j \in DOMAIN buffer'[r] : buffer'[r][j] = None
  PROVE  OnceInv'
<1>1. SentOnce'
  <2>1. \A w \in Writes : Got(w)' = Got(w)
    BY DEF Calls
  <2> QED BY <2>1 DEF OnceInv, SentOnce
<1>2. \A r \in Reads : Got(r)' = Got(r)
  BY DEF Calls
<1>3. Unfilled'
  BY <1>2 DEF OnceInv, Unfilled
<1>4. ASSUME NEW r \in Reads, NEW j \in DOMAIN buffer'[r], buffer'[r][j] # None
      PROVE  buffer'[r] = buffer[r]
  BY <1>4
<1>5. ASSUME NEW i \in 1..received
      PROVE  \E r \in Reads : \E j \in DOMAIN buffer'[r] : buffer'[r][j] = sent[i]
  <2>1. PICK r \in Reads : \E j \in DOMAIN buffer[r] : buffer[r][j] = sent[i]
    BY DEF OnceInv, Placed
  <2>2. buffer[r] # <<>>
    BY <2>1
  <2> QED BY <2>1, <2>2
<1>6. ASSUME NEW r \in Reads, NEW j \in DOMAIN buffer'[r], buffer'[r][j] # None
      PROVE  \E i \in 1..received : buffer'[r][j] = sent[i]
  BY <1>4, <1>6 DEF OnceInv, Placed
<1>7. ASSUME NEW q \in Reads, NEW r \in Reads, NEW i \in DOMAIN buffer'[q], NEW j \in DOMAIN buffer'[r],
             buffer'[q][i] # None, buffer'[q][i] = buffer'[r][j]
      PROVE  q = r /\ i = j
  <2>1. buffer'[q] = buffer[q] /\ buffer'[r] = buffer[r]
    BY <1>4, <1>7
  <2> QED BY <1>7, <2>1 DEF OnceInv, Placed
<1>8. Placed'
  BY <1>5, <1>6, <1>7 DEF Placed
<1> QED BY <1>1, <1>3, <1>8 DEF OnceInv

LEMMA OnceCall ==
  ASSUME AnyInv, OnceInv, NEW x \in Calls, NEW c \in Counts, NEW st \in Outcomes, CallStep(x, c, st)
  PROVE  OnceInv'
<1>1. /\ state[x] = "idle" /\ NewState(x, st, asked[Side(x)])
      /\ buffer' = IF x \in Reads THEN [buffer EXCEPT ![x] = [i \in 1..c |-> None]] ELSE buffer
      /\ UNCHANGED <<offset, sent, received, result>>
  BY DEF CallStep, MayCall
<1>2. \A y \in Calls : state'[y] = IF y = x THEN st ELSE state[y]
  BY <1>1 DEF NewState, AnyInv, TypeOK
<1>3. \A y \in Calls : Got(y)' = Got(y)
  BY <1>1, <1>2 DEF Got, Outcomes
<1>4. ASSUME NEW r \in Reads
      PROVE  /\ state'[r] = "idle" => state[r] = "idle" /\ buffer'[r] = buffer[r]
             /\ \/ buffer'[r] = buffer[r]
                \/ buffer[r] = <<>> /\ \A j \in DOMAIN buffer'[r] : buffer'[r][j] = None
  <2>1. r \in Calls
    BY DEF Calls
  <2>2. CASE r = x
    <3>1. state'[r] # "idle" /\ buffer[r] = <<>>
      BY <1>1, <1>2, <2>1, <2>2 DEF OnceInv, Unfilled, Outcomes
    <3>2. buffer'[r] = [i \in 1..c |-> None]
      BY <1>1, <2>2 DEF AnyInv, TypeOK
    <3> QED BY <3>1, <3>2
  <2>3. CASE r # x
    BY <1>1, <1>2, <2>1, <2>3 DEF AnyInv, TypeOK
  <2> QED BY <2>2, <2>3
<1> QED BY <1>1, <1>3, <1>4, OnceKept

LEMMA OnceTake ==
  ASSUME AnyInv, OnceInv, NEW x \in Calls, NEW st \in Outcomes, TakeStep(x, st)
  PROVE  OnceInv'
<1>1. NewState(x, st, asked[Side(x)]) /\ UNCHANGED <<sent, received, buffer>>
  BY DEF TakeStep, transport
<1>2. \A r \in Reads : state'[r] = "idle" => state[r] = "idle"
  BY <1>1 DEF NewState, AnyInv, TypeOK, Outcomes, Calls
<1> QED BY <1>1, <1>2, TakeGot, OnceKept

\* The end of a transfer gives its call what it moved, and no other call anything.
LEMMA MovedGot ==
  ASSUME AnyInv, NEW d \in Sides, NEW k \in Nat \cup {None}, asked[d] # <<>>, Moved(d, k)
  PROVE  /\ Head(asked[d]) \in Calls /\ state[Head(asked[d])] = "asked"
         /\ \A y \in Calls : Got(y)' = IF y = Head(asked[d]) /\ k # None THEN Got(y) + k ELSE Got(y)
         /\ \A y \in Calls : state'[y] = "idle" => state[y] = "idle"
<1>0. PICK x \in Calls : x = Head(asked[d])
  BY Oldest DEF AnyInv
<1>1. state[x] = "asked"
  BY <1>0, Oldest DEF AnyInv
<1>2. /\ state' = [state EXCEPT ![x] = "moved"] /\ result' = [result EXCEPT ![x] = k]
      /\ offset' = offset
  BY <1>0, MovedEffect DEF AnyInv
<1>3. \A y \in Calls : /\ state'[y] = IF y = x THEN "moved" ELSE state[y]
                       /\ result'[y] = IF y = x THEN k ELSE result[y]
  BY <1>2 DEF AnyInv, TypeOK
<1>4. offset[x] \in Nat /\ Got(x) = offset[x]
  BY <1>1, GotNat DEF AnyInv, TypeOK
<1>5. /\ k # None => Got(x)' = Got(x) + k
      /\ k = None => Got(x)' = Got(x)
  <2>1. Got(x)' = offset[x] + IF k # None THEN k ELSE 0
    BY <1>1, <1>2, <1>3 DEF Got
  <2>2. CASE k = None
    BY <1>4, <2>1, <2>2
  <2>3. CASE k # None
    BY <1>4, <2>1, <2>3
  <2> QED BY <2>2, <2>3
<1>6. ASSUME NEW y \in Calls, y # x PROVE Got(y)' = Got(y)
  BY <1>2, <1>3, <1>6 DEF Got
<1>7. ASSUME NEW y \in Calls
      PROVE  /\ Got(y)' = IF y = x /\ k # None THEN Got(y) + k ELSE Got(y)
             /\ state'[y] = "idle" => state[y] = "idle"
  <2>1. CASE y = x
    BY <1>3, <1>5, <2>1
  <2>2. CASE y # x
    BY <1>3, <1>6, <2>2
  <2> QED BY <2>1, <2>2
<1> QED BY <1>0, <1>1, <1>7

LEMMA OnceFail ==
  ASSUME AnyInv, OnceInv, NEW d \in Sides, Fail(d) PROVE OnceInv'
<1>1. asked[d] # <<>> /\ Moved(d, None) /\ UNCHANGED <<sent, received, buffer>>
  BY DEF Fail
<1>2. /\ \A y \in Calls : Got(y)' = Got(y)
      /\ \A r \in Reads : state'[r] = "idle" => state[r] = "idle"
  BY <1>1, MovedGot DEF Calls
<1> QED BY <1>1, <1>2, OnceKept

LEMMA OnceSend ==
  ASSUME AnyInv, OnceInv, Send PROVE OnceInv'
<1>0. PICK w \in Writes : w = Head(asked["write"])
  BY SendEffect
<1>1. PICK k \in Nat :
        /\ asked["write"] # <<>> /\ w \in Calls /\ state[w] = "asked"
        /\ sent' = sent \o [i \in 1..k |-> <<w, offset[w] + i>>]
        /\ UNCHANGED <<received, buffer>> /\ Moved("write", k)
  BY <1>0, SendEffect
<1>2. k # None /\ "write" \in Sides /\ \A r \in Reads : r \in Calls /\ r # w
  BY StreamAssumption DEF Sides, Calls
<1>3. /\ \A y \in Calls : Got(y)' = IF y = w THEN Got(y) + k ELSE Got(y)
      /\ \A y \in Calls : state'[y] = "idle" => state[y] = "idle"
  BY <1>0, <1>1, <1>2, MovedGot
<1>4. sent \in Seq(Byte) /\ received \in 0..Len(sent) /\ offset[w] \in Nat /\ Got(w) = offset[w]
  BY <1>1, GotNat DEF AnyInv, TypeOK
<1>5. [i \in 1..k |-> <<w, offset[w] + i>>] \in Seq(Byte)
  BY <1>1, <1>4 DEF Byte
<1>6. /\ Len(sent') = Len(sent) + k /\ Len(sent) \in Nat
      /\ \A i \in 1..Len(sent) : i \in 1..Len(sent') /\ sent'[i] = sent[i]
      /\ \A i \in 1..Len(sent') : i \notin 1..Len(sent) =>
           i - Len(sent) \in 1..k /\ sent'[i] = <<w, offset[w] + (i - Len(sent))>>
  BY <1>1, <1>4, <1>5
<1>7. \A i \in 1..Len(sent) : sent[i][1] = w => sent[i][2] \in 1..offset[w]
  BY <1>4 DEF OnceInv, SentOnce
<1>8. ASSUME NEW i \in 1..Len(sent'), NEW j \in 1..Len(sent'), sent'[i] = sent'[j] PROVE i = j
  <2>1. CASE i \in 1..Len(sent) /\ j \in 1..Len(sent)
    BY <1>6, <1>8, <2>1 DEF OnceInv, SentOnce
  <2>2. ASSUME NEW a \in 1..Len(sent), NEW b \in 1..Len(sent'), b \notin 1..Len(sent), sent'[a] = sent'[b]
        PROVE  FALSE
    <3>1. sent[a][1] = w /\ sent[a][2] = offset[w] + (b - Len(sent)) /\ b - Len(sent) \in 1..k
      BY <1>6, <2>2
    <3>2. sent[a][2] \in 1..offset[w]
      BY <1>7, <3>1
    <3> QED BY <1>4, <3>1, <3>2
  <2>3. CASE i \notin 1..Len(sent) /\ j \notin 1..Len(sent)
    <3>1. /\ i - Len(sent) \in 1..k /\ j - Len(sent) \in 1..k
          /\ sent'[i] = <<w, offset[w] + (i - Len(sent))>> /\ sent'[j] = <<w, offset[w] + (j - Len(sent))>>
      BY <1>6, <2>3
    <3>2. offset[w] + (i - Len(sent)) = offset[w] + (j - Len(sent))
      <4>1. \A a, b : <<w, a>> = <<w, b>> => a = b
        OBVIOUS
      <4> QED BY <1>8, <3>1, <4>1
    <3> QED BY <1>4, <1>6, <3>2
  <2> QED BY <1>8, <2>1, <2>2, <2>3
<1>9. ASSUME NEW i \in 1..Len(sent'), NEW v \in Writes, sent'[i][1] = v
      PROVE  sent'[i][2] \in 1..Got(v)'
  <2>0. v \in Calls /\ Got(v) \in Nat /\ Got(v)' = IF v = w THEN Got(v) + k ELSE Got(v)
    BY <1>3, GotNat DEF Calls
  <2>1. CASE i \in 1..Len(sent)
    <3>1. sent'[i] = sent[i] /\ sent[i][2] \in 1..Got(v)
      BY <1>6, <1>9, <2>1 DEF OnceInv, SentOnce
    <3> QED BY <2>0, <3>1
  <2>2. CASE i \notin 1..Len(sent)
    <3>1. i - Len(sent) \in 1..k /\ sent'[i] = <<w, offset[w] + (i - Len(sent))>>
      BY <1>6, <2>2
    <3>2. v = w /\ sent'[i][2] = offset[w] + (i - Len(sent)) /\ Got(v)' = offset[w] + k
      BY <1>4, <1>9, <2>0, <3>1
    <3> QED BY <1>4, <3>1, <3>2
  <2> QED BY <2>1, <2>2
<1>10. Unfilled'
  BY <1>1, <1>2, <1>3 DEF OnceInv, Unfilled
<1>11. \A i \in 1..received : sent'[i] = sent[i]
  BY <1>4, <1>6
<1>12. Placed'
  <2>1. \A r \in Reads : \A j \in DOMAIN buffer[r] :
          buffer[r][j] # None => \E i \in 1..received : buffer[r][j] = sent'[i]
    BY <1>11 DEF OnceInv, Placed
  <2>2. \A i \in 1..received : \E r \in Reads : \E j \in DOMAIN buffer[r] : buffer[r][j] = sent'[i]
    BY <1>11 DEF OnceInv, Placed
  <2>3. \A q, r \in Reads : \A i \in DOMAIN buffer[q], j \in DOMAIN buffer[r] :
          buffer[q][i] # None /\ buffer[q][i] = buffer[r][j] => q = r /\ i = j
    BY DEF OnceInv, Placed
  <2>4. buffer' = buffer /\ received' = received
    BY <1>1
  <2> QED BY <2>1, <2>2, <2>3, <2>4 DEF Placed
<1>13. SentOnce'
  BY <1>8, <1>9 DEF SentOnce
<1> QED BY <1>10, <1>12, <1>13 DEF OnceInv

LEMMA OnceReceive ==
  ASSUME AnyInv, OnceInv, Receive PROVE OnceInv'
<1>0. PICK r \in Reads : r = Head(asked["read"])
  BY ReceiveEffect
<1>1. PICK k \in Nat :
        /\ asked["read"] # <<>> /\ r \in Calls /\ state[r] = "asked"
        /\ k <= n[r] /\ received + k <= Len(sent)
        /\ buffer' = [buffer EXCEPT ![r] = [i \in 1..count[r] |->
             IF i \in offset[r]+1 .. offset[r]+k THEN sent[received + i - offset[r]] ELSE buffer[r][i]]]
        /\ received' = received + k /\ sent' = sent /\ Moved("read", k)
  BY <1>0, ReceiveEffect
<1>2. k # None /\ "read" \in Sides
  BY StreamAssumption DEF Sides
<1>3. /\ \A y \in Calls : Got(y)' = IF y = r THEN Got(y) + k ELSE Got(y)
      /\ \A y \in Calls : state'[y] = "idle" => state[y] = "idle"
  BY <1>0, <1>1, <1>2, MovedGot
<1>4. /\ received \in Nat /\ sent \in Seq(Byte) /\ Len(sent) \in Nat
      /\ offset[r] \in Nat /\ n[r] \in Nat /\ count[r] = offset[r] + n[r] /\ Got(r) = offset[r]
      /\ DOMAIN buffer[r] = 1..count[r]
  BY <1>1, GotNat DEF AnyInv, TypeOK, Budget, Active
<1>5. /\ \A q \in Reads : q # r => buffer'[q] = buffer[q]
      /\ buffer'[r] = [i \in 1..count[r] |->
             IF i \in offset[r]+1 .. offset[r]+k THEN sent[received + i - offset[r]] ELSE buffer[r][i]]
  BY <1>1 DEF AnyInv, TypeOK
<1> DEFINE Fresh(q, j) == q = r /\ j \in offset[r]+1 .. offset[r]+k
           Index(j) == received + j - offset[r]
<1>6. ASSUME NEW q \in Reads
      PROVE  /\ DOMAIN buffer'[q] = DOMAIN buffer[q]
             /\ \A j \in DOMAIN buffer[q] :
                  buffer'[q][j] = IF Fresh(q, j) THEN sent[Index(j)] ELSE buffer[q][j]
  BY <1>4, <1>5
<1>7. ASSUME NEW q \in Reads, NEW j, Fresh(q, j)
      PROVE  /\ j \in DOMAIN buffer[q] /\ buffer[q][j] = None /\ j <= Got(q)'
             /\ Index(j) \in 1..received' /\ Index(j) \in 1..Len(sent) /\ Index(j) > received
  <2>1. q = r /\ j \in offset[r]+1 .. offset[r]+k
    BY <1>7
  <2>2. j \in Nat /\ j > offset[r] /\ j <= offset[r] + k
    BY <1>4, <2>1
  <2>3. j \in 1..count[r]
    BY <1>1, <1>4, <2>2
  <2>4. buffer[r][j] = None
    BY <1>4, <2>2, <2>3 DEF OnceInv, Unfilled
  <2>5. Got(r)' = offset[r] + k
    BY <1>1, <1>3, <1>4
  <2>6. Index(j) \in 1..received' /\ Index(j) \in 1..Len(sent) /\ Index(j) > received
    BY <1>1, <1>4, <2>2
  <2> QED BY <1>4, <2>1, <2>2, <2>3, <2>4, <2>5, <2>6
<1> HIDE DEF Index
<1>8. SentOnce'
  <2>1. \A w \in Writes : w \in Calls /\ w # r
    BY StreamAssumption DEF Calls
  <2>2. \A w \in Writes : Got(w)' = Got(w)
    BY <1>3, <2>1
  <2> QED BY <1>1, <2>2 DEF OnceInv, SentOnce
<1>9. Unfilled'
  <2>1. ASSUME NEW q \in Reads, state'[q] = "idle" PROVE buffer'[q] = <<>>
    <3>1. state[q] = "idle"
      BY <1>3, <2>1 DEF Calls
    <3> QED BY <1>1, <1>5, <3>1 DEF OnceInv, Unfilled
  <2>2. ASSUME NEW q \in Reads PROVE Got(q)' <= received' /\ Got(q)' >= Got(q) /\ Got(q)' \in Nat /\ Got(q) \in Nat
    <3>1. q \in Calls /\ Got(q) \in Nat /\ Got(q) <= received
      BY GotNat DEF Calls, OnceInv, Unfilled
    <3> QED BY <1>1, <1>3, <1>4, <3>1
  <2>3. ASSUME NEW q \in Reads, NEW j \in DOMAIN buffer'[q], buffer'[q][j] # None PROVE j <= Got(q)'
    <3>1. j \in Nat
      <4>1. buffer[q] \in Seq(Byte \cup {None})
        BY DEF AnyInv, TypeOK
      <4> QED BY <1>6, <4>1
    <3>2. CASE Fresh(q, j)
      BY <1>7, <3>2
    <3>3. CASE ~Fresh(q, j)
      <4>1. j \in DOMAIN buffer[q] /\ buffer[q][j] # None
        BY <1>6, <2>3, <3>3
      <4>2. j <= Got(q)
        BY <4>1 DEF OnceInv, Unfilled
      <4> QED BY <2>2, <3>1, <4>2
    <3> QED BY <3>2, <3>3
  <2> QED BY <2>1, <2>2, <2>3 DEF Unfilled
<1>10. ASSUME NEW q \in Reads, NEW j \in DOMAIN buffer'[q], buffer'[q][j] # None
       PROVE  \E i \in 1..received' : buffer'[q][j] = sent[i] /\ i \in 1..Len(sent) /\ (i > received <=> Fresh(q, j))
  <2>1. CASE Fresh(q, j)
    BY <1>6, <1>7, <2>1
  <2>2. CASE ~Fresh(q, j)
    <3>1. j \in DOMAIN buffer[q] /\ buffer[q][j] # None /\ buffer'[q][j] = buffer[q][j]
      BY <1>6, <1>10, <2>2
    <3>2. PICK i \in 1..received : buffer[q][j] = sent[i]
      BY <3>1 DEF OnceInv, Placed
    <3>3. i \in 1..received' /\ i \in 1..Len(sent) /\ ~(i > received)
      BY <1>1, <1>4
    <3> QED BY <2>2, <3>1, <3>2, <3>3
  <2> QED BY <2>1, <2>2
<1>11. ASSUME NEW i \in 1..received'
       PROVE  \E q \in Reads : \E j \in DOMAIN buffer'[q] : buffer'[q][j] = sent[i]
  <2>1. CASE i <= received
    <3>1. i \in 1..received /\ i \in 1..Len(sent)
      BY <1>1, <1>4, <2>1
    <3>2. PICK q \in Reads : \E j \in DOMAIN buffer[q] : buffer[q][j] = sent[i]
      BY <3>1 DEF OnceInv, Placed
    <3>3. PICK j \in DOMAIN buffer[q] : buffer[q][j] = sent[i]
      BY <3>2
    <3>4. ~Fresh(q, j)
      BY <1>7, <3>1, <3>3, SentBytes
    <3> QED BY <1>6, <3>3, <3>4
  <2>2. CASE i > received
    <3> DEFINE j == offset[r] + (i - received)
    <3>1. Fresh(r, j) /\ Index(j) = i
      BY <1>1, <1>4, <2>2 DEF Index
    <3>2. j \in DOMAIN buffer[r] /\ buffer'[r][j] = sent[Index(j)]
      BY <1>6, <1>7, <3>1
    <3> QED BY <1>6, <3>1, <3>2
  <2>3. i \in Nat /\ received \in Nat
    BY <1>1, <1>4
  <2> QED BY <2>1, <2>2, <2>3
<1>12. ASSUME NEW p \in Reads, NEW q \in Reads, NEW i \in DOMAIN buffer'[p], NEW j \in DOMAIN buffer'[q],
              buffer'[p][i] # None, buffer'[p][i] = buffer'[q][j]
       PROVE  p = q /\ i = j
  <2>1. PICK a \in 1..received' :
          buffer'[p][i] = sent[a] /\ a \in 1..Len(sent) /\ (a > received <=> Fresh(p, i))
    BY <1>10, <1>12
  <2>2. PICK b \in 1..received' :
          buffer'[q][j] = sent[b] /\ b \in 1..Len(sent) /\ (b > received <=> Fresh(q, j))
    BY <1>10, <1>12
  <2>3. a = b
    BY <1>12, <2>1, <2>2 DEF OnceInv, SentOnce
  <2>4. CASE Fresh(p, i)
    <3>1. Fresh(q, j) /\ p = q
      BY <2>1, <2>2, <2>3, <2>4
    <3>2. sent[Index(i)] = sent[Index(j)] /\ Index(i) \in 1..Len(sent) /\ Index(j) \in 1..Len(sent)
      BY <1>6, <1>7, <1>12, <2>4, <3>1
    <3>3. Index(i) = Index(j)
      BY <3>2 DEF OnceInv, SentOnce
    <3>4. i \in Nat /\ j \in Nat
      BY <1>4, <2>4, <3>1
    <3> QED BY <1>4, <3>1, <3>3, <3>4 DEF Index
  <2>5. CASE ~Fresh(p, i)
    <3>1. ~Fresh(q, j)
      BY <2>1, <2>2, <2>3, <2>5
    <3>2. /\ i \in DOMAIN buffer[p] /\ buffer'[p][i] = buffer[p][i]
          /\ j \in DOMAIN buffer[q] /\ buffer'[q][j] = buffer[q][j]
      BY <1>6, <2>5, <3>1
    <3>3. buffer[p][i] # None /\ buffer[p][i] = buffer[q][j]
      BY <1>12, <3>2
    <3> QED BY <3>2, <3>3 DEF OnceInv, Placed
  <2> QED BY <2>4, <2>5
<1>13. Placed'
  <2>1. ASSUME NEW q \in Reads, NEW j \in DOMAIN buffer'[q], buffer'[q][j] # None
        PROVE  \E i \in 1..received' : buffer'[q][j] = sent'[i]
    <3>1. PICK i \in 1..received' : buffer'[q][j] = sent[i]
      BY <1>10, <2>1
    <3>2. sent'[i] = sent[i]
      BY <1>1
    <3> QED BY <3>1, <3>2
  <2>2. \A i \in 1..received' : \E q \in Reads : \E j \in DOMAIN buffer'[q] : buffer'[q][j] = sent'[i]
    BY <1>1, <1>11
  <2>3. \A p, q \in Reads : \A i \in DOMAIN buffer'[p], j \in DOMAIN buffer'[q] :
          buffer'[p][i] # None /\ buffer'[p][i] = buffer'[q][j] => p = q /\ i = j
    BY <1>12
  <2> QED BY <2>1, <2>2, <2>3 DEF Placed
<1> QED BY <1>8, <1>9, <1>13 DEF OnceInv

LEMMA OnceStep ==
  ASSUME AnyInv, OnceInv, [Next]_vars PROVE OnceInv'
<1>1. ASSUME LinkStep PROVE OnceInv'
  BY <1>1, OnceKept DEF LinkStep, callVars, Got
<1> QED BY <1>1, Steps, OnceCall, OnceReceive, OnceSend, OnceFail, OnceTake DEF AnyInv

LEMMA OnceInit ==
  ASSUME Init PROVE OnceInv
<1>1. /\ sent = <<>> /\ received = 0 /\ \A r \in Reads : buffer[r] = <<>>
      /\ \A r \in Reads : Got(r) = 0
  BY DEF Init, Got, Calls
<1> QED BY <1>1 DEF OnceInv, SentOnce, Unfilled, Placed

\* Every byte is sent once, and what was received is in one place.
THEOREM OnceInvariant == Spec => [](AnyInv /\ OnceInv)
<1>1. Init => AnyInv /\ OnceInv
  BY AnyInit, OnceInit
<1>2. (AnyInv /\ OnceInv) /\ [Next]_vars => (AnyInv /\ OnceInv)'
  BY AnyStep, OnceStep
<1> QED BY <1>1, <1>2, PTL DEF Spec

\* The bytes that left the connection are in the readers' buffers, each of
\* them once, however calls overlap and wherever the connection breaks.
THEOREM NoByteIsLost == Spec => []NothingLost
<1>1. AnyInv /\ OnceInv => NothingLost
  <2> SUFFICES ASSUME AnyInv, OnceInv PROVE NothingLost
    OBVIOUS
  <2> DEFINE Place == {p \in Reads \X (1..Len(sent)) :
                         p[2] \in DOMAIN buffer[p[1]] /\ buffer[p[1]][p[2]] # None}
             At(p) == buffer[p[1]][p[2]]
  <2>1. /\ received \in Nat /\ received <= Len(sent) /\ Len(sent) \in Nat
        /\ \A r \in Reads : buffer[r] \in Seq(Byte \cup {None})
    BY DEF AnyInv, TypeOK
  <2>2. ASSUME NEW r \in Reads, NEW j \in DOMAIN buffer[r], buffer[r][j] # None
        PROVE  <<r, j>> \in Place
    <3>1. j \in Nat /\ j >= 1
      BY <2>1
    <3>2. j <= Got(r) /\ Got(r) <= received /\ Got(r) \in Nat
      BY <2>2, GotNat DEF OnceInv, Unfilled, Calls
    <3>3. j \in 1..Len(sent)
      BY <2>1, <3>1, <3>2
    <3> QED BY <2>2, <3>3
  <2>3. ASSUME NEW p \in Place PROVE At(p) \in {sent[i] : i \in 1..received}
    BY DEF OnceInv, Placed
  <2>4. ASSUME NEW i \in 1..received PROVE sent[i] \in {At(p) : p \in Place}
    <3>1. PICK r \in Reads : \E j \in DOMAIN buffer[r] : buffer[r][j] = sent[i]
      BY DEF OnceInv, Placed
    <3>2. PICK j \in DOMAIN buffer[r] : buffer[r][j] = sent[i]
      BY <3>1
    <3>3. sent[i] # None
      BY <2>1, SentBytes
    <3>4. <<r, j>> \in Place /\ At(<<r, j>>) = sent[i]
      BY <2>2, <3>2, <3>3
    <3> QED BY <3>4
  <2>5. ASSUME NEW p \in Place, NEW q \in Place, At(p) = At(q) PROVE p = q
    <3>1. p[1] = q[1] /\ p[2] = q[2]
      BY <2>5 DEF OnceInv, Placed
    <3>2. p = <<p[1], p[2]>> /\ q = <<q[1], q[2]>>
      OBVIOUS
    <3> QED BY <3>1, <3>2
  <2>6. {At(p) : p \in Place} = {sent[i] : i \in 1..received}
    BY <2>3, <2>4
  <2> QED BY <2>5, <2>6 DEF NothingLost
<1> QED BY <1>1, OnceInvariant, PTL

-----------------------------------------------------------------------------
(* Stream implements ByteStream: every step of Stream, with one call at a  *)
(* time on each side, is a step of ByteStream, or none.                    *)

\* The write that is going on sent the last byte of the stream.
LastSent ==
  \A w \in Writes : Active(w) /\ Got(w) # 0 =>
    sent # <<>> /\ sent[Len(sent)] = <<w, Got(w)>>

RefInv == AnyInv /\ ExclusiveInv /\ OnceInv /\ LastSent

-----------------------------------------------------------------------------
(* The last byte of the stream                                             *)

\* A step that sends nothing and starts only what has moved nothing.
LEMMA LastKept ==
  ASSUME LastSent, sent' = sent, \A w \in Writes : Got(w)' = Got(w),
         \A w \in Writes : Active(w)' => Active(w) \/ Got(w) = 0
  PROVE  LastSent'
BY DEF LastSent

LEMMA LastCall ==
  ASSUME AnyInv, LastSent, NEW x \in Calls, NEW c \in Counts, NEW st \in Outcomes, CallStep(x, c, st)
  PROVE  LastSent'
<1>1. /\ state[x] = "idle" /\ NewState(x, st, asked[Side(x)])
      /\ UNCHANGED <<offset, sent, result>>
  BY DEF CallStep, MayCall
<1>2. \A y \in Calls : state'[y] = IF y = x THEN st ELSE state[y]
  BY <1>1 DEF NewState, AnyInv, TypeOK
<1>3. \A y \in Calls : Got(y)' = Got(y)
  BY <1>1, <1>2 DEF Got, Outcomes
<1>4. Got(x) = 0
  BY <1>1, GotNat DEF AnyInv, Budget
<1>5. \A w \in Writes : Active(w)' => Active(w) \/ Got(w) = 0
  BY <1>2, <1>4 DEF Active, Calls
<1> QED BY <1>1, <1>3, <1>5, LastKept DEF Calls

LEMMA LastTake ==
  ASSUME AnyInv, LastSent, NEW x \in Calls, NEW st \in Outcomes, TakeStep(x, st)
  PROVE  LastSent'
<1>1. state[x] = "moved" /\ NewState(x, st, asked[Side(x)]) /\ sent' = sent
  BY DEF TakeStep, transport
<1>2. \A y \in Calls : state'[y] = IF y = x THEN st ELSE state[y]
  BY <1>1 DEF NewState, AnyInv, TypeOK
<1>3. \A w \in Writes : Active(w)' => Active(w)
  BY <1>1, <1>2 DEF Active, Calls
<1> QED BY <1>1, <1>3, TakeGot, LastKept DEF Calls

LEMMA LastReceive ==
  ASSUME AnyInv, ExclusiveInv, LastSent, Receive PROVE LastSent'
<1>0. PICK r \in Reads : r = Head(asked["read"])
  BY ReceiveEffect
<1>1. PICK k \in Nat : asked["read"] # <<>> /\ sent' = sent /\ Moved("read", k)
  BY ReceiveEffect
<1>2. "read" \in Sides /\ \A w \in Writes : w \in Calls /\ w # r
  BY StreamAssumption DEF Sides, Calls
<1>3. \A y \in Calls : Got(y)' = IF y = r /\ k # None THEN Got(y) + k ELSE Got(y)
  BY <1>0, <1>1, <1>2, MovedGot
<1>4. \A y \in Calls : state'[y] = IF y = r THEN "moved" ELSE state[y]
  BY <1>0, <1>1, <1>2, ExclusiveMoved
<1>5. \A w \in Writes : Got(w)' = Got(w) /\ (Active(w)' => Active(w))
  BY <1>2, <1>3, <1>4 DEF Active
<1> QED BY <1>1, <1>5, LastKept

LEMMA LastFail ==
  ASSUME AnyInv, ExclusiveInv, LastSent, NEW d \in Sides, Fail(d) PROVE LastSent'
<1>0. asked[d] # <<>> /\ Moved(d, None) /\ sent' = sent
  BY DEF Fail
<1>1. PICK x \in Calls : x = Head(asked[d]) /\ state[x] = "asked"
  BY <1>0, MovedGot
<1>2. \A y \in Calls : Got(y)' = Got(y)
  BY <1>0, MovedGot
<1>3. \A y \in Calls : state'[y] = IF y = x THEN "moved" ELSE state[y]
  BY <1>0, <1>1, ExclusiveMoved
<1>4. \A w \in Writes : Active(w)' => Active(w)
  BY <1>1, <1>3 DEF Active, Calls
<1> QED BY <1>0, <1>2, <1>4, LastKept DEF Calls

\* What Send does: write w, which has sent offset[w], sends k more.
LEMMA SendForm ==
  ASSUME AnyInv, ExclusiveInv, Send
  PROVE  \E w \in Writes, k \in Nat :
           /\ state[w] = "asked" /\ k <= n[w]
           /\ sent' = sent \o [i \in 1..k |-> <<w, offset[w] + i>>]
           /\ UNCHANGED <<received, buffer, offset, count, from>>
           /\ \A y \in Calls : /\ Got(y)' = IF y = w THEN Got(y) + k ELSE Got(y)
                               /\ state'[y] = IF y = w THEN "moved" ELSE state[y]
<1>0. PICK w \in Writes : w = Head(asked["write"])
  BY SendEffect
<1>1. PICK k \in Nat :
        /\ asked["write"] # <<>> /\ state[w] = "asked" /\ k <= n[w]
        /\ sent' = sent \o [i \in 1..k |-> <<w, offset[w] + i>>]
        /\ UNCHANGED <<received, buffer>> /\ Moved("write", k)
  BY <1>0, SendEffect
<1>2. k # None /\ "write" \in Sides
  BY StreamAssumption DEF Sides
<1>3. \A y \in Calls : Got(y)' = IF y = w THEN Got(y) + k ELSE Got(y)
  BY <1>0, <1>1, <1>2, MovedGot
<1>4. /\ UNCHANGED <<offset, count, from>>
      /\ \A y \in Calls : state'[y] = IF y = w THEN "moved" ELSE state[y]
  BY <1>0, <1>1, <1>2, ExclusiveMoved
<1> QED BY <1>1, <1>3, <1>4

LEMMA LastSend ==
  ASSUME AnyInv, ExclusiveInv, LastSent, Send PROVE LastSent'
<1>1. PICK w \in Writes, k \in Nat :
           /\ state[w] = "asked" /\ k <= n[w]
           /\ sent' = sent \o [i \in 1..k |-> <<w, offset[w] + i>>]
           /\ UNCHANGED <<received, buffer, offset, count, from>>
           /\ \A y \in Calls : /\ Got(y)' = IF y = w THEN Got(y) + k ELSE Got(y)
                               /\ state'[y] = IF y = w THEN "moved" ELSE state[y]
  BY SendForm
<1>2. w \in Calls /\ sent \in Seq(Byte) /\ offset[w] \in Nat /\ Got(w) = offset[w]
  BY <1>1, GotNat DEF Calls, AnyInv, TypeOK
<1>3. ASSUME NEW v \in Writes, Active(v)' PROVE v = w
  <2>1. v \in Calls /\ Side(v) = "write" /\ Side(w) = "write"
    BY StreamAssumption DEF Calls, Side
  <2>2. CASE v # w
    <3>1. Active(v) /\ Active(w)
      BY <1>1, <1>3, <2>1, <2>2 DEF Active
    <3> QED BY <1>2, <2>1, <3>1 DEF ExclusiveInv, OneAtATime
  <2> QED BY <2>2
<1>4. [i \in 1..k |-> <<w, offset[w] + i>>] \in Seq(Byte)
  BY <1>2 DEF Byte
<1>5. ASSUME Got(w)' # 0 PROVE sent' # <<>> /\ sent'[Len(sent')] = <<w, Got(w)'>>
  <2>1. Got(w)' = offset[w] + k
    BY <1>1, <1>2
  <2>2. CASE k = 0
    <3>1. sent' = sent
      BY <1>1, <1>2, <1>4, <2>2
    <3>2. Active(w) /\ Got(w) # 0 /\ Got(w)' = Got(w)
      BY <1>1, <1>2, <1>5, <2>1, <2>2 DEF Active
    <3> QED BY <3>1, <3>2 DEF LastSent
  <2>3. CASE k # 0
    <3>1. Len(sent') = Len(sent) + k /\ sent'[Len(sent) + k] = <<w, offset[w] + k>>
      BY <1>1, <1>2, <1>4, <2>3
    <3> QED BY <1>2, <2>1, <2>3, <3>1
  <2> QED BY <2>2, <2>3
<1> QED BY <1>3, <1>5 DEF LastSent

LEMMA LastStep ==
  ASSUME AnyInv, ExclusiveInv, LastSent, [Next]_vars PROVE LastSent'
<1>1. ASSUME LinkStep PROVE LastSent'
  BY <1>1 DEF LinkStep, callVars, LastSent, Got, Active
<1> QED BY <1>1, Steps, LastCall, LastReceive, LastSend, LastFail, LastTake DEF AnyInv

-----------------------------------------------------------------------------
(* What the steps do to the byte stream                                    *)

LEMMA Only ==
  ASSUME NEW S, NEW r \in S, \A q \in S : q = r
  PROVE  (CHOOSE q \in S : TRUE) = r
OBVIOUS

\* The bytes that finished reads have taken, while a read goes on and while
\* none does, in this state and in the next.
LEMMA TakenNow ==
  ASSUME ExclusiveInv
  PROVE  /\ \A r \in Reads : Active(r) => AbstractTaken = from[r]
         /\ (\A r \in Reads : ~Active(r)) => AbstractTaken = received
<1>1. ASSUME NEW r \in Reads, Active(r) PROVE AbstractTaken = from[r]
  <2>1. r \in Reading /\ \A q \in Reading : q = r
    BY <1>1 DEF Reading, ExclusiveInv, OneAtATime, Calls, Side
  <2>2. (CHOOSE q \in Reading : TRUE) = r
    BY <2>1, Only
  <2> QED BY <2>1, <2>2 DEF AbstractTaken
<1> QED BY <1>1 DEF AbstractTaken, Reading

LEMMA TakenNext ==
  ASSUME ExclusiveInv'
  PROVE  /\ \A r \in Reads : Active(r)' => AbstractTaken' = from'[r]
         /\ (\A r \in Reads : ~Active(r)') => AbstractTaken' = received'
<1>1. ASSUME NEW r \in Reads, Active(r)' PROVE AbstractTaken' = from'[r]
  <2>1. r \in Reading' /\ \A q \in Reading' : q = r
    BY <1>1 DEF Reading, ExclusiveInv, OneAtATime, Calls, Side
  <2>2. (CHOOSE q \in Reading' : TRUE) = r
    BY <2>1, Only
  <2> QED BY <2>1, <2>2 DEF AbstractTaken
<1> QED BY <1>1 DEF AbstractTaken, Reading

\* The reads go on as they did.
LEMMA TakenKept ==
  ASSUME ExclusiveInv, ExclusiveInv',
         \A r \in Reads : (Active(r)' <=> Active(r)) /\ (Active(r) => from'[r] = from[r]),
         (\A r \in Reads : ~Active(r)) => received' = received
  PROVE  AbstractTaken' = AbstractTaken
<1>1. CASE \E r \in Reads : Active(r)
  BY <1>1, TakenNow, TakenNext
<1>2. CASE \A r \in Reads : ~Active(r)
  BY <1>2, TakenNow, TakenNext
<1> QED BY <1>1, <1>2

\* What a read has returned stays what it was.
LEMMA DataKept ==
  ASSUME \A r \in Reads : /\ state'[r] = "done" <=> state[r] = "done"
                          /\ state[r] = "done" => /\ buffer'[r] = buffer[r] /\ offset'[r] = offset[r]
                                                  /\ count'[r] = count[r]
  PROVE  AbstractData' = AbstractData
<1>1. ASSUME NEW r \in Reads
      PROVE  (IF state'[r] = "done" THEN [i \in 1..Filled(r)' |-> buffer'[r][i]] ELSE <<>>)
             = (IF state[r] = "done" THEN [i \in 1..Filled(r) |-> buffer[r][i]] ELSE <<>>)
  <2>1. CASE state[r] = "done"
    <3>1. Filled(r)' = Filled(r) /\ buffer'[r] = buffer[r]
      BY <2>1 DEF Filled
    <3> QED BY <2>1, <3>1
  <2>2. CASE state[r] # "done"
    BY <2>2
  <2> QED BY <2>1, <2>2
<1> QED BY <1>1 DEF AbstractData

\* A step that neither starts nor ends a call.
LEMMA StatusKept ==
  ASSUME \A x \in Calls : (Active(x)' <=> Active(x)) /\ (~Active(x) => state'[x] = state[x])
  PROVE  AbstractStatus' = AbstractStatus
<1>1. \A x \in Calls : (IF Active(x)' THEN "active" ELSE state'[x]) = (IF Active(x) THEN "active" ELSE state[x])
  OBVIOUS
<1> QED BY <1>1 DEF AbstractStatus

\* A step that moves call x, of those going on, and no byte to the stream.
LEMMA MoveIsStutter ==
  ASSUME AnyInv, ExclusiveInv, ExclusiveInv', NEW x \in Calls, Active(x), Active(x)',
         \A y \in Calls : y # x => state'[y] = state[y] /\ offset'[y] = offset[y],
         \A r \in Reads : r # x => buffer'[r] = buffer[r],
         UNCHANGED <<sent, count, from>>, x \notin Reads => received' = received
  PROVE  UNCHANGED Bytes!avars
<1>1. \A y \in Calls : (Active(y)' <=> Active(y)) /\ (~Active(y) => state'[y] = state[y])
  BY DEF Active
<1>2. AbstractStatus' = AbstractStatus
  BY <1>1, StatusKept
<1>3. AbstractTaken' = AbstractTaken
  <2>1. (\A r \in Reads : ~Active(r)) => received' = received
    OBVIOUS
  <2> QED BY <1>1, <2>1, TakenKept DEF Calls
<1>4. AbstractData' = AbstractData
  <2>1. ASSUME NEW r \in Reads
        PROVE  /\ state'[r] = "done" <=> state[r] = "done"
               /\ state[r] = "done" => /\ buffer'[r] = buffer[r] /\ offset'[r] = offset[r]
                                       /\ count'[r] = count[r]
    BY DEF Active, Calls
  <2> QED BY <2>1, DataKept
<1> QED BY <1>2, <1>3, <1>4 DEF Bytes!avars

LEMMA StepReceive ==
  ASSUME RefInv, ExclusiveInv', Receive PROVE UNCHANGED Bytes!avars
<1>0. PICK r \in Reads : r = Head(asked["read"])
  BY ReceiveEffect DEF RefInv
<1>1. PICK k \in Nat :
        /\ asked["read"] # <<>> /\ r \in Calls /\ state[r] = "asked"
        /\ buffer' = [buffer EXCEPT ![r] = [i \in 1..count[r] |->
             IF i \in offset[r]+1 .. offset[r]+k THEN sent[received + i - offset[r]] ELSE buffer[r][i]]]
        /\ sent' = sent /\ Moved("read", k)
  BY <1>0, ReceiveEffect DEF RefInv
<1>2. "read" \in Sides
  BY DEF Sides
<1>3. /\ UNCHANGED <<count, offset, from>>
      /\ \A y \in Calls : state'[y] = IF y = r THEN "moved" ELSE state[y]
  BY <1>0, <1>1, <1>2, ExclusiveMoved DEF RefInv
<1>4. \A q \in Reads : q # r => buffer'[q] = buffer[q]
  BY <1>1 DEF RefInv, AnyInv, TypeOK
<1>5. Active(r) /\ Active(r)'
  BY <1>1, <1>3 DEF Active
<1> QED BY <1>1, <1>3, <1>4, <1>5, MoveIsStutter DEF RefInv

LEMMA StepFail ==
  ASSUME RefInv, ExclusiveInv', NEW d \in Sides, Fail(d) PROVE UNCHANGED Bytes!avars
<1>0. asked[d] # <<>> /\ Moved(d, None) /\ UNCHANGED <<sent, received, buffer>>
  BY DEF Fail
<1>1. PICK x \in Calls : x = Head(asked[d]) /\ state[x] = "asked"
  BY <1>0, MovedGot DEF RefInv
<1>2. /\ UNCHANGED <<count, offset, from>>
      /\ \A y \in Calls : state'[y] = IF y = x THEN "moved" ELSE state[y]
  BY <1>0, <1>1, ExclusiveMoved DEF RefInv
<1>3. Active(x) /\ Active(x)'
  BY <1>1, <1>2 DEF Active
<1> QED BY <1>0, <1>1, <1>2, <1>3, MoveIsStutter DEF RefInv

LEMMA StepSend ==
  ASSUME RefInv, ExclusiveInv', Send PROVE Bytes!ANext
<1>1. PICK w \in Writes, k \in Nat :
           /\ state[w] = "asked" /\ k <= n[w]
           /\ sent' = sent \o [i \in 1..k |-> <<w, offset[w] + i>>]
           /\ UNCHANGED <<received, buffer, offset, count, from>>
           /\ \A y \in Calls : /\ Got(y)' = IF y = w THEN Got(y) + k ELSE Got(y)
                               /\ state'[y] = IF y = w THEN "moved" ELSE state[y]
  BY SendForm DEF RefInv
<1>2. /\ w \in Calls /\ w \notin Reads /\ offset[w] \in Nat /\ n[w] \in Nat /\ Got(w) = offset[w]
      /\ offset[w] + n[w] = count[w] /\ Active(w)
  BY <1>1, GotNat, StreamAssumption DEF Calls, RefInv, AnyInv, TypeOK, Budget, Active
<1>3. AbstractStatus' = AbstractStatus
  <2>1. \A y \in Calls : (Active(y)' <=> Active(y)) /\ (~Active(y) => state'[y] = state[y])
    BY <1>1 DEF Active
  <2> QED BY <2>1, StatusKept
<1>4. AbstractTaken' = AbstractTaken
  <2>1. \A r \in Reads : (Active(r)' <=> Active(r)) /\ (Active(r) => from'[r] = from[r])
    BY <1>1, <1>2 DEF Active, Calls
  <2> QED BY <1>1, <2>1, TakenKept DEF RefInv
<1>5. AbstractData' = AbstractData
  BY <1>1, <1>2, DataKept DEF Calls
<1>6. offset[w] \in 0..count[w] /\ k \in 0..count[w] /\ offset[w] + k <= count[w]
  BY <1>1, <1>2
<1>7. AbstractStatus[w] = "active"
  BY <1>2 DEF AbstractStatus
<1>8. IF offset[w] = 0 THEN \A j \in 1..Len(sent) : sent[j][1] # w ELSE Bytes!Last(w, offset[w])
  BY <1>2 DEF Bytes!Last, RefInv, OnceInv, SentOnce, LastSent
<1>9. Bytes!Send(w, offset[w], k)
  BY <1>1, <1>3, <1>4, <1>5, <1>6, <1>7, <1>8 DEF Bytes!Send
<1> QED BY <1>6, <1>9 DEF Bytes!ANext

LEMMA StepCall ==
  ASSUME Exclusive, RefInv, ExclusiveInv', NEW x \in Calls, NEW c \in Counts, NEW st \in Outcomes,
         CallStep(x, c, st)
  PROVE  Bytes!ANext
<1>1. /\ state[x] = "idle" /\ \A y \in Calls : Side(y) = Side(x) => ~Active(y)
      /\ NewState(x, st, asked[Side(x)]) /\ (st = "done" => c = 0)
      /\ count' = [count EXCEPT ![x] = c] /\ from' = [from EXCEPT ![x] = received]
      /\ buffer' = IF x \in Reads THEN [buffer EXCEPT ![x] = [i \in 1..c |-> None]] ELSE buffer
      /\ UNCHANGED <<offset, sent, received>>
  BY DEF CallStep, MayCall
<1>2. \A y \in Calls : state'[y] = IF y = x THEN st ELSE state[y]
  BY <1>1 DEF NewState, RefInv, AnyInv, TypeOK
<1>3. AbstractStatus[x] = "idle"
  BY <1>1 DEF AbstractStatus, Active
<1>4. ASSUME NEW y \in Calls, AbstractStatus[y] = "active" PROVE (y \in Reads) # (x \in Reads)
  <2>1. Active(y)
    BY <1>4 DEF AbstractStatus, RefInv, AnyInv, TypeOK
  <2> QED BY <1>1, <2>1 DEF Side
<1>5. /\ (IF st = "asked" THEN "active" ELSE st)
           \in {"active", "failed"} \cup (IF c = 0 THEN {"done"} ELSE {})
      /\ AbstractStatus' = [AbstractStatus EXCEPT ![x] = IF st = "asked" THEN "active" ELSE st]
  <2>1. \A y \in Calls : (IF Active(y)' THEN "active" ELSE state'[y]) =
          IF y = x THEN IF st = "asked" THEN "active" ELSE st
                   ELSE IF Active(y) THEN "active" ELSE state[y]
    BY <1>2 DEF Active, Outcomes
  <2> QED BY <1>1, <2>1 DEF AbstractStatus, Outcomes
<1>6. AbstractTaken' = AbstractTaken
  <2>1. CASE x \in Reads
    <3>1. \A r \in Reads : ~Active(r)
      BY <1>1, <2>1 DEF Side, Calls
    <3>2. \A r \in Reads : Active(r)' => r = x
      BY <1>2, <3>1 DEF Active, Calls
    <3>3. AbstractTaken = received
      BY <3>1, TakenNow DEF RefInv
    <3>4. from'[x] = received /\ received' = received
      BY <1>1 DEF RefInv, AnyInv, TypeOK
    <3>5. CASE Active(x)'
      BY <2>1, <3>3, <3>4, <3>5, TakenNext
    <3>6. CASE ~Active(x)'
      BY <3>2, <3>3, <3>4, <3>6, TakenNext
    <3> QED BY <3>5, <3>6
  <2>2. CASE x \notin Reads
    <3>1. \A r \in Reads : (Active(r)' <=> Active(r)) /\ (Active(r) => from'[r] = from[r])
      BY <1>1, <1>2, <2>2 DEF Active, Calls, RefInv, AnyInv, TypeOK
    <3> QED BY <1>1, <3>1, TakenKept DEF RefInv
  <2> QED BY <2>1, <2>2
<1>7. AbstractData' = AbstractData
  <2>1. ASSUME NEW r \in Reads
        PROVE  (IF state'[r] = "done" THEN [i \in 1..Filled(r)' |-> buffer'[r][i]] ELSE <<>>)
               = (IF state[r] = "done" THEN [i \in 1..Filled(r) |-> buffer[r][i]] ELSE <<>>)
    <3>1. CASE r = x
      <4>1. CASE st = "done"
        <5>1. Filled(r)' = 0
          BY <1>1, <3>1, <4>1 DEF Filled, RefInv, AnyInv, TypeOK, Budget
        <5>2. [i \in 1..Filled(r)' |-> buffer'[r][i]] = <<>>
          BY <5>1
        <5> QED BY <1>1, <3>1, <5>2
      <4>2. CASE st # "done"
        BY <1>1, <1>2, <3>1, <4>2 DEF Calls
      <4> QED BY <4>1, <4>2
    <3>2. CASE r # x
      <4>1. /\ state'[r] = state[r] /\ buffer'[r] = buffer[r] /\ count'[r] = count[r]
            /\ offset'[r] = offset[r]
        BY <1>1, <1>2, <3>2 DEF Calls, RefInv, AnyInv, TypeOK
      <4>2. Filled(r)' = Filled(r)
        BY <4>1 DEF Filled
      <4> QED BY <4>1, <4>2
    <3> QED BY <3>1, <3>2
  <2> QED BY <2>1 DEF AbstractData
<1>8. Bytes!Start(x, c)
  BY <1>1, <1>3, <1>4, <1>5, <1>6, <1>7 DEF Bytes!Start, Bytes!ACalls, Calls
<1> QED BY <1>8 DEF Bytes!ANext, Bytes!ACalls, Calls

\* A part of a sequence, element by element.
LEMMA PartOf ==
  ASSUME NEW S, NEW s \in Seq(S), NEW f \in Nat, NEW g \in Nat, f + g <= Len(s)
  PROVE  SubSeq(s, f + 1, f + g) = [i \in 1..g |-> s[f + i]]
OBVIOUS

\* The bytes that a finished read returns.
LEMMA ReadReturns ==
  ASSUME AnyInv, Content, NEW r \in Reads, state[r] # "idle", from[r] + Got(r) <= received
  PROVE  [i \in 1..Got(r) |-> buffer[r][i]] = SubSeq(sent, from[r] + 1, from[r] + Got(r))
<1>1. /\ Got(r) \in Nat /\ from[r] \in Nat /\ received \in 0..Len(sent)
      /\ sent \in Seq(Byte) /\ Len(sent) \in Nat
  BY GotNat DEF Calls, AnyInv, TypeOK
<1>2. from[r] + Got(r) <= Len(sent)
  BY <1>1
<1>3. SubSeq(sent, from[r] + 1, from[r] + Got(r)) = [i \in 1..Got(r) |-> sent[from[r] + i]]
  BY <1>1, <1>2, PartOf
<1>4. \A i \in 1..Got(r) : buffer[r][i] = sent[from[r] + i]
  BY DEF Content
<1> QED BY <1>3, <1>4

LEMMA StepTake ==
  ASSUME RefInv, ExclusiveInv', NEW x \in Calls, NEW st \in Outcomes, TakeStep(x, st)
  PROVE  Bytes!ANext \/ UNCHANGED Bytes!avars
<1>1. /\ state[x] = "moved" /\ NewState(x, st, asked[Side(x)])
      /\ UNCHANGED <<count, from, sent, received, buffer, result>>
  BY DEF TakeStep, transport
<1>2. \A y \in Calls : state'[y] = IF y = x THEN st ELSE state[y]
  BY <1>1 DEF NewState, RefInv, AnyInv, TypeOK
<1>3. \A y \in Calls : y # x => offset'[y] = offset[y]
  BY DEF TakeStep, RefInv, AnyInv, TypeOK
<1>4. Active(x) /\ AbstractStatus[x] = "active"
  BY <1>1 DEF Active, AbstractStatus
<1>5. CASE st = "asked"
  <2>1. Active(x)'
    BY <1>2, <1>5 DEF Active
  <2> QED BY <1>1, <1>2, <1>3, <1>4, <2>1, MoveIsStutter DEF RefInv
<1>6. ASSUME st # "asked"
      PROVE  /\ ~Active(x)' /\ AbstractStatus' = [AbstractStatus EXCEPT ![x] = st]
             /\ IF x \in Reads THEN AbstractTaken = from[x] /\ AbstractTaken' = received
                               ELSE AbstractTaken' = AbstractTaken
  <2>1. ~Active(x)' /\ \A y \in Calls : y # x => (Active(y)' <=> Active(y))
    BY <1>2, <1>6 DEF Active, Outcomes
  <2>2. \A y \in Calls : (IF Active(y)' THEN "active" ELSE state'[y]) =
          IF y = x THEN st ELSE IF Active(y) THEN "active" ELSE state[y]
    BY <1>2, <2>1
  <2>3. AbstractStatus' = [AbstractStatus EXCEPT ![x] = st]
    BY <2>2 DEF AbstractStatus
  <2>4. CASE x \in Reads
    <3>1. AbstractTaken = from[x]
      BY <1>4, <2>4, TakenNow DEF RefInv
    <3>2. \A r \in Reads : r # x => ~Active(r)
      BY <1>4, <2>4 DEF RefInv, ExclusiveInv, OneAtATime, Calls, Side
    <3>3. \A r \in Reads : ~Active(r)'
      BY <2>1, <3>2 DEF Calls
    <3> QED BY <1>1, <2>1, <2>3, <2>4, <3>1, <3>3, TakenNext
  <2>5. CASE x \notin Reads
    <3>1. \A r \in Reads : (Active(r)' <=> Active(r)) /\ (Active(r) => from'[r] = from[r])
      BY <1>1, <2>1, <2>5 DEF Calls
    <3>2. AbstractTaken' = AbstractTaken
      BY <1>1, <3>1, TakenKept DEF RefInv
    <3> QED BY <2>1, <2>3, <2>5, <3>2
  <2> QED BY <2>4, <2>5
<1>7. /\ received \in Nat /\ Len(sent) \in Nat /\ received <= Len(sent) /\ Got(x) \in Nat
      /\ x \in Reads => from[x] \in Nat /\ from[x] + Got(x) = received
  <2>1. received \in 0..Len(sent) /\ sent \in Seq(Byte) /\ from[x] \in Nat /\ Got(x) \in Nat
    BY GotNat DEF RefInv, AnyInv, TypeOK
  <2> QED BY <1>4, <2>1 DEF RefInv, ExclusiveInv, UpToDate
<1>8. CASE st = "failed"
  <2>1. AbstractData' = AbstractData
    BY <1>1, <1>2, <1>3, <1>8, DataKept DEF Calls
  <2>2. AbstractTaken' \in IF x \in Reads THEN AbstractTaken..Len(sent) ELSE {AbstractTaken}
    BY <1>6, <1>7, <1>8
  <2>3. Bytes!Failed(x)
    BY <1>1, <1>4, <1>6, <1>8, <2>1, <2>2 DEF Bytes!Failed
  <2> QED BY <2>3 DEF Bytes!ANext, Bytes!ACalls, Calls
<1>9. ASSUME st = "done"
      PROVE  /\ offset'[x] = Got(x) /\ Got(x) \in 0..count[x]
             /\ x \in Once \/ Got(x) = count[x]
  <2>1. /\ result[x] # None /\ offset' = [offset EXCEPT ![x] = @ + result[x]]
        /\ x \in Once \/ n[x] = result[x]
    BY <1>9 DEF TakeStep
  <2>2. Got(x) = offset[x] + result[x]
    BY <1>1, <2>1 DEF Got
  <2>3. /\ offset[x] \in Nat /\ n[x] \in Nat /\ result[x] \in Nat /\ result[x] <= n[x]
        /\ offset[x] + n[x] = count[x] /\ offset'[x] = offset[x] + result[x]
    BY <1>1, <1>4, <2>1 DEF RefInv, AnyInv, TypeOK, Budget
  <2> QED BY <2>1, <2>2, <2>3
<1>10. CASE st = "done" /\ x \in Reads
  <2>1. Filled(x)' = Got(x)
    BY <1>1, <1>9, <1>10 DEF Filled
  <2>2. /\ state'[x] = "done" /\ buffer' = buffer
        /\ [i \in 1..Got(x) |-> buffer[x][i]] = SubSeq(sent, from[x] + 1, from[x] + Got(x))
    BY <1>1, <1>2, <1>7, <1>10, ReadReturns DEF RefInv, ExclusiveInv
  <2>3. ASSUME NEW r \in Reads
        PROVE  (IF state'[r] = "done" THEN [i \in 1..Filled(r)' |-> buffer'[r][i]] ELSE <<>>) =
                 IF r = x THEN SubSeq(sent, from[x] + 1, from[x] + Got(x))
                 ELSE IF state[r] = "done" THEN [i \in 1..Filled(r) |-> buffer[r][i]] ELSE <<>>
    <3>1. CASE r = x
      BY <2>1, <2>2, <3>1
    <3>2. CASE r # x
      <4>1. state'[r] = state[r] /\ offset'[r] = offset[r] /\ count' = count
        BY <1>1, <1>2, <1>3, <3>2 DEF Calls
      <4>2. Filled(r)' = Filled(r)
        BY <4>1 DEF Filled
      <4> QED BY <2>2, <3>2, <4>1, <4>2
    <3> QED BY <3>1, <3>2
  <2>4. AbstractData' = [AbstractData EXCEPT ![x] = SubSeq(sent, from[x] + 1, from[x] + Got(x))]
    BY <2>3 DEF AbstractData
  <2>5. AbstractTaken = from[x] /\ AbstractTaken' = from[x] + Got(x)
    BY <1>6, <1>7, <1>10
  <2>6. AbstractTaken + Got(x) <= Len(sent)
    BY <1>7, <1>10, <2>5
  <2>7. Bytes!Returned(x, Got(x))
    BY <1>1, <1>4, <1>6, <1>9, <1>10, <2>4, <2>5, <2>6 DEF Bytes!Returned
  <2> QED BY <1>9, <1>10, <2>7 DEF Bytes!ANext
<1>11. CASE st = "done" /\ x \notin Reads
  <2>1. x \in Writes
    BY <1>11 DEF Calls
  <2>2. x \in Once \/ count[x] = 0 \/ Bytes!Last(x, count[x])
    BY <1>4, <1>9, <1>11, <2>1 DEF Bytes!Last, RefInv, LastSent
  <2>3. AbstractData' = AbstractData
    BY <1>1, <1>2, <1>3, <1>11, DataKept DEF Calls
  <2>4. Bytes!Written(x)
    BY <1>1, <1>4, <1>6, <1>11, <2>2, <2>3 DEF Bytes!Written
  <2> QED BY <2>1, <2>4 DEF Bytes!ANext
<1> QED BY <1>5, <1>8, <1>10, <1>11 DEF Outcomes

LEMMA StepLink ==
  ASSUME RefInv, ExclusiveInv', LinkStep PROVE UNCHANGED Bytes!avars
<1>1. UNCHANGED <<count, state, offset, from, sent, received, buffer>>
  BY DEF LinkStep, callVars
<1>2. \A x \in Calls : (Active(x)' <=> Active(x)) /\ (~Active(x) => state'[x] = state[x])
  BY <1>1 DEF Active
<1>3. AbstractTaken' = AbstractTaken
  BY <1>1, <1>2, TakenKept DEF RefInv, Calls
<1>4. AbstractStatus' = AbstractStatus /\ AbstractData' = AbstractData
  BY <1>1, <1>2, StatusKept, DataKept
<1> QED BY <1>1, <1>3, <1>4 DEF Bytes!avars

\* With one call at a time on each side, a pair of sockets is a byte stream:
\* every state of Stream maps to a state of ByteStream, its initial states to
\* the initial one, and its steps to steps or stutters.
THEOREM Refinement ==
  ASSUME Exclusive PROVE Spec => ImplementsByteStream
<1>1. Init => Bytes!AInit /\ RefInv
  <2> SUFFICES ASSUME Init PROVE Bytes!AInit /\ RefInv
    OBVIOUS
  <2>1. /\ \A x \in Calls : state[x] = "idle" /\ ~Active(x)
        /\ sent = <<>> /\ received = 0 /\ count = [x \in Calls |-> 0]
    BY DEF Init, Active
  <2>2. Reads \subseteq Calls /\ Writes \subseteq Calls
    BY DEF Calls
  <2>3. ExclusiveInv /\ LastSent
    BY <2>1, <2>2 DEF ExclusiveInv, OneAtATime, UpToDate, Content, LastSent
  <2>4. OnceInv
    BY OnceInit
  <2>5. AbstractTaken = 0
    BY <2>1, <2>2, <2>3, TakenNow
  <2>6. AbstractStatus = [x \in Calls |-> "idle"] /\ AbstractData = [r \in Reads |-> <<>>]
    BY <2>1, <2>2 DEF AbstractStatus, AbstractData
  <2> QED BY <2>1, <2>3, <2>4, <2>5, <2>6, AnyInit DEF RefInv, Bytes!AInit, Bytes!ACalls, Calls
<1>2. RefInv /\ [Next]_vars => RefInv'
  BY AnyStep, ExclusiveStep, OnceStep, LastStep DEF RefInv
<1>3. RefInv /\ RefInv' /\ [Next]_vars => [Bytes!ANext]_(Bytes!avars)
  <2> SUFFICES ASSUME RefInv, ExclusiveInv', [Next]_vars
               PROVE  Bytes!ANext \/ UNCHANGED Bytes!avars
    BY DEF RefInv
  <2> QED BY Steps, StepCall, StepReceive, StepSend, StepFail, StepTake, StepLink DEF RefInv, AnyInv
<1> QED BY <1>1, <1>2, <1>3, PTL DEF Spec, ImplementsByteStream, Bytes!ASpec
=============================================================================
