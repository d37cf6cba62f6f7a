-------------------------- MODULE Datagram_proofs --------------------------
(***************************************************************************)
(* Theorems about Datagram, for all sets of sockets, calls and blocks: a   *)
(* successful read reports the sender of the datagram in its buffer, and   *)
(* the blocks in use are those of the reads in progress, one each.         *)
(***************************************************************************)
EXTENDS Datagram, FiniteSetTheorems, TLAPS

\* The place of a read in progress is its stack frame or a block ...
Placed ==
  \A r \in Reads : Active(r) => place[r] \in (IF r \in Sync THEN {r} ELSE Cells)

\* ... and holds the sender's address once the datagram has been received.
Received ==
  \A r \in Reads : state[r] = "moved" =>
    /\ buffer[r] \in Writes /\ peer[buffer[r]] = On[r] /\ ret[r] = Size(buffer[r])
    /\ saddr[place[r]] = On[buffer[r]]

\* What has not been sent is neither on its way nor in a buffer.
Sent ==
  \A w \in Writes : state[w] \in {"idle", "asked"} =>
    net[w] = 0 /\ \A r \in Reads : buffer[r] # w

IInv == TypeOK /\ Placed /\ BlocksOwned /\ Received /\ Sent /\ SenderReported

LEMMA InitIInv == Init => IInv
<1> SUFFICES ASSUME Init PROVE IInv
  OBVIOUS
<1> USE DatagramAssumption
<1>1. TypeOK
  BY DEF Init, TypeOK
<1>2. Placed /\ Received /\ Sent /\ SenderReported
  BY DEF Init, Placed, Received, Sent, SenderReported, Active, Calls
<1>3. BlocksOwned
  BY DEF Init, BlocksOwned, Active, Calls
<1> QED BY <1>1, <1>2, <1>3 DEF IInv

\* Two reads in progress have two places.
LEMMA OtherPlace ==
  ASSUME Placed, BlocksOwned, NEW r \in Reads, NEW q \in Reads, Active(r), Active(q), q # r
  PROVE  place[q] # place[r]
<1>1. CASE r \in Sync \/ q \in Sync
  BY <1>1, DatagramAssumption DEF Placed
<1>2. CASE r \notin Sync /\ q \notin Sync
  BY <1>2 DEF BlocksOwned
<1> QED BY <1>1, <1>2

\* A number that a call reports.
LEMMA SizeNat == \A x \in Calls : Length(Count[x]) \in Nat
BY DatagramAssumption DEF Length

-----------------------------------------------------------------------------
LEMMA ReadFromInv ==
  ASSUME IInv, NEW r \in Reads, ReadFrom(r) PROVE IInv'
<1> USE DatagramAssumption DEF IInv
<1>0. PICK p \in PlaceFor(r) :
        \/ /\ state' = [state EXCEPT ![r] = "asked"]
           /\ place' = [place EXCEPT ![r] = p]
           /\ used' = used \cup ({p} \cap Cells)
        \/ state' = [state EXCEPT ![r] = "failed"] /\ UNCHANGED <<place, used>>
  BY DEF ReadFrom
<1>1. state[r] = "idle" /\ r \in Calls /\ r \notin Writes /\ UNCHANGED <<peer, saddr, buffer, endpoint, ret, net, port, closed>>
  BY DEF ReadFrom, MayCall, Calls, reports
<1>2. p \in (IF r \in Sync THEN {r} ELSE Cells) /\ (r \notin Sync => p \notin used)
  BY <1>0 DEF PlaceFor
<1>3. /\ \A q \in Reads : q # r => state'[q] = state[q] /\ place'[q] = place[q]
      /\ \A w \in Writes : state'[w] = state[w]
      /\ state'[r] \in {"asked", "failed"}
  BY <1>0, <1>1 DEF TypeOK, Calls
<1>4. TypeOK'
  <2>1. p \in Places
    BY <1>2 DEF Places
  <2>2. place' \in [Reads -> Places \cup {None}]
    <3>1. place \in [Reads -> Places \cup {None}]
      BY DEF TypeOK
    <3>2. CASE place' = [place EXCEPT ![r] = p]
      BY <3>1, <3>2, <2>1
    <3>3. CASE place' = place
      BY <3>1, <3>3
    <3> QED BY <3>2, <3>3, <1>0
  <2>3. used' \subseteq Cells
    BY <1>0 DEF TypeOK
  <2>4. state' \in [Calls -> {"idle", "asked", "moved", "broken", "done", "failed"}]
    BY <1>0, <1>1 DEF TypeOK
  <2> QED BY <2>2, <2>3, <2>4, <1>1 DEF TypeOK
<1>5. Placed'
  <2> SUFFICES ASSUME NEW q \in Reads, Active(q)' PROVE place'[q] \in (IF q \in Sync THEN {q} ELSE Cells)
    BY DEF Placed
  <2>1. CASE q = r
    BY <2>1, <1>0, <1>1, <1>2 DEF Active, TypeOK
  <2>2. CASE q # r
    BY <2>2, <1>3 DEF Active, Placed
  <2> QED BY <2>1, <2>2
<1>6. BlocksOwned'
  <2>1. CASE state'[r] = "failed"
    <3>1. UNCHANGED <<place, used>>
      BY <2>1, <1>0, <1>1 DEF TypeOK
    <3>2. \A q \in Reads : Active(q)' <=> Active(q)
      BY <2>1, <1>1, <1>3 DEF Active
    <3> QED BY <3>1, <3>2 DEF BlocksOwned
  <2>2. CASE state'[r] = "asked"
    <3>1. place'[r] = p /\ used' = used \cup ({p} \cap Cells) /\ Active(r)' /\ ~Active(r)
      BY <2>2, <1>0, <1>1 DEF TypeOK, Active
    <3>2. \A q \in Reads : q # r => (Active(q)' <=> Active(q)) /\ place'[q] = place[q]
      BY <1>3 DEF Active
    <3>3. CASE r \in Sync
      <4>1. used' = used
        BY <3>1, <3>3, <1>2
      <4>2. {q \in Reads \ Sync : Active(q)'} = {q \in Reads \ Sync : Active(q)}
        BY <3>2, <3>3
      <4> QED BY <4>1, <4>2, <3>2, <3>3 DEF BlocksOwned
    <3>4. CASE r \notin Sync
      <4>1. used' = used \cup {p} /\ p \notin used
        BY <3>1, <3>4, <1>2
      <4>2. {q \in Reads \ Sync : Active(q)'} = {q \in Reads \ Sync : Active(q)} \cup {r}
        BY <3>1, <3>2, <3>4
      <4>3. \A q \in Reads \ Sync : Active(q) => place[q] \in used
        BY DEF BlocksOwned
      <4>4. used = {place[q] : q \in {q \in Reads \ Sync : Active(q)}}
        BY DEF BlocksOwned
      <4>5. used' = {place'[q] : q \in {q \in Reads \ Sync : Active(q)'}}
        BY <4>1, <4>2, <4>4, <3>1, <3>2
      <4>6. ASSUME NEW q \in Reads \ Sync, NEW s \in Reads \ Sync, Active(q)', Active(s)', place'[q] = place'[s]
            PROVE  q = s
        BY <4>1, <4>3, <4>6, <3>1, <3>2 DEF BlocksOwned
      <4> QED BY <4>5, <4>6 DEF BlocksOwned
    <3> QED BY <3>3, <3>4
  <2> QED BY <2>1, <2>2, <1>3
<1>7. Received'
  BY <1>1, <1>3 DEF Received, Size
<1>8. Sent'
  BY <1>1, <1>3 DEF Sent
<1>9. SenderReported'
  BY <1>1, <1>3 DEF SenderReported, Size
<1> QED BY <1>4, <1>5, <1>6, <1>7, <1>8, <1>9

\* Steps that leave the reads in progress, and what they have, as they are.
LEMMA ReadsKept ==
  ASSUME IInv, UNCHANGED <<memory, buffer, endpoint>>,
         \A r \in Reads : (Active(r)' <=> Active(r)) /\ ret'[r] = ret[r],
         \A r \in Reads : /\ state'[r] = "moved" => state[r] = "moved"
                          /\ state'[r] = "done" => state[r] = "done",
         \A w \in Writes : peer'[w] = peer[w] \/ state[w] = "idle"
  PROVE  Placed' /\ BlocksOwned' /\ Received' /\ SenderReported'
<1> USE DEF IInv, memory
<1>1. Placed'
  BY DEF Placed
<1>2. BlocksOwned'
  <2>1. {r \in Reads \ Sync : Active(r)'} = {r \in Reads \ Sync : Active(r)}
    OBVIOUS
  <2> QED BY <2>1 DEF BlocksOwned
<1>3. \A r \in Reads : \A w \in Writes : buffer[r] = w => peer'[w] = peer[w]
  BY DEF Sent
<1>4. Received'
  BY <1>3 DEF Received, Size
<1>5. SenderReported'
  BY <1>3 DEF SenderReported, Size
<1> QED BY <1>1, <1>2, <1>4, <1>5

\* The packets of a transfer that ends.
LEMMA Appended ==
  ASSUME TypeOK, NEW x \in Calls
  PROVE  [port EXCEPT ![On[x]] = Append(@, x)] \in [Sockets -> Seq(Calls)]
<1>1. On[x] \in Sockets /\ port[On[x]] \in Seq(Calls)
  BY DatagramAssumption DEF TypeOK
<1>2. Append(port[On[x]], x) \in Seq(Calls)
  BY <1>1
<1> QED BY <1>1, <1>2 DEF TypeOK

LEMMA WriteToInv ==
  ASSUME IInv, NEW w \in Writes, NEW d \in Sockets \cup {None}, WriteTo(w, d) PROVE IInv'
<1> USE DatagramAssumption DEF IInv
<1>1. /\ state[w] = "idle" /\ w \in Calls /\ w \notin Reads
      /\ peer' = [peer EXCEPT ![w] = d]
      /\ UNCHANGED <<memory, buffer, endpoint, ret, net, port, closed>>
      /\ \E st \in {"asked", "failed"} : state' = [state EXCEPT ![w] = st]
  BY DEF WriteTo, MayCall, Calls, reports
<1>2. /\ \A r \in Reads : state'[r] = state[r]
      /\ \A v \in Writes : v # w => state'[v] = state[v] /\ peer'[v] = peer[v]
  BY <1>1 DEF TypeOK, Calls
<1>3. TypeOK'
  BY <1>1 DEF TypeOK, memory
<1>4. Sent'
  BY <1>1, <1>2 DEF Sent
<1>5. Placed' /\ BlocksOwned' /\ Received' /\ SenderReported'
  <2>1. \A r \in Reads : Active(r)' <=> Active(r)
    BY <1>2 DEF Active
  <2> QED BY <2>1, <1>1, <1>2, ReadsKept
<1> QED BY <1>3, <1>4, <1>5

LEMMA SendInv ==
  ASSUME IInv, NEW w \in Writes, Send(w) PROVE IInv'
<1> USE DatagramAssumption DEF IInv
<1>1. /\ state[w] = "asked" /\ w \in Calls /\ w \notin Reads
      /\ state' = [state EXCEPT ![w] = "moved"]
      /\ net' = [net EXCEPT ![w] = 1] /\ ret' = [ret EXCEPT ![w] = Size(w)]
      /\ UNCHANGED <<peer, memory, buffer, endpoint, closed>>
      /\ port' \in {port, [port EXCEPT ![On[w]] = Append(@, w)]}
  BY DEF Send, Ends, Calls
<1>2. /\ \A r \in Reads : state'[r] = state[r] /\ ret'[r] = ret[r]
      /\ \A v \in Writes : v # w => state'[v] = state[v] /\ net'[v] = net[v]
      /\ state'[w] = "moved"
  BY <1>1 DEF TypeOK, Calls
<1>3. TypeOK'
  <2>1. port' \in [Sockets -> Seq(Calls)]
    BY <1>1, Appended DEF TypeOK
  <2>2. Size(w) \in Nat
    BY <1>1, SizeNat DEF Size
  <2> QED BY <1>1, <2>1, <2>2 DEF TypeOK, memory
<1>4. Sent'
  BY <1>1, <1>2 DEF Sent
<1>5. Placed' /\ BlocksOwned' /\ Received' /\ SenderReported'
  <2>1. \A r \in Reads : Active(r)' <=> Active(r)
    BY <1>2 DEF Active
  <2> QED BY <2>1, <1>1, <1>2, ReadsKept
<1> QED BY <1>3, <1>4, <1>5

\* Steps that change the state of one call, from "asked", and net.
LEMMA ReceiveInv ==
  ASSUME IInv, NEW r \in Reads, NEW w \in Writes, Receive(r, w) PROVE IInv'
<1> USE DatagramAssumption DEF IInv
<1>0. PICK st \in {"moved", "broken"} :
        /\ state' = [state EXCEPT ![r] = st]
        /\ ret' = [ret EXCEPT ![r] = IF st = "moved" THEN Size(w) ELSE Length(Count[r])]
        /\ port' = IF r \in Sync THEN port ELSE [port EXCEPT ![On[r]] = Append(@, r)]
  <2>1. CASE Size(w) <= Length(Count[r])
    BY <2>1 DEF Receive, Ends
  <2>2. CASE ~(Size(w) <= Length(Count[r]))
    BY <2>2 DEF Receive, Ends
  <2> QED BY <2>1, <2>2
<1>1. /\ state[r] = "asked" /\ r \in Calls /\ r \notin Writes /\ w \in Calls
      /\ peer[w] = On[r] /\ net[w] > 0
      /\ net' = [net EXCEPT ![w] = @ - 1]
      /\ saddr' = [saddr EXCEPT ![place[r]] = On[w]]
      /\ buffer' = [buffer EXCEPT ![r] = w]
      /\ UNCHANGED <<peer, place, used, endpoint, closed>>
  BY DEF Receive, Calls
<1>2. /\ \A q \in Reads : q # r => state'[q] = state[q] /\ ret'[q] = ret[q] /\ buffer'[q] = buffer[q]
      /\ \A v \in Writes : state'[v] = state[v] /\ (v # w => net'[v] = net[v])
      /\ state'[r] = st /\ buffer'[r] = w
      /\ ret'[r] = IF st = "moved" THEN Size(w) ELSE Length(Count[r])
  BY <1>0, <1>1 DEF TypeOK, Calls
<1>3. Active(r) /\ \A q \in Reads : Active(q)' <=> Active(q)
  BY <1>1, <1>2 DEF Active
<1>4. place[r] \in Places
  BY <1>3 DEF Placed, Places
<1>5. TypeOK'
  <2>1. port' \in [Sockets -> Seq(Calls)]
    BY <1>0, <1>1, Appended DEF TypeOK
  <2>2. Size(w) \in Nat /\ Length(Count[r]) \in Nat
    BY <1>1, SizeNat DEF Size
  <2>3. net[w] \in 0..MaxCopies /\ net[w] - 1 \in 0..MaxCopies
    BY <1>1 DEF TypeOK
  <2>4. ret' \in [Calls -> Nat]
    BY <1>0, <2>2 DEF TypeOK
  <2>5. state' \in [Calls -> {"idle", "asked", "moved", "broken", "done", "failed"}]
    BY <1>0 DEF TypeOK
  <2>6. saddr' \in [Places -> Sockets \cup {None}]
    BY <1>1 DEF TypeOK
  <2>7. net' \in [Writes -> 0..MaxCopies] /\ buffer' \in [Reads -> Writes \cup {None}]
    BY <1>1, <2>3 DEF TypeOK
  <2> QED BY <2>1, <2>4, <2>5, <2>6, <2>7, <1>1 DEF TypeOK
<1>6. Placed'
  BY <1>1, <1>3 DEF Placed
<1>7. BlocksOwned'
  <2>1. {q \in Reads \ Sync : Active(q)'} = {q \in Reads \ Sync : Active(q)}
    BY <1>3
  <2> QED BY <2>1, <1>1, <1>3 DEF BlocksOwned
<1>8. Received'
  <2> SUFFICES ASSUME NEW q \in Reads, state'[q] = "moved"
               PROVE  /\ buffer'[q] \in Writes /\ peer[buffer'[q]] = On[q] /\ ret'[q] = Size(buffer'[q])
                      /\ saddr'[place[q]] = On[buffer'[q]]
    BY <1>1 DEF Received, Size
  <2>1. CASE q = r
    <3>1. saddr'[place[r]] = On[w]
      BY <1>1, <1>4 DEF TypeOK
    <3> QED BY <2>1, <3>1, <1>1, <1>2
  <2>2. CASE q # r
    <3>1. state[q] = "moved" /\ Active(q)
      BY <2>2, <1>2 DEF Active
    <3>2. place[q] # place[r]
      BY <2>2, <3>1, <1>3, OtherPlace
    <3>3. place[q] \in Places
      BY <3>1 DEF Placed, Places
    <3>4. saddr'[place[q]] = saddr[place[q]]
      BY <3>2, <3>3, <1>1 DEF TypeOK
    <3> QED BY <2>2, <3>1, <3>4, <1>2 DEF Received
  <2> QED BY <2>1, <2>2
<1>9. Sent'
  <2>1. state[w] \notin {"idle", "asked"}
    BY <1>1 DEF Sent
  <2> QED BY <2>1, <1>2 DEF Sent
<1>10. SenderReported'
  BY <1>1, <1>2 DEF SenderReported, Size
<1> QED BY <1>5, <1>6, <1>7, <1>8, <1>9, <1>10

LEMMA FailInv ==
  ASSUME IInv, NEW x \in Calls, Fail(x) PROVE IInv'
<1> USE DatagramAssumption DEF IInv
<1>1. /\ state[x] = "asked" /\ state' = [state EXCEPT ![x] = "broken"]
      /\ port' = IF x \in Sync THEN port ELSE [port EXCEPT ![On[x]] = Append(@, x)]
      /\ UNCHANGED <<peer, memory, buffer, endpoint, ret, net, closed>>
  BY DEF Fail, Ends, reports
<1>2. \A y \in Calls : state'[y] = IF y = x THEN "broken" ELSE state[y]
  BY <1>1 DEF TypeOK
<1>3. TypeOK'
  <2>1. port' \in [Sockets -> Seq(Calls)]
    BY <1>1, Appended DEF TypeOK
  <2> QED BY <1>1, <2>1 DEF TypeOK, memory
<1>4. Sent'
  BY <1>1, <1>2 DEF Sent, Calls
<1>5. Placed' /\ BlocksOwned' /\ Received' /\ SenderReported'
  <2>1. \A r \in Reads : /\ Active(r)' <=> Active(r)
                         /\ state'[r] = "moved" => state[r] = "moved"
                         /\ state'[r] = "done" => state[r] = "done"
    BY <1>1, <1>2 DEF Active, Calls
  <2> QED BY <2>1, <1>1, ReadsKept
<1> QED BY <1>3, <1>4, <1>5

LEMMA NetworkInv ==
  ASSUME IInv, NEW w \in Writes, Lose(w) \/ Duplicate(w) PROVE IInv'
<1> USE DatagramAssumption DEF IInv
<1>1. /\ net[w] > 0 /\ UNCHANGED <<state, peer, memory, buffer, endpoint, ret, port, closed>>
      /\ \E k \in 0..MaxCopies : net' = [net EXCEPT ![w] = k]
  <2>1. net[w] \in 0..MaxCopies
    BY DEF TypeOK
  <2>2. CASE Lose(w)
    <3>1. net[w] - 1 \in 0..MaxCopies /\ net' = [net EXCEPT ![w] = net[w] - 1]
      BY <2>1, <2>2 DEF Lose
    <3> QED BY <3>1, <2>2 DEF Lose, reports
  <2>3. CASE Duplicate(w)
    <3>1. net[w] + 1 \in 0..MaxCopies /\ net' = [net EXCEPT ![w] = net[w] + 1]
      BY <2>1, <2>3 DEF Duplicate
    <3>2. net[w] > 0
      BY <2>1, <2>3 DEF Duplicate
    <3> QED BY <3>1, <3>2, <2>3 DEF Duplicate, reports
  <2> QED BY <2>2, <2>3
<1>2. TypeOK'
  BY <1>1 DEF TypeOK, memory
<1>3. Sent'
  <2>1. \A v \in Writes : v # w => net'[v] = net[v]
    BY <1>1 DEF TypeOK
  <2>2. state[w] \notin {"idle", "asked"}
    BY <1>1 DEF Sent
  <2> QED BY <2>1, <2>2, <1>1 DEF Sent
<1>4. Placed' /\ BlocksOwned' /\ Received' /\ SenderReported'
  <2>1. \A r \in Reads : Active(r)' <=> Active(r)
    BY <1>1 DEF Active
  <2> QED BY <2>1, <1>1, ReadsKept
<1> QED BY <1>2, <1>3, <1>4

\* Steps with which a call is over.
LEMMA ConcludeInv ==
  ASSUME IInv, NEW r \in Reads, Over(r), NEW q \in [Sockets -> Seq(Calls)], port' = q PROVE IInv'
<1> USE DatagramAssumption DEF IInv
<1>0. /\ state[r] \in {"moved", "broken"} /\ r \in Calls /\ r \notin Writes /\ Active(r)
      /\ Discard(r) /\ used' = used \ {place[r]}
      /\ UNCHANGED <<peer, buffer, net, closed>>
  BY DEF Over, Conclude, Calls, Active
<1>1. \/ /\ state[r] = "moved" /\ Addresses(place[r]) \cap Known # {}
         /\ \E a \in Addresses(place[r]) : endpoint' = [endpoint EXCEPT ![r] = a]
         /\ state' = [state EXCEPT ![r] = "done"] /\ UNCHANGED ret
      \/ /\ state' = [state EXCEPT ![r] = "failed"] /\ UNCHANGED endpoint
         /\ ret' \in {ret, [ret EXCEPT ![r] = 0]}
  <2>1. CASE state[r] = "broken"
    <3>1. state' = [state EXCEPT ![r] = "failed"] /\ UNCHANGED endpoint
          /\ ret' = [ret EXCEPT ![r] = IF r \in Sync THEN 0 ELSE @]
      BY <2>1 DEF Over, Conclude
    <3>2. ret = [ret EXCEPT ![r] = @]
      BY DEF TypeOK
    <3> QED BY <3>1, <3>2
  <2>2. CASE state[r] = "moved"
    BY <2>2 DEF Over, Conclude, Take
  <2> QED BY <2>1, <2>2, <1>0
<1>2. place[r] \in Places /\ (place[r] \in Cells <=> r \notin Sync)
  BY <1>0 DEF Placed, Places
<1>3. \A s \in Reads : s # r => state'[s] = state[s] /\ place'[s] = place[s] /\ ret'[s] = ret[s] /\ endpoint'[s] = endpoint[s]
  BY <1>0, <1>1 DEF TypeOK, Calls, Discard
<1>4. \A w \in Writes : state'[w] = state[w]
  BY <1>0, <1>1 DEF TypeOK, Calls
<1>5. state'[r] \in {"done", "failed"} /\ ~Active(r)'
  BY <1>0, <1>1 DEF TypeOK, Active
<1>6. \A s \in Reads : Active(s)' <=> Active(s) /\ s # r
  BY <1>3, <1>5 DEF Active
<1>7. TypeOK'
  <2>1. \A a \in Addresses(place[r]) : a \in Sockets
    BY <1>2 DEF Addresses, TypeOK
  <2>2. endpoint' \in [Reads -> Sockets \cup {None}]
    BY <1>1, <2>1 DEF TypeOK
  <2>3. ret' \in [Calls -> Nat]
    <3>1. ret \in [Calls -> Nat] /\ [ret EXCEPT ![r] = 0] \in [Calls -> Nat]
      BY DEF TypeOK
    <3> QED BY <3>1, <1>1
  <2>4. state' \in [Calls -> {"idle", "asked", "moved", "broken", "done", "failed"}]
    BY <1>1 DEF TypeOK
  <2>5. place' \in [Reads -> Places \cup {None}] /\ saddr' \in [Places -> Sockets \cup {None}]
    BY <1>0 DEF TypeOK, Discard
  <2> QED BY <2>2, <2>3, <2>4, <2>5, <1>0 DEF TypeOK
<1>8. Placed'
  BY <1>3, <1>6 DEF Placed
<1>9. BlocksOwned'
  <2>1. CASE r \in Sync
    <3>1. used' = used
      BY <2>1, <1>0, <1>2 DEF TypeOK
    <3>2. {s \in Reads \ Sync : Active(s)'} = {s \in Reads \ Sync : Active(s)}
      BY <2>1, <1>6
    <3>3. \A s \in Reads \ Sync : place'[s] = place[s]
      BY <2>1, <1>3
    <3>4. used = {place[s] : s \in {s \in Reads \ Sync : Active(s)}}
      BY DEF BlocksOwned
    <3>5. used' = {place'[s] : s \in {s \in Reads \ Sync : Active(s)'}}
      BY <3>1, <3>2, <3>3, <3>4
    <3>6. \A s, t \in {s \in Reads \ Sync : Active(s)'} : place'[s] = place'[t] => s = t
      BY <3>2, <3>3 DEF BlocksOwned
    <3> QED BY <3>5, <3>6 DEF BlocksOwned
  <2>2. CASE r \notin Sync
    <3>1. {s \in Reads \ Sync : Active(s)'} = {s \in Reads \ Sync : Active(s)} \ {r}
      BY <1>6
    <3>2. \A s \in Reads \ Sync : Active(s) /\ s # r => place'[s] = place[s] /\ place[s] # place[r]
      BY <2>2, <1>0, <1>3 DEF BlocksOwned
    <3>3. used = {place[s] : s \in {s \in Reads \ Sync : Active(s)}}
      BY DEF BlocksOwned
    <3>4. used' = {place'[s] : s \in {s \in Reads \ Sync : Active(s)'}}
      BY <3>1, <3>2, <3>3, <1>0
    <3>5. ASSUME NEW s \in Reads \ Sync, NEW t \in Reads \ Sync, Active(s)', Active(t)', place'[s] = place'[t]
          PROVE  s = t
      BY <3>5, <3>2, <1>6 DEF BlocksOwned
    <3> QED BY <3>4, <3>5 DEF BlocksOwned
  <2> QED BY <2>1, <2>2
<1>10. Received'
  <2> SUFFICES ASSUME NEW s \in Reads, state'[s] = "moved"
               PROVE  /\ buffer[s] \in Writes /\ peer[buffer[s]] = On[s] /\ ret'[s] = Size(buffer[s])
                      /\ saddr'[place'[s]] = On[buffer[s]]
    BY <1>0 DEF Received, Size
  <2>1. s # r /\ state[s] = "moved" /\ Active(s)
    BY <1>3, <1>5 DEF Active
  <2>2. place[s] # place[r] /\ place[s] \in Places
    BY <2>1, <1>0, OtherPlace DEF Placed, Places
  <2>3. saddr'[place[s]] = saddr[place[s]]
    BY <2>2, <1>0 DEF TypeOK, Discard
  <2> QED BY <2>1, <2>3, <1>3 DEF Received
<1>11. Sent'
  BY <1>0, <1>4 DEF Sent
<1>12. SenderReported'
  <2> SUFFICES ASSUME NEW s \in Reads, state'[s] = "done"
               PROVE  /\ buffer[s] \in Writes /\ peer[buffer[s]] = On[s]
                      /\ endpoint'[s] = On[buffer[s]] /\ ret'[s] = Size(buffer[s])
    BY <1>0 DEF SenderReported, Size
  <2>1. CASE s # r
    BY <2>1, <1>3 DEF SenderReported
  <2>2. CASE s = r
    <3>1. state[r] = "moved" /\ \E a \in Addresses(place[r]) : endpoint' = [endpoint EXCEPT ![r] = a]
      BY <2>2, <1>0, <1>1 DEF TypeOK
    <3>2. ret' = ret
      BY <2>2, <1>0, <1>1 DEF TypeOK
    <3>3. saddr[place[r]] = On[buffer[r]] /\ On[buffer[r]] \in Sockets
      BY <3>1 DEF Received, Calls
    <3>4. Addresses(place[r]) = {On[buffer[r]]}
      BY <3>3 DEF Addresses
    <3>5. endpoint'[r] = On[buffer[r]]
      BY <3>1, <3>4 DEF TypeOK
    <3> QED BY <2>2, <3>1, <3>2, <3>5 DEF Received
  <2> QED BY <2>1, <2>2
<1> QED BY <1>7, <1>8, <1>9, <1>10, <1>11, <1>12

LEMMA ConcludeWriteInv ==
  ASSUME IInv, NEW w \in Writes, Over(w), NEW q \in [Sockets -> Seq(Calls)], port' = q PROVE IInv'
<1> USE DatagramAssumption DEF IInv
<1>1. /\ state[w] \in {"moved", "broken"} /\ w \in Calls /\ w \notin Reads
      /\ \E st \in {"done", "failed"} : state' = [state EXCEPT ![w] = st]
      /\ UNCHANGED <<peer, memory, buffer, endpoint, ret, net, closed>>
  BY DEF Over, ConcludeWrite, Calls, reports
<1>2. /\ \A r \in Reads : state'[r] = state[r]
      /\ \A v \in Writes : v # w => state'[v] = state[v]
      /\ state'[w] \in {"done", "failed"}
  BY <1>1 DEF TypeOK, Calls
<1>3. TypeOK'
  BY <1>1 DEF TypeOK, memory
<1>4. Sent'
  BY <1>1, <1>2 DEF Sent
<1>5. Placed' /\ BlocksOwned' /\ Received' /\ SenderReported'
  <2>1. \A r \in Reads : Active(r)' <=> Active(r)
    BY <1>2 DEF Active
  <2> QED BY <2>1, <1>1, <1>2, ReadsKept
<1> QED BY <1>3, <1>4, <1>5

LEMMA CloseInv ==
  ASSUME IInv, NEW s \in Sockets, Close(s) PROVE IInv'
<1> USE DEF IInv
<1>1. closed' = closed \cup {s} /\ UNCHANGED <<state, peer, memory, buffer, endpoint, ret, net, port>>
  BY DEF Close, reports
<1>2. TypeOK' /\ Sent'
  BY <1>1 DEF TypeOK, Sent, memory
<1>3. \A r \in Reads : Active(r)' <=> Active(r)
  BY <1>1 DEF Active
<1> QED BY <1>1, <1>2, <1>3, ReadsKept

LEMMA StutterInv ==
  ASSUME IInv, UNCHANGED vars PROVE IInv'
<1> USE DEF IInv
<1>1. UNCHANGED <<state, peer, memory, buffer, endpoint, ret, net, port, closed>>
  BY DEF vars, reports
<1>2. TypeOK' /\ Sent'
  BY <1>1 DEF TypeOK, Sent, memory
<1>3. \A r \in Reads : Active(r)' <=> Active(r)
  BY <1>1 DEF Active
<1> QED BY <1>1, <1>2, <1>3, ReadsKept

-----------------------------------------------------------------------------
LEMMA StepIInv == IInv /\ [Next]_vars => IInv'
<1> SUFFICES ASSUME IInv, [Next]_vars PROVE IInv'
  OBVIOUS
<1>1. ASSUME NEW r \in Reads, ReadFrom(r) PROVE IInv'
  BY <1>1, ReadFromInv
<1>2. ASSUME NEW w \in Writes, NEW d \in Sockets \cup {None}, WriteTo(w, d) PROVE IInv'
  BY <1>2, WriteToInv
<1>3. ASSUME NEW w \in Writes, Send(w) PROVE IInv'
  BY <1>3, SendInv
<1>4. ASSUME NEW w \in Writes, Lose(w) \/ Duplicate(w) PROVE IInv'
  BY <1>4, NetworkInv
<1>5. ASSUME NEW r \in Reads, NEW w \in Writes, Receive(r, w) PROVE IInv'
  BY <1>5, ReceiveInv
<1>6. ASSUME NEW x \in Calls, Fail(x) PROVE IInv'
  BY <1>6, FailInv
<1>7. ASSUME NEW x \in Calls, Over(x), NEW q \in [Sockets -> Seq(Calls)], port' = q PROVE IInv'
  BY <1>7, ConcludeInv, ConcludeWriteInv DEF Calls
<1>8. ASSUME NEW x \in Calls, Resume(x) PROVE IInv'
  <2>1. port' = port /\ port \in [Sockets -> Seq(Calls)] /\ Over(x)
    BY <1>8 DEF Resume, IInv, TypeOK
  <2> QED BY <2>1, <1>7
<1>9. ASSUME NEW s \in Sockets, Close(s) PROVE IInv'
  BY <1>9, CloseInv
<1>10. ASSUME NEW s \in Sockets, Dispatch(s) PROVE IInv'
  <2>1. port[s] \in Seq(Calls) /\ port[s] # <<>>
    BY <1>10 DEF Dispatch, IInv, TypeOK
  <2>2. Head(port[s]) \in Calls /\ Tail(port[s]) \in Seq(Calls)
    BY <2>1
  <2>3. port' = [port EXCEPT ![s] = Tail(@)] /\ Over(Head(port[s]))
    BY <1>10 DEF Dispatch
  <2>4. [port EXCEPT ![s] = Tail(@)] \in [Sockets -> Seq(Calls)]
    BY <2>2 DEF IInv, TypeOK
  <2> QED BY <2>2, <2>3, <2>4, <1>7
<1>11. CASE UNCHANGED vars
  BY <1>11, StutterInv
<1> QED BY <1>1, <1>2, <1>3, <1>4, <1>5, <1>6, <1>8, <1>9, <1>10, <1>11 DEF Next

THEOREM Inductive == Spec => []IInv
<1>1. Init => IInv
  BY InitIInv
<1>2. IInv /\ [Next]_vars => IInv'
  BY StepIInv
<1> QED BY <1>1, <1>2, PTL DEF Spec

\* Every variable keeps its type.
THEOREM TypeCorrectness == Spec => []TypeOK
<1>1. IInv => TypeOK
  BY DEF IInv
<1> QED BY <1>1, Inductive, PTL

\* A successful readFrom reports the sender, and the size, of the whole datagram
\* in its buffer, however many others are received and blocks reused meanwhile.
THEOREM SendersAreRight == Spec => []SenderReported
<1>1. IInv => SenderReported
  BY DEF IInv
<1> QED BY <1>1, Inductive, PTL

\* Each asynchronous read in progress has one block, and no other is in use.
THEOREM BlocksAreOwned == Spec => []BlocksOwned
<1>1. IInv => BlocksOwned
  BY DEF IInv
<1> QED BY <1>1, Inductive, PTL

-----------------------------------------------------------------------------
(* Datagram implements DatagramService                                     *)

\* The number of reads that have a datagram and have not reported it.
LEMMA UnreportedFinite ==
  \A w : IsFiniteSet(Unreported(w)) /\ Cardinality(Unreported(w)) \in Nat
<1> SUFFICES ASSUME NEW w PROVE IsFiniteSet(Unreported(w)) /\ Cardinality(Unreported(w)) \in Nat
  OBVIOUS
<1>1. Unreported(w) \subseteq Reads
  BY DEF Unreported
<1>2. IsFiniteSet(Unreported(w))
  BY <1>1, FS_Subset, DatagramAssumption
<1> QED BY <1>2, FS_CardinalityType

\* What a step does to the copies, reads and writes its clients see.
LEMMA SameCopies ==
  ASSUME \A w \in Writes : net'[w] = net[w] /\ Unreported(w)' = Unreported(w)
  PROVE  Copies' = Copies
BY DEF Copies

LEMMA SameTaken ==
  ASSUME \A r \in Reads : /\ state'[r] = "done" <=> state[r] = "done"
                          /\ state[r] = "done" => buffer'[r] = buffer[r]
  PROVE  Taken' = Taken
BY DEF Taken

LEMMA SameUnreported ==
  ASSUME NEW w, \A r \in Reads : /\ state'[r] = "moved" <=> state[r] = "moved"
                                 /\ state[r] = "moved" => buffer'[r] = buffer[r]
  PROVE  Unreported(w)' = Unreported(w)
BY DEF Unreported

\* The copies of a datagram that is on its way become fewer or more.
LEMMA NetworkStep ==
  ASSUME IInv, IInv', NEW w \in Writes, Copies[w] > 0,
         \A v \in Writes : v # w => net'[v] = net[v] /\ Unreported(v)' = Unreported(v),
         Written' = Written, Taken' = Taken
  PROVE  Service!Network
<1>1. \A v \in Writes : net'[v] \in Nat /\ Cardinality(Unreported(v)') \in Nat
  <2>1. net' \in [Writes -> 0..MaxCopies] /\ MaxCopies \in Nat
    BY DatagramAssumption DEF IInv, TypeOK
  <2>2. \A v \in Writes : Cardinality(Unreported(v)') \in Nat
    <3> SUFFICES ASSUME NEW v \in Writes PROVE Cardinality(Unreported(v)') \in Nat
      OBVIOUS
    <3>1. Unreported(v)' \subseteq Reads
      BY DEF Unreported
    <3>2. IsFiniteSet(Unreported(v)')
      BY <3>1, FS_Subset, DatagramAssumption
    <3> QED BY <3>2, FS_CardinalityType
  <2> QED BY <2>1, <2>2
<1>2. Copies' \in [Writes -> Nat]
  BY <1>1 DEF Copies
<1>3. \A v \in Writes : Copies[v] = 0 => Copies'[v] = 0
  BY DEF Copies
<1> QED BY <1>2, <1>3 DEF Service!Network

LEMMA WriteToStep ==
  ASSUME IInv, NEW w \in Writes, NEW d \in Sockets \cup {None}, WriteTo(w, d)
  PROVE  Service!Proceed(w)
<1>1. /\ state[w] = "idle" /\ w \in Calls /\ w \notin Reads /\ UNCHANGED <<buffer, net>>
      /\ state' \in {[state EXCEPT ![w] = "asked"], [state EXCEPT ![w] = "failed"]}
  BY DatagramAssumption DEF WriteTo, MayCall, Calls
<1>2. /\ \A x \in Calls : x # w => state'[x] = state[x]
      /\ state'[w] \in {"asked", "failed"}
  BY <1>1 DEF IInv, TypeOK
<1>3. \A r \in Reads : state'[r] = state[r]
  BY <1>1, <1>2 DEF Calls
<1>4. Copies' = Copies /\ Taken' = Taken
  BY <1>1, <1>3, SameCopies, SameTaken, SameUnreported
<1>5. Written[w] = "idle"
  BY <1>1 DEF Written
<1>6. Written' = [Written EXCEPT ![w] = IF state'[w] = "asked" THEN "called" ELSE "failed"]
  BY <1>2 DEF Written, Calls
<1>7. CASE state'[w] = "asked"
  BY <1>4, <1>5, <1>6, <1>7 DEF Service!Proceed, Service!Progress
<1>8. CASE state'[w] = "failed"
  BY <1>4, <1>5, <1>6, <1>8 DEF Service!Proceed, Service!Progress
<1> QED BY <1>2, <1>7, <1>8

LEMMA SendStep ==
  ASSUME IInv, NEW w \in Writes, Send(w)
  PROVE  Service!Send(w)
<1>1. /\ state[w] = "asked" /\ w \in Calls /\ w \notin Reads /\ UNCHANGED buffer
      /\ net' = [net EXCEPT ![w] = 1] /\ state' = [state EXCEPT ![w] = "moved"]
  BY DatagramAssumption DEF Send, Ends, Calls
<1>2. /\ \A x \in Calls : x # w => state'[x] = state[x]
      /\ state'[w] = "moved"
  BY <1>1 DEF IInv, TypeOK
<1>3. \A r \in Reads : state'[r] = state[r]
  BY <1>1, <1>2 DEF Calls
<1>4. Taken' = Taken /\ \A v \in Writes : Unreported(v)' = Unreported(v)
  BY <1>1, <1>3, SameTaken, SameUnreported
<1>5. Unreported(w) = {}
  BY <1>1 DEF IInv, Sent, Unreported
<1>6. Copies' = [Copies EXCEPT ![w] = 1]
  <2>1. Cardinality(Unreported(w)') = 0
    BY <1>4, <1>5, FS_EmptySet
  <2>2. \A v \in Writes : net'[v] = IF v = w THEN 1 ELSE net[v]
    BY <1>1 DEF IInv, TypeOK
  <2>3. \A v \in Writes : v # w => Cardinality(Unreported(v)') = Cardinality(Unreported(v))
    BY <1>4
  <2>4. \A v \in Writes : net'[v] + Cardinality(Unreported(v)')
                            = IF v = w THEN 1 ELSE net[v] + Cardinality(Unreported(v))
    BY <2>1, <2>2, <2>3
  <2> QED BY <2>4 DEF Copies
<1>7. Written[w] = "called"
  BY <1>1 DEF Written
<1>8. Written' = [Written EXCEPT ![w] = "sent"]
  BY <1>2 DEF Written, Calls
<1> QED BY <1>4, <1>6, <1>7, <1>8 DEF Service!Send, Service!Progress

LEMMA ReceiveStep ==
  ASSUME IInv, IInv', NEW r \in Reads, NEW w \in Writes, Receive(r, w)
  PROVE  Service!Network \/ UNCHANGED <<Copies, Written, Taken>>
<1>1. /\ state[r] = "asked" /\ r \in Calls /\ r \notin Writes /\ net[w] > 0
      /\ net' = [net EXCEPT ![w] = @ - 1] /\ buffer' = [buffer EXCEPT ![r] = w]
      /\ state' \in {[state EXCEPT ![r] = "moved"], [state EXCEPT ![r] = "broken"]}
  BY DatagramAssumption DEF Receive, Ends, Calls
<1>2. /\ \A x \in Calls : x # r => state'[x] = state[x]
      /\ state'[r] \in {"moved", "broken"}
      /\ \A q \in Reads : buffer'[q] = IF q = r THEN w ELSE buffer[q]
      /\ \A v \in Writes : net'[v] = IF v = w THEN net[w] - 1 ELSE net[v]
  BY <1>1 DEF IInv, TypeOK
<1>3. Taken' = Taken
  <2>1. \A q \in Reads : state'[q] = "done" <=> state[q] = "done"
    BY <1>1, <1>2 DEF Calls
  <2> QED BY <2>1, <1>1, <1>2, SameTaken
<1>4. Written' = Written
  BY <1>1, <1>2 DEF Written, Calls
<1>5. \A v \in Writes : v # w => Unreported(v)' = Unreported(v)
  BY <1>1, <1>2 DEF Unreported, Calls
<1>6. CASE state'[r] = "moved"
  <2>1. Unreported(w)' = Unreported(w) \cup {r} /\ r \notin Unreported(w)
    BY <1>1, <1>2, <1>6 DEF Unreported, Calls
  <2>2. Cardinality(Unreported(w)') = Cardinality(Unreported(w)) + 1
    BY <2>1, UnreportedFinite, FS_AddElement
  <2>3. net[w] \in Nat /\ Cardinality(Unreported(w)) \in Nat
    BY UnreportedFinite DEF IInv, TypeOK
  <2>4. \A v \in Writes : net'[v] + Cardinality(Unreported(v)') = net[v] + Cardinality(Unreported(v))
    BY <2>2, <2>3, <1>2, <1>5
  <2>5. Copies' = Copies
    BY <2>4 DEF Copies
  <2> QED BY <2>5, <1>3, <1>4
<1>7. CASE state'[r] = "broken"
  <2>1. Copies[w] > 0
    <3>1. net[w] \in Nat /\ Cardinality(Unreported(w)) \in Nat
      BY UnreportedFinite DEF IInv, TypeOK
    <3> QED BY <3>1, <1>1 DEF Copies
  <2> QED BY <2>1, <1>2, <1>3, <1>4, <1>5, NetworkStep
<1> QED BY <1>2, <1>6, <1>7

LEMMA LoseStep ==
  ASSUME IInv, IInv', NEW w \in Writes, Lose(w) \/ Duplicate(w)
  PROVE  Service!Network
<1>1. net[w] \in 0..MaxCopies
  BY DEF IInv, TypeOK
<1>2. net[w] > 0 /\ UNCHANGED <<state, buffer>> /\ \A v \in Writes : v # w => net'[v] = net[v]
  BY <1>1 DEF Lose, Duplicate, IInv, TypeOK
<1>3. \A v \in Writes : Unreported(v)' = Unreported(v)
  BY <1>2 DEF Unreported
<1>4. Written' = Written /\ Taken' = Taken
  BY <1>2 DEF Written, Taken
<1>5. Copies[w] > 0
  <2>1. Cardinality(Unreported(w)) \in Nat
    BY UnreportedFinite
  <2> QED BY <2>1, <1>1, <1>2 DEF Copies
<1> QED BY <1>2, <1>3, <1>4, <1>5, NetworkStep

\* The reads that have a datagram when one of them is over.
LEMMA ConcludeStep ==
  ASSUME IInv, IInv', NEW r \in Reads, Over(r)
  PROVE  \/ \E w \in Writes : Service!Take(r, w)
         \/ Service!Network \/ UNCHANGED <<Copies, Written, Taken>>
<1>1. /\ state[r] \in {"moved", "broken"} /\ r \in Calls /\ r \notin Writes
      /\ UNCHANGED <<buffer, net>>
      /\ \/ state[r] = "moved" /\ state' = [state EXCEPT ![r] = "done"]
         \/ state' = [state EXCEPT ![r] = "failed"]
  BY DatagramAssumption DEF Over, Conclude, Take, Calls
<1>2. /\ \A x \in Calls : x # r => state'[x] = state[x]
      /\ state'[r] \in {"done", "failed"} /\ (state'[r] = "done" => state[r] = "moved")
  BY <1>1 DEF IInv, TypeOK
<1>3. Written' = Written
  BY <1>1, <1>2 DEF Written, Calls
<1>4. CASE state[r] = "broken"
  <2>1. Taken' = Taken
    BY <1>1, <1>2, <1>4 DEF Taken, Calls
  <2>2. \A v \in Writes : Unreported(v)' = Unreported(v)
    BY <1>1, <1>2, <1>4 DEF Unreported, Calls
  <2>3. Copies' = Copies
    BY <2>2, <1>1 DEF Copies
  <2> QED BY <2>1, <2>3, <1>3
<1>5. CASE state[r] = "moved"
  <2>1. PICK w \in Writes : buffer[r] = w
    BY <1>5 DEF IInv, Received
  <2>2. Unreported(w)' = Unreported(w) \ {r} /\ r \in Unreported(w)
    BY <2>1, <1>1, <1>2, <1>5 DEF Unreported, Calls
  <2>3. \A v \in Writes : v # w => Unreported(v)' = Unreported(v)
    BY <2>1, <1>1, <1>2 DEF Unreported, Calls
  <2>4. /\ Cardinality(Unreported(w)') = Cardinality(Unreported(w)) - 1
        /\ Cardinality(Unreported(w)) \in Nat /\ Cardinality(Unreported(w)') \in Nat /\ net[w] \in Nat
    <3>1. IsFiniteSet(Unreported(w)) /\ Cardinality(Unreported(w)) \in Nat
      BY UnreportedFinite
    <3>2. IsFiniteSet(Unreported(w) \ {r}) /\ Cardinality(Unreported(w) \ {r}) = Cardinality(Unreported(w)) - 1
      BY <3>1, <2>2, FS_RemoveElement
    <3>3. Cardinality(Unreported(w) \ {r}) \in Nat
      BY <3>2, FS_CardinalityType
    <3> QED BY <3>1, <3>2, <3>3, <2>2 DEF IInv, TypeOK
  <2>5. Copies[w] > 0
    BY <2>4 DEF Copies
  <2>6. CASE state'[r] = "failed"
    <3>1. Taken' = Taken
      BY <1>1, <1>2, <1>5, <2>6 DEF Taken, Calls
    <3>2. \A v \in Writes : net'[v] = net[v]
      BY <1>1
    <3> QED BY <3>1, <3>2, <2>3, <2>5, <1>3, NetworkStep
  <2>7. CASE state'[r] = "done"
    <3>1. Taken[r] = None /\ Taken' = [Taken EXCEPT ![r] = w]
      BY <1>1, <1>2, <1>5, <2>1, <2>7 DEF Taken, Calls
    <3>2. \A v \in Writes : net'[v] + Cardinality(Unreported(v)')
                               = IF v = w THEN net[w] + Cardinality(Unreported(w)) - 1
                                 ELSE net[v] + Cardinality(Unreported(v))
      BY <2>3, <2>4, <1>1
    <3>3. Copies' = [Copies EXCEPT ![w] = @ - 1]
      <4>1. Copies' = [v \in Writes |-> IF v = w THEN net[w] + Cardinality(Unreported(w)) - 1
                                        ELSE net[v] + Cardinality(Unreported(v))]
        BY <3>2 DEF Copies
      <4>2. Copies = [v \in Writes |-> net[v] + Cardinality(Unreported(v))]
        BY DEF Copies
      <4>3. \A v \in Writes : Copies[v] = net[v] + Cardinality(Unreported(v))
        BY <4>2
      <4>4. Copies' = [v \in Writes |-> IF v = w THEN Copies[w] - 1 ELSE Copies[v]]
        <5>1. net[w] + Cardinality(Unreported(w)) - 1 = Copies[w] - 1
          BY <4>3, <2>4
        <5> QED BY <4>1, <4>3, <5>1
      <4>5. DOMAIN Copies = Writes /\ Copies = [v \in Writes |-> Copies[v]]
        BY <4>2
      <4> QED BY <4>4, <4>5
    <3>4. Service!Take(r, w)
      BY <3>1, <3>3, <2>5, <1>3 DEF Service!Take
    <3> QED BY <3>4
  <2> QED BY <2>6, <2>7, <1>2
<1> QED BY <1>1, <1>4, <1>5

LEMMA ConcludeWriteStep ==
  ASSUME IInv, NEW w \in Writes, Over(w)
  PROVE  Service!Proceed(w)
<1>1. /\ state[w] \in {"moved", "broken"} /\ w \in Calls /\ w \notin Reads /\ UNCHANGED <<buffer, net>>
      /\ state' = [state EXCEPT ![w] = IF state[w] = "moved" THEN "done" ELSE "failed"]
  BY DatagramAssumption DEF Over, ConcludeWrite, Calls
<1>2. /\ \A x \in Calls : x # w => state'[x] = state[x]
      /\ state'[w] = IF state[w] = "moved" THEN "done" ELSE "failed"
  BY <1>1 DEF IInv, TypeOK
<1>3. \A r \in Reads : state'[r] = state[r]
  BY <1>1, <1>2 DEF Calls
<1>4. Copies' = Copies /\ Taken' = Taken
  BY <1>1, <1>3, SameCopies, SameTaken, SameUnreported
<1>5. Written[w] = IF state[w] = "moved" THEN "sent" ELSE "called"
  BY <1>1 DEF Written
<1>6. Written' = [Written EXCEPT ![w] = IF state[w] = "moved" THEN "done" ELSE "failed"]
  BY <1>2 DEF Written, Calls
<1>7. CASE state[w] = "moved"
  BY <1>4, <1>5, <1>6, <1>7 DEF Service!Proceed, Service!Progress
<1>8. CASE state[w] = "broken"
  BY <1>4, <1>5, <1>6, <1>8 DEF Service!Proceed, Service!Progress
<1> QED BY <1>1, <1>7, <1>8

\* Steps that a client does not see.
LEMMA HiddenStep ==
  ASSUME UNCHANGED <<buffer, net>>,
         \A x \in Calls : \/ state'[x] = state[x]
                          \/ x \in Reads /\ state[x] = "idle" /\ state'[x] \in {"asked", "failed"}
                          \/ state[x] = "asked" /\ state'[x] = "broken"
  PROVE  UNCHANGED <<Copies, Written, Taken>>
<1>1. \A r \in Reads : /\ state'[r] = "moved" <=> state[r] = "moved"
                       /\ state'[r] = "done" <=> state[r] = "done"
  BY DEF Calls
<1>2. Copies' = Copies /\ Taken' = Taken
  BY <1>1, SameCopies, SameTaken, SameUnreported
<1>3. ASSUME NEW w \in Writes
      PROVE  state'[w] = state[w] \/ (state[w] = "asked" /\ state'[w] = "broken")
  <2>1. w \in Calls /\ w \notin Reads
    BY DatagramAssumption DEF Calls
  <2> QED BY <2>1
<1>4. Written' = Written
  BY <1>3 DEF Written
<1> QED BY <1>2, <1>4

LEMMA ReadFromStep ==
  ASSUME IInv, NEW r \in Reads, ReadFrom(r)
  PROVE  UNCHANGED <<Copies, Written, Taken>>
<1>1. /\ UNCHANGED <<buffer, net>> /\ state[r] = "idle"
      /\ \/ state' = [state EXCEPT ![r] = "asked"]
         \/ state' = [state EXCEPT ![r] = "failed"]
  BY DEF ReadFrom, MayCall
<1>2. PICK st \in {"asked", "failed"} : state' = [state EXCEPT ![r] = st]
  BY <1>1
<1>3. \A x \in Calls : state'[x] = IF x = r THEN st ELSE state[x]
  BY <1>2 DEF IInv, TypeOK
<1> QED BY <1>1, <1>3, HiddenStep

LEMMA FailStep ==
  ASSUME IInv, NEW x \in Calls, Fail(x)
  PROVE  UNCHANGED <<Copies, Written, Taken>>
<1>1. UNCHANGED <<buffer, net>> /\ state[x] = "asked" /\ state' = [state EXCEPT ![x] = "broken"]
  BY DEF Fail, Ends
<1>2. \A y \in Calls : state'[y] = IF y = x THEN "broken" ELSE state[y]
  BY <1>1 DEF IInv, TypeOK
<1> QED BY <1>1, <1>2, HiddenStep

\* Datagram implements DatagramService: what its clients see is a network that
\* loses and doubles datagrams, and nothing worse.
THEOREM Refinement == Spec => ImplementsService
<1>1. Init => Service!DInit
  <2> SUFFICES ASSUME Init PROVE Service!DInit
    OBVIOUS
  <2>1. Written = [w \in Writes |-> "idle"] /\ Taken = [r \in Reads |-> None]
    BY DEF Init, Written, Taken, Calls
  <2>2. \A w : Unreported(w) = {}
    BY DEF Init, Unreported, Calls
  <2>3. Copies = [w \in Writes |-> 0]
    <3>1. \A w \in Writes : net[w] = 0 /\ Cardinality(Unreported(w)) = 0
      BY <2>2, FS_EmptySet DEF Init
    <3>2. \A w \in Writes : net[w] + Cardinality(Unreported(w)) = 0
      BY <3>1
    <3> QED BY <3>2 DEF Copies
  <2> QED BY <2>1, <2>3 DEF Service!DInit
<1>2. IInv /\ IInv' /\ [Next]_vars => [Service!DNext]_(Service!dvars)
  <2> SUFFICES ASSUME IInv, IInv', [Next]_vars
               PROVE  Service!DNext \/ UNCHANGED <<Copies, Written, Taken>>
    BY DEF Service!dvars
  <2>1. ASSUME NEW w \in Writes, NEW d \in Sockets \cup {None}, WriteTo(w, d) PROVE Service!DNext
    BY <2>1, WriteToStep DEF Service!DNext
  <2>2. ASSUME NEW w \in Writes, Send(w) PROVE Service!DNext
    BY <2>2, SendStep DEF Service!DNext
  <2>3. ASSUME NEW w \in Writes, Lose(w) \/ Duplicate(w) PROVE Service!DNext
    BY <2>3, LoseStep DEF Service!DNext
  <2>4. ASSUME NEW r \in Reads, NEW w \in Writes, Receive(r, w)
        PROVE  Service!DNext \/ UNCHANGED <<Copies, Written, Taken>>
    BY <2>4, ReceiveStep DEF Service!DNext
  <2>5. ASSUME NEW x \in Calls, Over(x) PROVE Service!DNext \/ UNCHANGED <<Copies, Written, Taken>>
    <3>1. CASE x \in Reads
      BY <3>1, <2>5, ConcludeStep DEF Service!DNext
    <3>2. CASE x \in Writes
      BY <3>2, <2>5, ConcludeWriteStep DEF Service!DNext
    <3> QED BY <3>1, <3>2 DEF Calls
  <2>6. ASSUME NEW x \in Calls, Resume(x) PROVE Service!DNext \/ UNCHANGED <<Copies, Written, Taken>>
    BY <2>5, <2>6 DEF Resume
  <2>7. ASSUME NEW s \in Sockets, Dispatch(s) PROVE Service!DNext \/ UNCHANGED <<Copies, Written, Taken>>
    <3>1. port[s] \in Seq(Calls) /\ port[s] # <<>> /\ Over(Head(port[s]))
      BY <2>7 DEF Dispatch, IInv, TypeOK
    <3>2. Head(port[s]) \in Calls
      BY <3>1
    <3> QED BY <3>1, <3>2, <2>5
  <2>8. ASSUME NEW s \in Sockets, Close(s) PROVE UNCHANGED <<Copies, Written, Taken>>
    <3>1. UNCHANGED <<state, buffer, net>>
      BY <2>8 DEF Close
    <3> QED BY <3>1, HiddenStep
  <2>9. CASE UNCHANGED vars
    <3>1. UNCHANGED <<state, buffer, net>>
      BY <2>9 DEF vars
    <3> QED BY <3>1, HiddenStep
  <2>10. CASE Next
    <3>1. CASE \E r \in Reads : ReadFrom(r)
      BY <3>1, ReadFromStep
    <3>2. CASE \E w \in Writes, d \in Sockets \cup {None} : WriteTo(w, d)
      BY <3>2, <2>1
    <3>3. CASE \E w \in Writes : Send(w) \/ Lose(w) \/ Duplicate(w)
      BY <3>3, <2>2, <2>3
    <3>4. CASE \E r \in Reads, w \in Writes : Receive(r, w)
      BY <3>4, <2>4
    <3>5. CASE \E x \in Calls : Fail(x) \/ Resume(x)
      BY <3>5, FailStep, <2>6
    <3>6. CASE \E s \in Sockets : Close(s) \/ Dispatch(s)
      BY <3>6, <2>7, <2>8
    <3> QED BY <2>10, <3>1, <3>2, <3>3, <3>4, <3>5, <3>6 DEF Next
  <2> QED BY <2>9, <2>10
<1> QED BY <1>1, <1>2, Inductive, PTL DEF Spec, Service!DSpec, ImplementsService

=============================================================================
