------------------------------- MODULE Address -------------------------------
(***************************************************************************)
(* IPAddress, the endpoints that hold one, their conversion from and to    *)
(* what the system reads and writes, and the addresses of a name.  Memory  *)
(* is bytes: an address is a type and a union of an IPv4Address and an     *)
(* IPv6Address, which share their first bytes, and a sockaddr has its      *)
(* numbers in the order of the machine or of the network.                  *)
(***************************************************************************)
EXTENDS Naturals, Sequences, SequencesExt, FiniteSets

CONSTANTS
  Objects,              \* endpoints of user code
  Byte,                 \* 256
  Len4, Len6,           \* 4 and 16
  Datas4, Datas6, Scopes, Ports,   \* inputs
  Lists,                \* what the system may find for a name
  Nothing               \* no meaning, no peer, an address of another family

Power[k \in 0..Len4] == IF k = 0 THEN 1 ELSE Power[k - 1] * Byte

Numbers == 0..(Power[Len4] - 1)
Bytes(n) == [1..n -> 0..(Byte - 1)]
Addresses == [type : {"IPv4", "IPv6"}, data : Bytes(Len6), scope : Numbers]
Meanings == [type : {"IPv4"}, data : Datas4, scope : {0}] \cup [type : {"IPv6"}, data : Datas6, scope : Numbers]
Inputs == {m \in Meanings : m.scope \in Scopes \cup {0}}

ASSUME AddressAssumption ==
  /\ Byte \in Nat \ {0} /\ Len4 \in Nat \ {0} /\ Len6 \in Nat /\ Len4 <= Len6
  /\ Datas4 \subseteq Bytes(Len4) /\ Datas6 \subseteq Bytes(Len6) /\ Scopes \cup Ports \subseteq Numbers
  /\ Lists \subseteq Seq(Meanings \cup {Nothing})

VARIABLES
  endpoint,   \* their memory
  meaning,    \* what each was set to, in terms of the system
  peer,       \* where the socket is connected to, likewise
  found,      \* what the system last found for a name
  resolved    \* what IPResolver made of it

vars == <<endpoint, meaning, peer, found, resolved>>

TypeOK ==
  /\ endpoint \in [Objects -> [address : Addresses, port : Numbers]]
  /\ meaning \in [Objects -> [address : Meanings, port : Ports, swapped : BOOLEAN] \cup {Nothing}]
  /\ peer \in [address : Meanings, port : Ports] \cup {Nothing}
  /\ found \in Seq(Meanings \cup {Nothing}) /\ resolved \in Seq(Addresses)

-----------------------------------------------------------------------------
(* Numbers and bytes                                                       *)

\* IPv4Address from a number, and a number from one: the first byte is the highest.
FromNumber == [n \in Numbers |-> [i \in 1..Len4 |-> (n \div Power[Len4 - i]) % Byte]]
ToNumber ==
  [data \in Bytes(Len4) \cup Bytes(Len6) |->
     LET upTo[i \in 0..Len(data)] == IF i = 0 THEN 0 ELSE upTo[i - 1] * Byte + data[i]
     IN  upTo[Len(data)]]

\* A number in the memory of the machine: Windows, the one system the code is
\* for, runs on machines whose first byte is the lowest.
Store(n) == Reverse(FromNumber[n])
Load(bytes) == ToNumber[Reverse(bytes)]

\* Corecat::convertBigToNative and convertNativeToBig.
Convert == [n \in Numbers |-> Load(Reverse(Store(n)))]

Palindrome(n) == Convert[n] = n

-----------------------------------------------------------------------------
(* Addresses                                                               *)

\* What an IPAddress becomes: the bytes an IPv4Address does not have stay as they were.
AsIPv4(address, data) ==
  [type |-> "IPv4", data |-> [i \in 1..Len6 |-> IF i <= Len4 THEN data[i] ELSE address.data[i]], scope |-> address.scope]
AsIPv6(address, data, scope) == [type |-> "IPv6", data |-> data, scope |-> scope]

V4(address) == SubSeq(address.data, 1, Len4)

\* std::memcmp(a, b, n) < 0.
Precedes(a, b) == \E i \in 1..Len(a) : a[i] < b[i] /\ \A j \in 1..(i - 1) : a[j] = b[j]

\* Mutant: the union is compared as a whole.
EqualWhole(a, b) == a.type = b.type /\ a.data = b.data /\ (a.type = "IPv6" => a.scope = b.scope)

Equal(a, b) ==
  /\ a.type = b.type
  /\ IF a.type = "IPv4" THEN V4(a) = V4(b) ELSE a.data = b.data /\ a.scope = b.scope

Less(a, b) ==
  IF a.type # b.type THEN a.type = "IPv4"
  ELSE IF a.type = "IPv4" THEN Precedes(V4(a), V4(b))
  ELSE Precedes(a.data, b.data) \/ (a.data = b.data /\ a.scope < b.scope)

-----------------------------------------------------------------------------
(* sockaddr                                                                *)

\* Mutants: the port, or the number of an IPv4 address, is not converted.
ToSockaddrPort(e) ==
  IF e.address.type = "IPv4"
  THEN [type |-> "IPv4", port |-> Store(e.port), addr |-> Store(Convert[ToNumber[V4(e.address)]]), scope |-> Store(0)]
  ELSE [type |-> "IPv6", port |-> Store(e.port), addr |-> e.address.data, scope |-> Store(Convert[e.address.scope])]

ToSockaddrNumber(e) ==
  IF e.address.type = "IPv4"
  THEN [type |-> "IPv4", port |-> Store(Convert[e.port]), addr |-> Store(ToNumber[V4(e.address)]), scope |-> Store(0)]
  ELSE [type |-> "IPv6", port |-> Store(Convert[e.port]), addr |-> e.address.data, scope |-> Store(Convert[e.address.scope])]

ToSockaddr(e) ==
  LET port == Store(Convert[e.port])
  IN  IF e.address.type = "IPv4"
      THEN [type |-> "IPv4", port |-> port, addr |-> Store(Convert[ToNumber[V4(e.address)]]), scope |-> Store(0)]
      ELSE [type |-> "IPv6", port |-> port, addr |-> e.address.data, scope |-> Store(Convert[e.address.scope])]

\* Mutant: the scope is taken as it is.
FromSockaddrRaw(saddr, address) ==
  [address |-> IF saddr.type = "IPv4" THEN AsIPv4(address, FromNumber[Convert[Load(saddr.addr)]])
               ELSE AsIPv6(address, saddr.addr, Load(saddr.scope)),
   port |-> Convert[Load(saddr.port)]]

FromSockaddr(saddr, address) ==
  [address |-> IF saddr.type = "IPv4" THEN AsIPv4(address, FromNumber[Convert[Load(saddr.addr)]])
               ELSE AsIPv6(address, saddr.addr, Convert[Load(saddr.scope)]),
   port |-> Convert[Load(saddr.port)]]

\* The system takes addresses and ports in the order of the network, scopes in that of the machine.
SystemReads(saddr) ==
  [address |-> [type |-> saddr.type, data |-> saddr.addr, scope |-> Load(saddr.scope)], port |-> ToNumber[saddr.port]]
SystemWrites(m, port) ==
  [type |-> m.type, port |-> FromNumber[port], addr |-> m.data, scope |-> Store(m.scope)]

-----------------------------------------------------------------------------
Blank == [type |-> "IPv4", data |-> [i \in 1..Len6 |-> 0], scope |-> 0]

\* What an address may hold that is not initialised.
Garbage == {[Blank EXCEPT !.data = [i \in 1..Len6 |-> b]] : b \in 0..(Byte - 1)}

\* Value-initialised endpoints, and no connection.
Init ==
  /\ endpoint = [o \in Objects |-> [address |-> Blank, port |-> 0]]
  /\ meaning = [o \in Objects |-> Nothing]
  /\ peer = Nothing /\ found = <<>> /\ resolved = <<>>

\* User code sets address and port of an endpoint.
Set(o, m, port) ==
  /\ endpoint' = [endpoint EXCEPT ![o] =
       [address |-> IF m.type = "IPv4" THEN AsIPv4(@.address, m.data) ELSE AsIPv6(@.address, m.data, m.scope),
        port |-> port]]
  /\ meaning' = [meaning EXCEPT ![o] = [address |-> m, port |-> port, swapped |-> FALSE]]
  /\ UNCHANGED <<peer, found, resolved>>

\* The same from a number, and through the references that getIPv4() and getIPv6() return.
SetNumber(o, n) ==
  /\ meaning[o] # Nothing /\ FromNumber[n] \in Datas4
  /\ endpoint' = [endpoint EXCEPT ![o].address = AsIPv4(@, FromNumber[n])]
  /\ meaning' = [meaning EXCEPT ![o] =
       [address |-> [type |-> "IPv4", data |-> FromNumber[n], scope |-> 0], port |-> @.port, swapped |-> FALSE]]
  /\ UNCHANGED <<peer, found, resolved>>

SetData(o, data) ==
  /\ meaning[o] # Nothing /\ data \in IF endpoint[o].address.type = "IPv4" THEN Datas4 ELSE Datas6
  /\ endpoint' = [endpoint EXCEPT ![o].address.data = [i \in 1..Len6 |-> IF i <= Len(data) THEN data[i] ELSE @[i]]]
  /\ meaning' = [meaning EXCEPT ![o].address.data = data]
  /\ UNCHANGED <<peer, found, resolved>>

SetScope(o, scope) ==
  /\ meaning[o] # Nothing /\ endpoint[o].address.type = "IPv6"
  /\ endpoint' = [endpoint EXCEPT ![o].address.scope = scope]
  /\ meaning' = [meaning EXCEPT ![o] =
       [address |-> [@.address EXCEPT !.scope = scope], port |-> @.port, swapped |-> FALSE]]
  /\ UNCHANGED <<peer, found, resolved>>

Copy(o, p) ==
  /\ endpoint' = [endpoint EXCEPT ![o] = endpoint[p]]
  /\ meaning' = [meaning EXCEPT ![o] = meaning[p]]
  /\ UNCHANGED <<peer, found, resolved>>

\* A socket connects to an endpoint.
Connect(o) ==
  /\ meaning[o] # Nothing /\ peer' = SystemReads(ToSockaddr(endpoint[o]))
  /\ UNCHANGED <<endpoint, meaning, found, resolved>>

\* A socket is accepted.
Accepted(m, port) == peer' = [address |-> m, port |-> port] /\ UNCHANGED <<endpoint, meaning, found, resolved>>

\* getRemoteEndpoint: a new address takes the sockaddr, and is assigned as a whole.
\* If getpeername fails, as it does after ConnectEx and AcceptEx, which leave the
\* socket's context unset, that is an exception and nothing changes.
GetRemoteEndpoint(o) ==
  /\ peer # Nothing
  /\ \E before \in Garbage :
       endpoint' = [endpoint EXCEPT ![o] = FromSockaddr(SystemWrites(peer.address, peer.port), before)]
  /\ meaning' = [meaning EXCEPT ![o] = [address |-> peer.address, port |-> peer.port, swapped |-> TRUE]]
  /\ UNCHANGED <<peer, found, resolved>>

-----------------------------------------------------------------------------
(* IPResolver                                                              *)

\* Those of a list that are of one of the two families.
IPs(list) ==
  LET upTo[i \in 0..Len(list)] ==
        IF i = 0 THEN <<>> ELSE IF list[i] = Nothing THEN upTo[i - 1] ELSE Append(upTo[i - 1], list[i])
  IN  upTo[Len(list)]

ToAddress(m, before) ==
  LET saddr == SystemWrites(m, 0)
  IN  IF m.type = "IPv4" THEN AsIPv4(before, FromNumber[Convert[Load(saddr.addr)]])
      ELSE AsIPv6(before, saddr.addr, Load(saddr.scope))

\* resolve(name): addresses of other families, Nothing here, are passed over.  A
\* failing GetAddrInfoW, like a list without an address, is an exception and leaves
\* user code none: the empty list.
Resolve(list) ==
  /\ found' = list
  /\ \E ip \in {IPs(list)}, before \in Garbage :
       resolved' = [i \in 1..Len(ip) |-> ToAddress(ip[i], before)]
  /\ UNCHANGED <<endpoint, meaning, peer>>

\* User code takes one, with a port.
Take(o, i, port) ==
  /\ endpoint' = [endpoint EXCEPT ![o] = [address |-> resolved[i], port |-> port]]
  /\ meaning' = [meaning EXCEPT ![o] = [address |-> IPs(found)[i], port |-> port, swapped |-> FALSE]]
  /\ UNCHANGED <<peer, found, resolved>>

-----------------------------------------------------------------------------
Next ==
  \/ \E o \in Objects :
       \/ \E m \in Inputs, port \in Ports : Set(o, m, port)
       \/ \E n \in Numbers : SetNumber(o, n)
       \/ \E data \in Datas4 \cup Datas6 : SetData(o, data)
       \/ \E scope \in Scopes : SetScope(o, scope)
       \/ \E p \in Objects : Copy(o, p)
       \/ Connect(o) \/ GetRemoteEndpoint(o)
       \/ \E i \in 1..Len(resolved), port \in Ports : Take(o, i, port)
  \/ \E m \in Inputs, port \in Ports : Accepted(m, port)
  \/ \E list \in Lists : Resolve(list)

Spec == Init /\ [][Next]_vars

-----------------------------------------------------------------------------
(* Properties                                                              *)

Meant(o) == meaning[o].address
SameAs(o, p) == meaning[o].swapped = meaning[p].swapped \/ (Palindrome(Meant(o).scope) /\ Palindrome(Meant(p).scope))
Above(m, n) ==
  \/ ToNumber[m.data] > ToNumber[n.data]
  \/ ToNumber[m.data] = ToNumber[n.data] /\ m.scope > n.scope

\* Addresses compare by the last value they were given, whatever the union held
\* before and by whichever way it came, and in the order of their numbers.  A scope
\* from a sockaddr is taken for the one user code means only if it reads alike in
\* both byte orders.
ComparesByValue ==
  \A o, p \in {q \in Objects : meaning[q] # Nothing} : SameAs(o, p) =>
    LET a == endpoint[o].address
        b == endpoint[p].address
    IN  /\ Equal(a, b) <=> Meant(o) = Meant(p)
        /\ Palindrome(Meant(o).scope) /\ Palindrome(Meant(p).scope) =>
             (Less(a, b) <=> IF Meant(o).type # Meant(p).type THEN Meant(o).type = "IPv4"
                             ELSE Above(Meant(p), Meant(o)))

\* A socket is connected to the address and port that the endpoint was set to, by
\* user code, by the resolver or from another socket, except for the scope: one
\* that was taken from a socket arrives, and any other arrives with its bytes
\* reversed, since toSockaddr converts what only fromSockaddr has converted.
Arrives(o) ==
  [Meant(o) EXCEPT !.scope = IF meaning[o].swapped THEN Meant(o).scope ELSE Convert[Meant(o).scope]]

ReachesTarget ==
  [][\A o \in Objects : Connect(o) => peer' = [address |-> Arrives(o), port |-> meaning[o].port]]_vars

\* The endpoint a socket shows is equal to the one it was connected to.
ShowsTarget ==
  [][\A o, p \in Objects : meaning[o] # Nothing /\ GetRemoteEndpoint(p) /\ peer = SystemReads(ToSockaddr(endpoint[o])) =>
       Equal(endpoint[o].address, endpoint'[p].address) /\ endpoint[o].port = endpoint'[p].port]_vars
=============================================================================
