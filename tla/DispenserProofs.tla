--------------------------- MODULE DispenserProofs ---------------------------
(* The dispenser gives every connection its own datagrams in order, for every *)
(* set of addresses and every number of connections and datagrams.            *)
EXTENDS Dispenser, NumberProofs, SequenceTheorems, TLAPS

Datagrams == [from : Addrs, n : Nat]

\* The list holds exactly the connections that are not freed, each once.
ListInv ==
    /\ arrived \in Nat /\ created \in 0 .. MaxConns /\ live \subseteq 1 .. created
    /\ head \in Seq(Nat)
    /\ \A i \in 1 .. Len(head) : head[i] \in live
    /\ \A i, j \in 1 .. Len(head) : head[i] = head[j] => i = j
    /\ \A c \in live : \E i \in 1 .. Len(head) : head[i] = c
    /\ source \in [Conns -> Addrs \cup {NoVal}]
    /\ OneForAddress

\* Datagrams leave the socket in the order of arrival, so what a connection has
\* read is older than what it holds, and that is older than what still waits.
OrderInv ==
    /\ socket \in Seq(Datagrams)
    /\ read_buf \in [Conns -> Datagrams \cup {NoVal}]
    /\ got \in [Conns -> Seq(Datagrams)]
    /\ \A i \in 1 .. Len(socket) : socket[i].n <= arrived
    /\ \A i, j \in 1 .. Len(socket) : i < j => socket[i].n < socket[j].n
    /\ \A c \in Conns : c > created => read_buf[c] = NoVal /\ got[c] = <<>>
    /\ \A c \in Conns : read_buf[c] # NoVal =>
         /\ read_buf[c].from = source[c]
         /\ \A i \in 1 .. Len(socket) : read_buf[c].n < socket[i].n
         /\ \A i \in 1 .. Len(got[c]) : got[c][i].n < read_buf[c].n
    /\ \A c \in Conns, i \in 1 .. Len(socket) :
         \A j \in 1 .. Len(got[c]) : got[c][j].n < socket[i].n
    /\ \A c \in Conns : read_buf[c] # NoVal => read_buf[c].n <= arrived
    /\ \A c \in Conns : \A j \in 1 .. Len(got[c]) : got[c][j].n <= arrived
    /\ ReadsOwnInOrder

DispenserInv == ListInv /\ OrderInv

LEMMA DispenserInit == Init => DispenserInv
<1> SUFFICES ASSUME Init PROVE DispenserInv
  OBVIOUS
<1>1. ListInv
  BY DispenserAssumption DEF Init, ListInv, OneForAddress
<1>2. OrderInv
  BY DEF Init, OrderInv, ReadsOwnInOrder
<1> QED BY <1>1, <1>2 DEF DispenserInv

\* A datagram that arrives is newer than all others.
LEMMA ArriveKeeps ==
    ASSUME DispenserInv, NEW a \in Addrs, Arrive(a)
    PROVE  DispenserInv'
<1> DEFINE d == [from |-> a, n |-> arrived + 1]
<1>1. /\ arrived' = arrived + 1 /\ socket' = Append(socket, d)
      /\ UNCHANGED <<created, live, head, source, read_buf, got>>
  BY DEF Arrive
<1>2. arrived \in Nat /\ d \in Datagrams /\ d.n = arrived + 1 /\ socket \in Seq(Datagrams)
  BY DEF DispenserInv, ListInv, OrderInv, Datagrams
<1>3. ListInv'
  BY <1>1, <1>2 DEF DispenserInv, ListInv, OneForAddress, Conns
<1> HIDE DEF d
<1>4. /\ socket' \in Seq(Datagrams) /\ Len(socket') = Len(socket) + 1 /\ Len(socket) \in Nat
      /\ \A i \in 1 .. Len(socket) : socket'[i] = socket[i]
      /\ socket'[Len(socket) + 1] = d
  BY <1>1, <1>2
<1>5. \A i \in 1 .. Len(socket') : i \in 1 .. Len(socket) \/ i = Len(socket) + 1
  BY <1>4
<1>6. \A i \in 1 .. Len(socket) : socket[i].n \in Nat /\ socket[i].n <= arrived
  <2>1. \A i \in 1 .. Len(socket) : socket[i] \in Datagrams
    BY <1>2
  <2> QED BY <2>1 DEF DispenserInv, OrderInv, Datagrams
<1>7. /\ \A c \in Conns : read_buf[c] # NoVal => read_buf[c].n \in Nat
      /\ \A c \in Conns : \A j \in 1 .. Len(got[c]) : got[c][j].n \in Nat
  <2>1. \A c \in Conns : read_buf[c] # NoVal => read_buf[c] \in Datagrams
    BY DEF DispenserInv, OrderInv
  <2>2. \A c \in Conns : \A j \in 1 .. Len(got[c]) : got[c][j] \in Datagrams
    BY DEF DispenserInv, OrderInv
  <2> QED BY <2>1, <2>2 DEF Datagrams
<1>8. OrderInv'
  <2>1. /\ \A i \in 1 .. Len(socket') : socket'[i].n <= arrived'
        /\ \A i, j \in 1 .. Len(socket') : i < j => socket'[i].n < socket'[j].n
    BY <1>1, <1>2, <1>4, <1>5, <1>6 DEF DispenserInv, OrderInv
  <2>2. \A c \in Conns : read_buf[c] # NoVal =>
          \A i \in 1 .. Len(socket') : read_buf[c].n < socket'[i].n
    BY <1>2, <1>4, <1>5, <1>7 DEF DispenserInv, OrderInv
  <2>3. \A c \in Conns, i \in 1 .. Len(socket') :
          \A j \in 1 .. Len(got[c]) : got[c][j].n < socket'[i].n
    BY <1>2, <1>4, <1>5, <1>7 DEF DispenserInv, OrderInv
  <2>4. /\ \A c \in Conns : read_buf[c] # NoVal => read_buf[c].n <= arrived'
        /\ \A c \in Conns : \A j \in 1 .. Len(got[c]) : got[c][j].n <= arrived'
    BY <1>1, <1>2, <1>7 DEF DispenserInv, OrderInv
  <2> QED
    BY <1>1, <1>4, <2>1, <2>2, <2>3, <2>4
    DEF DispenserInv, OrderInv, ReadsOwnInOrder, Conns
<1> QED BY <1>3, <1>8 DEF DispenserInv

\* The connection that gets the datagram at the head of the socket.
Target(c) ==
    /\ c \in Conns /\ socket # <<>>
    /\ socket' = Tail(socket)
    /\ read_buf' = [read_buf EXCEPT ![c] = Head(socket)]
    /\ UNCHANGED <<arrived, got>>

\* Whichever connection it is left with, the order is kept if the address is its own.
LEMMA StoringKeeps ==
    ASSUME DispenserInv, NEW c, Target(c),
           source' = source \/ source' = [source EXCEPT ![c] = Head(socket).from],
           source'[c] = Head(socket).from,
           source' # source => c = created + 1,
           created' \in Nat, created' >= created, c <= created'
    PROVE  OrderInv'
<1> DEFINE d == Head(socket)
<1>1. /\ socket \in Seq(Datagrams) /\ socket # <<>> /\ c \in Conns /\ Conns \subseteq Nat
      /\ read_buf \in [Conns -> Datagrams \cup {NoVal}] /\ got \in [Conns -> Seq(Datagrams)]
      /\ source \in [Conns -> Addrs \cup {NoVal}]
      /\ created \in Nat /\ arrived \in Nat
  BY DispenserAssumption DEF DispenserInv, OrderInv, ListInv, Target, Conns
<1>2. /\ d \in Datagrams /\ d = socket[1] /\ Len(socket) \in Nat /\ Len(socket) >= 1
      /\ Tail(socket) \in Seq(Datagrams) /\ Len(Tail(socket)) = Len(socket) - 1
      /\ \A i \in 1 .. Len(Tail(socket)) : Tail(socket)[i] = socket[i + 1]
  BY <1>1
<1>3. socket' = Tail(socket) /\ read_buf' = [read_buf EXCEPT ![c] = d]
      /\ arrived' = arrived /\ got' = got
  BY DEF Target
<1> HIDE DEF d
<1>4. \A i \in 1 .. Len(socket) : socket[i].n \in Nat
  <2>1. \A i \in 1 .. Len(socket) : socket[i] \in Datagrams
    BY <1>1
  <2> QED BY <2>1 DEF Datagrams
<1>5. \A i \in 1 .. Len(socket') :
        /\ i + 1 \in 1 .. Len(socket) /\ socket'[i] = socket[i + 1]
        /\ d.n < socket'[i].n
  BY <1>2, <1>3, <1>4 DEF DispenserInv, OrderInv
<1>6. /\ socket' \in Seq(Datagrams)
      /\ \A i \in 1 .. Len(socket') : socket'[i].n <= arrived'
      /\ \A i, j \in 1 .. Len(socket') : i < j => socket'[i].n < socket'[j].n
  BY <1>2, <1>3, <1>5 DEF DispenserInv, OrderInv
<1>7. /\ read_buf' \in [Conns -> Datagrams \cup {NoVal}] /\ read_buf'[c] = d
      /\ \A e \in Conns : e # c => read_buf'[e] = read_buf[e]
  BY <1>1, <1>2, <1>3
<1>8. \A e \in Conns : e # c => source'[e] = source[e]
  BY <1>1
<1>9. \A e \in Conns : e > created' => read_buf'[e] = NoVal /\ got'[e] = <<>>
  BY <1>1, <1>3, <1>7 DEF DispenserInv, OrderInv
<1>10. \A i \in 1 .. Len(got[c]) : got[c][i].n < d.n
  <2>1. 1 \in 1 .. Len(socket)
    BY <1>2
  <2> QED BY <1>1, <1>2, <2>1 DEF DispenserInv, OrderInv
<1>11. \A e \in Conns : read_buf'[e] # NoVal =>
         /\ read_buf'[e].from = source'[e]
         /\ \A i \in 1 .. Len(socket') : read_buf'[e].n < socket'[i].n
         /\ \A i \in 1 .. Len(got'[e]) : got'[e][i].n < read_buf'[e].n
         /\ read_buf'[e].n <= arrived'
  <2> SUFFICES ASSUME NEW e \in Conns, read_buf'[e] # NoVal
               PROVE  /\ read_buf'[e].from = source'[e]
                      /\ \A i \in 1 .. Len(socket') : read_buf'[e].n < socket'[i].n
                      /\ \A i \in 1 .. Len(got'[e]) : got'[e][i].n < read_buf'[e].n
                      /\ read_buf'[e].n <= arrived'
    OBVIOUS
  <2>1. CASE e = c
    <3>1. d.n <= arrived
      BY <1>2 DEF DispenserInv, OrderInv
    <3> QED BY <1>3, <1>5, <1>7, <1>10, <2>1, <3>1 DEF d
  <2>2. CASE e # c
    BY <1>3, <1>5, <1>7, <1>8, <2>2 DEF DispenserInv, OrderInv
  <2> QED BY <2>1, <2>2
<1>12. /\ \A e \in Conns, i \in 1 .. Len(socket') :
            \A j \in 1 .. Len(got'[e]) : got'[e][j].n < socket'[i].n
       /\ \A e \in Conns : \A j \in 1 .. Len(got'[e]) : got'[e][j].n <= arrived'
  BY <1>3, <1>5 DEF DispenserInv, OrderInv
<1>13. ReadsOwnInOrder'
  <2>1. \A e \in Conns : source'[e] = source[e] \/ got[e] = <<>>
    <3>1. CASE source' = source
      BY <3>1
    <3>2. CASE source' # source
      <4>1. c > created
        BY <1>1, <3>2
      <4> QED BY <1>1, <1>8, <4>1 DEF DispenserInv, OrderInv
    <3> QED BY <3>1, <3>2
  <2>2. \A e \in Conns : \A i \in 1 .. Len(got[e]) : got[e][i].from = source'[e]
    <3> SUFFICES ASSUME NEW e \in Conns, NEW i \in 1 .. Len(got[e])
                 PROVE  got[e][i].from = source'[e]
      OBVIOUS
    <3>1. got[e] # <<>>
      OBVIOUS
    <3> QED BY <2>1, <3>1 DEF DispenserInv, OrderInv, ReadsOwnInOrder
  <2> QED BY <1>3, <2>2 DEF DispenserInv, OrderInv, ReadsOwnInOrder, Conns
<1> QED
  BY <1>3, <1>1, <1>6, <1>7, <1>9, <1>11, <1>12, <1>13 DEF OrderInv, Conns

LEMMA DispenseKeeps ==
    ASSUME DispenserInv, QuicDoDispense
    PROVE  DispenserInv'
<1> DEFINE d == Head(socket)
           a == d.from
           found == QuicDispenserFindByAddr(a)
<1>1. /\ socket \in Seq(Datagrams) /\ socket # <<>> /\ head \in Seq(Nat)
      /\ source \in [Conns -> Addrs \cup {NoVal}] /\ created \in 0 .. MaxConns
      /\ live \subseteq 1 .. created /\ MaxConns \in Nat
  BY DispenserAssumption DEF QuicDoDispense, DispenserInv, ListInv, OrderInv
<1>2. d \in Datagrams /\ a \in Addrs
  <2>1. d \in Datagrams
    BY <1>1
  <2>2. \A e \in Datagrams : e.from \in Addrs
    BY DEF Datagrams
  <2> QED BY <2>1, <2>2
<1>3. CASE found = {}
  <2> DEFINE c == created + 1
  <2>1. /\ created < MaxConns /\ created' = c /\ live' = live \cup {c}
        /\ head' = Append(head, c) /\ source' = [source EXCEPT ![c] = a]
        /\ Target(c)
    BY <1>1, <1>3 DEF QuicDoDispense, QuicNew, Target, Conns
  <2>2. c \in Conns /\ source'[c] = a
    BY <1>1, <2>1 DEF Conns
  <2>3. OrderInv'
    <3>1. created' \in Nat /\ created' >= created /\ c <= created' /\ c = created + 1
      BY <1>1, <2>1
    <3>2. source' = [source EXCEPT ![c] = Head(socket).from] /\ source'[c] = Head(socket).from
      BY <2>1, <2>2
    <3> HIDE DEF c, found
    <3> QED BY <2>1, <3>1, <3>2, StoringKeeps
  <2>4. \A e \in live : source[e] # a
    <3> SUFFICES ASSUME NEW e \in live, source[e] = a PROVE FALSE
      OBVIOUS
    <3>1. PICK i \in 1 .. Len(head) : head[i] = e
      BY DEF DispenserInv, ListInv
    <3>2. i \in found
      BY <3>1 DEF QuicDispenserFindByAddr
    <3> QED BY <1>3, <3>2
  <2>5. \A e \in live : e \in Conns /\ e # c /\ source'[e] = source[e]
    BY <1>1, <2>1 DEF Conns
  <2>6. OneForAddress'
    BY <2>1, <2>2, <2>4, <2>5 DEF DispenserInv, ListInv, OneForAddress
  <2> HIDE DEF found
  <2>7. /\ head' \in Seq(Nat) /\ Len(head') = Len(head) + 1 /\ Len(head) \in Nat
        /\ \A i \in 1 .. Len(head) : head'[i] = head[i]
        /\ head'[Len(head) + 1] = c
    BY <1>1, <2>1
  <2>8. \A i \in 1 .. Len(head') : i \in 1 .. Len(head) \/ i = Len(head) + 1
    BY <2>7
  <2>9. /\ \A i \in 1 .. Len(head') : head'[i] \in live'
        /\ \A e \in live' : \E i \in 1 .. Len(head') : head'[i] = e
        /\ \A i, j \in 1 .. Len(head') : head'[i] = head'[j] => i = j
    <3>1. \A i \in 1 .. Len(head) : head[i] \in live /\ head[i] # c
      BY <2>5 DEF DispenserInv, ListInv
    <3>2. \A e \in live : \E i \in 1 .. Len(head) : head[i] = e
      BY DEF DispenserInv, ListInv
    <3>3. \A i, j \in 1 .. Len(head) : head[i] = head[j] => i = j
      BY DEF DispenserInv, ListInv
    <3>4. \A e \in live' : e \in live \/ e = c
      BY <2>1
    <3>5. \A i \in 1 .. Len(head') : head'[i] \in live'
      BY <2>1, <2>7, <2>8, <3>1
    <3>6. \A e \in live' : \E i \in 1 .. Len(head') : head'[i] = e
      BY <2>7, <3>2, <3>4
    <3>7. \A i, j \in 1 .. Len(head') : head'[i] = head'[j] => i = j
      BY <2>7, <2>8, <3>1, <3>3
    <3> QED BY <3>5, <3>6, <3>7
  <2>10. /\ created' \in 0 .. MaxConns /\ live' \subseteq 1 .. created' /\ arrived' \in Nat
         /\ source' \in [Conns -> Addrs \cup {NoVal}]
    <3>1. /\ arrived \in Nat /\ created \in 0 .. MaxConns /\ live \subseteq 1 .. created
          /\ source \in [Conns -> Addrs \cup {NoVal}] /\ MaxConns \in Nat
      BY DispenserAssumption DEF DispenserInv, ListInv
    <3>2. arrived' = arrived
      BY <2>1, <2>2 DEF Target
    <3>3. created' \in 0 .. MaxConns /\ live' \subseteq 1 .. created'
      BY <1>1, <2>1, <2>2, <3>1
    <3>4. source' \in [Conns -> Addrs \cup {NoVal}]
      <4>1. source' = [source EXCEPT ![c] = a] /\ a \in Addrs \cup {NoVal}
        BY <1>2, <2>1
      <4> HIDE DEF c, a
      <4> QED BY <3>1, <4>1
    <3> QED BY <3>1, <3>2, <3>3, <3>4
  <2>11. ListInv'
    BY <2>6, <2>7, <2>9, <2>10 DEF ListInv, Conns
  <2> QED BY <2>3, <2>11 DEF DispenserInv
<1>4. CASE found # {}
  <2> DEFINE m == CHOOSE i \in found : \A j \in found : i <= j
  <2>1. m \in found
    <3>1. found \subseteq Nat
      BY <1>1 DEF QuicDispenserFindByAddr
    <3>2. \E i \in found : \A j \in found : i <= j
      <4> HIDE DEF found
      <4> QED BY <1>4, <3>1, Least
    <3> HIDE DEF found
    <3> QED BY <3>2
  <2>2. m \in 1 .. Len(head) /\ source[head[m]] = a
    BY <2>1 DEF QuicDispenserFindByAddr
  <2>3. head[m] \in live /\ head[m] \in Conns /\ head[m] \in Nat /\ head[m] <= created
    BY <1>1, <2>2 DEF DispenserInv, ListInv, Conns
  <2>4. Target(head[m]) /\ UNCHANGED <<created, live, head, source>>
    BY <1>4, <2>3 DEF QuicDoDispense, Target
  <2>5. OrderInv'
    <3> HIDE DEF m, found
    <3> QED BY <1>1, <2>2, <2>3, <2>4, StoringKeeps
  <2>6. ListInv'
    BY <2>4 DEF Target, DispenserInv, ListInv, OneForAddress, Conns
  <2> QED BY <2>5, <2>6 DEF DispenserInv
<1> QED BY <1>3, <1>4

LEMMA ReadKeeps ==
    ASSUME DispenserInv, NEW c \in Conns, QuicDispenserReadBytes(c)
    PROVE  DispenserInv'
<1> DEFINE d == read_buf[c]
<1>1. /\ d # NoVal /\ got' = [got EXCEPT ![c] = Append(@, d)]
      /\ read_buf' = [read_buf EXCEPT ![c] = NoVal]
      /\ UNCHANGED <<socket, arrived, created, live, head, source>> /\ c \in live
  BY DEF QuicDispenserReadBytes
<1>2. /\ read_buf \in [Conns -> Datagrams \cup {NoVal}] /\ got \in [Conns -> Seq(Datagrams)]
      /\ d \in Datagrams /\ d.n \in Nat
  <2>1. /\ read_buf \in [Conns -> Datagrams \cup {NoVal}]
        /\ got \in [Conns -> Seq(Datagrams)] /\ d \in Datagrams
    BY <1>1 DEF DispenserInv, OrderInv
  <2> QED BY <2>1 DEF Datagrams
<1>3. ListInv'
  BY <1>1 DEF DispenserInv, ListInv, OneForAddress, Conns
<1>4. /\ d.from = source[c] /\ d.n <= arrived
      /\ \A i \in 1 .. Len(socket) : d.n < socket[i].n
      /\ \A i \in 1 .. Len(got[c]) : got[c][i].n < d.n
  BY <1>1 DEF DispenserInv, OrderInv
<1> HIDE DEF d
<1>5. /\ got'[c] \in Seq(Datagrams) /\ Len(got'[c]) = Len(got[c]) + 1 /\ Len(got[c]) \in Nat
      /\ \A i \in 1 .. Len(got[c]) : got'[c][i] = got[c][i]
      /\ got'[c][Len(got[c]) + 1] = d
      /\ \A e \in Conns : e # c => got'[e] = got[e]
  <2>1. got[c] \in Seq(Datagrams) /\ got'[c] = Append(got[c], d)
    BY <1>1, <1>2
  <2>2. \A e \in Conns : e # c => got'[e] = got[e]
    BY <1>1, <1>2
  <2> QED BY <1>2, <2>1, <2>2
<1>6. \A i \in 1 .. Len(got'[c]) : i \in 1 .. Len(got[c]) \/ i = Len(got[c]) + 1
  BY <1>5
<1>7. read_buf'[c] = NoVal /\ \A e \in Conns : e # c => read_buf'[e] = read_buf[e]
  BY <1>1, <1>2
<1>8. \A e \in Conns : \A j \in 1 .. Len(got'[e]) :
        /\ got'[e][j].n <= arrived /\ got'[e][j].from = source[e]
        /\ \A i \in 1 .. Len(socket) : got'[e][j].n < socket[i].n
  <2> SUFFICES ASSUME NEW e \in Conns, NEW j \in 1 .. Len(got'[e])
               PROVE  /\ got'[e][j].n <= arrived /\ got'[e][j].from = source[e]
                      /\ \A i \in 1 .. Len(socket) : got'[e][j].n < socket[i].n
    OBVIOUS
  <2>1. CASE e = c /\ j = Len(got[c]) + 1
    BY <1>4, <1>5, <2>1
  <2>2. CASE ~ (e = c /\ j = Len(got[c]) + 1)
    <3>1. j \in 1 .. Len(got[e]) /\ got'[e][j] = got[e][j]
      BY <1>5, <1>6, <2>2
    <3> QED BY <3>1 DEF DispenserInv, OrderInv, ReadsOwnInOrder
  <2> QED BY <2>1, <2>2
<1>9. \A e \in Conns : \A i, j \in 1 .. Len(got'[e]) : i < j => got'[e][i].n < got'[e][j].n
  <2> SUFFICES ASSUME NEW e \in Conns, NEW i \in 1 .. Len(got'[e]),
                      NEW j \in 1 .. Len(got'[e]), i < j
               PROVE  got'[e][i].n < got'[e][j].n
    OBVIOUS
  <2>1. CASE e = c /\ j = Len(got[c]) + 1
    <3>1. i \in 1 .. Len(got[c])
      BY <1>5, <1>6, <2>1
    <3> QED BY <1>4, <1>5, <2>1, <3>1
  <2>2. CASE ~ (e = c /\ j = Len(got[c]) + 1)
    <3>1. /\ j \in 1 .. Len(got[e]) /\ got'[e][j] = got[e][j]
          /\ i \in 1 .. Len(got[e]) /\ got'[e][i] = got[e][i]
      BY <1>5, <1>6, <2>2
    <3> QED BY <3>1 DEF DispenserInv, OrderInv, ReadsOwnInOrder
  <2> QED BY <2>1, <2>2
<1>10. ReadsOwnInOrder'
  BY <1>1, <1>8, <1>9 DEF ReadsOwnInOrder, Conns
<1>11. got' \in [Conns -> Seq(Datagrams)] /\ read_buf' \in [Conns -> Datagrams \cup {NoVal}]
  BY <1>1, <1>2
<1>12. c <= created
  BY <1>1 DEF DispenserInv, ListInv
<1>13. \A e \in Conns : e > created => read_buf'[e] = NoVal /\ got'[e] = <<>>
  <2>1. \A e \in Conns : e > created => e # c
    BY <1>12 DEF DispenserInv, ListInv, Conns
  <2> QED BY <1>5, <1>7, <2>1 DEF DispenserInv, OrderInv
<1>14. \A e \in Conns : read_buf'[e] # NoVal => e # c /\ read_buf'[e] = read_buf[e]
  BY <1>7
<1>15. \A e \in Conns : read_buf'[e] # NoVal =>
         /\ read_buf'[e].from = source[e] /\ read_buf'[e].n <= arrived
         /\ \A i \in 1 .. Len(socket) : read_buf'[e].n < socket[i].n
         /\ \A i \in 1 .. Len(got'[e]) : got'[e][i].n < read_buf'[e].n
  BY <1>5, <1>14 DEF DispenserInv, OrderInv
<1>16. /\ socket \in Seq(Datagrams) /\ \A i \in 1 .. Len(socket) : socket[i].n <= arrived
       /\ \A i, j \in 1 .. Len(socket) : i < j => socket[i].n < socket[j].n
  BY DEF DispenserInv, OrderInv
<1>17. OrderInv'
  <2>1. Conns' = Conns /\ Datagrams' = Datagrams
    BY DEF Conns, Datagrams
  <2>2. \A e \in Conns, i \in 1 .. Len(socket) :
          \A j \in 1 .. Len(got'[e]) : got'[e][j].n < socket[i].n
    BY <1>8
  <2>3. /\ socket' \in Seq(Datagrams)
        /\ \A i \in 1 .. Len(socket') : socket'[i].n <= arrived'
        /\ \A i, j \in 1 .. Len(socket') : i < j => socket'[i].n < socket'[j].n
    BY <1>1, <1>16
  <2>4. /\ \A e \in Conns : e > created' => read_buf'[e] = NoVal /\ got'[e] = <<>>
        /\ \A e \in Conns : read_buf'[e] # NoVal =>
             /\ read_buf'[e].from = source'[e]
             /\ \A i \in 1 .. Len(socket') : read_buf'[e].n < socket'[i].n
             /\ \A i \in 1 .. Len(got'[e]) : got'[e][i].n < read_buf'[e].n
    BY <1>1, <1>13, <1>15
  <2>5. /\ \A e \in Conns, i \in 1 .. Len(socket') :
             \A j \in 1 .. Len(got'[e]) : got'[e][j].n < socket'[i].n
        /\ \A e \in Conns : read_buf'[e] # NoVal => read_buf'[e].n <= arrived'
        /\ \A e \in Conns : \A j \in 1 .. Len(got'[e]) : got'[e][j].n <= arrived'
    BY <1>1, <1>8, <1>15, <2>2
  <2> QED
    BY <1>10, <1>11, <2>1, <2>3, <2>4, <2>5 DEF OrderInv
<1> QED BY <1>3, <1>17 DEF DispenserInv

\* Freed connections keep their number, and the others their place in the order.
LEMMA FreeKeeps ==
    ASSUME DispenserInv, NEW c \in Conns, QuicFree(c)
    PROVE  DispenserInv'
<1>1. PICK i \in 1 .. Len(head) :
        head[i] = c /\ head' = SubSeq(head, 1, i - 1) \o SubSeq(head, i + 1, Len(head))
  BY DEF QuicFree
<1>2. /\ live' = live \ {c}
      /\ UNCHANGED <<socket, arrived, created, source, read_buf, got>>
  BY DEF QuicFree
<1>3. head \in Seq(Nat) /\ Len(head) \in Nat
  BY DEF DispenserInv, ListInv
<1>4. /\ head' \in Seq(Nat) /\ Len(head') = Len(head) - 1
      /\ \A j \in 1 .. Len(head') : head'[j] = head[IF j < i THEN j ELSE j + 1]
  <2> DEFINE u == SubSeq(head, 1, i - 1)
             v == SubSeq(head, i + 1, Len(head))
  <2>1. /\ u \in Seq(Nat) /\ Len(u) = i - 1 /\ \A j \in 1 .. Len(u) : u[j] = head[j]
    BY <1>3
  <2>2. /\ v \in Seq(Nat) /\ Len(v) = Len(head) - i
        /\ \A j \in 1 .. Len(v) : v[j] = head[i + j]
    BY <1>3
  <2> HIDE DEF u, v
  <2>3. /\ u \o v \in Seq(Nat) /\ Len(u \o v) = Len(u) + Len(v)
        /\ \A j \in 1 .. Len(u) : (u \o v)[j] = u[j]
        /\ \A j \in (Len(u) + 1) .. (Len(u) + Len(v)) : (u \o v)[j] = v[j - Len(u)]
    <3>1. \A j \in 1 .. Len(u) + Len(v) :
            (u \o v)[j] = IF j <= Len(u) THEN u[j] ELSE v[j - Len(u)]
      BY <2>1, <2>2, ConcatProperties
    <3>2. Len(u) \in Nat /\ Len(v) \in Nat
      BY <2>1, <2>2
    <3>3. u \o v \in Seq(Nat) /\ Len(u \o v) = Len(u) + Len(v)
      BY <2>1, <2>2, ConcatProperties
    <3> QED BY <3>1, <3>2, <3>3
  <2>4. head' = u \o v
    BY <1>1 DEF u, v
  <2>5. Len(head') = Len(head) - 1
    <3>1. Len(head') = Len(u) + Len(v)
      BY <2>3, <2>4
    <3>2. Len(u) = i - 1 /\ Len(v) = Len(head) - i
      BY <2>1, <2>2
    <3>3. i \in Int /\ Len(head) \in Int
      BY <1>3
    <3> QED BY <3>1, <3>2, <3>3
  <2>6. ASSUME NEW j \in 1 .. Len(head')
        PROVE  head'[j] = head[IF j < i THEN j ELSE j + 1]
    <3>0. Len(head') = Len(head) - 1
      BY <2>5
    <3>1. CASE j < i
      <4>1. j \in 1 .. Len(u)
        BY <1>3, <2>1, <3>0, <3>1
      <4> QED BY <2>1, <2>3, <2>4, <3>1, <4>1
    <3>2. CASE ~ (j < i)
      <4>1. j \in (Len(u) + 1) .. (Len(u) + Len(v)) /\ j - Len(u) \in 1 .. Len(v)
        BY <1>3, <2>1, <2>2, <3>0, <3>2
      <4>2. v[j - Len(u)] = head[i + (j - Len(u))] /\ i + (j - Len(u)) = j + 1
        <5>1. v[j - Len(u)] = head[i + (j - Len(u))]
          BY <2>2, <4>1
        <5>2. Len(u) = i - 1 /\ i \in Int /\ j \in Int
          BY <1>3, <2>1, <4>1
        <5>3. i + (j - Len(u)) = j + 1
          BY <5>2
        <5> QED BY <5>1, <5>3
      <4> QED BY <2>3, <2>4, <3>2, <4>1, <4>2
    <3> QED BY <3>1, <3>2
  <2>7. head' \in Seq(Nat)
    BY <2>3, <2>4
  <2> QED BY <2>6, <2>5, <2>7
<1> DEFINE old(j) == IF j < i THEN j ELSE j + 1
<1>5. \A j \in 1 .. Len(head') : old(j) \in 1 .. Len(head) /\ old(j) # i
  BY <1>3, <1>4
<1>6. \A j, k \in 1 .. Len(head') : old(j) = old(k) => j = k
  BY <1>3, <1>4
<1>7. \A j \in 1 .. Len(head) : j # i => \E k \in 1 .. Len(head') : old(k) = j
  <2> SUFFICES ASSUME NEW j \in 1 .. Len(head), j # i
               PROVE  \E k \in 1 .. Len(head') : old(k) = j
    OBVIOUS
  <2>1. CASE j < i
    <3>1. j \in 1 .. Len(head') /\ old(j) = j
      BY <1>3, <1>4, <2>1
    <3> QED BY <3>1
  <2>2. CASE ~ (j < i)
    <3>1. j - 1 \in 1 .. Len(head') /\ old(j - 1) = j
      BY <1>3, <1>4, <2>2
    <3> QED BY <3>1
  <2> QED BY <2>1, <2>2
<1>8. \A j \in 1 .. Len(head') : head'[j] = head[old(j)]
  BY <1>4
<1> HIDE DEF old
<1>9. /\ \A j \in 1 .. Len(head) : head[j] \in live
      /\ \A j, k \in 1 .. Len(head) : head[j] = head[k] => j = k
      /\ \A e \in live : \E j \in 1 .. Len(head) : head[j] = e
  BY DEF DispenserInv, ListInv
<1>10. ASSUME NEW j \in 1 .. Len(head')
       PROVE  head'[j] \in live'
  <2>1. head'[j] = head[old(j)] /\ old(j) \in 1 .. Len(head) /\ old(j) # i
    BY <1>5, <1>8
  <2>2. head[old(j)] \in live /\ head[old(j)] # c
    BY <1>1, <1>9, <2>1
  <2> QED BY <1>2, <2>1, <2>2
<1>11. \A j, k \in 1 .. Len(head') : head'[j] = head'[k] => j = k
  BY <1>5, <1>6, <1>8, <1>9
<1>12. \A e \in live' : \E j \in 1 .. Len(head') : head'[j] = e
  <2> SUFFICES ASSUME NEW e \in live'
               PROVE  \E j \in 1 .. Len(head') : head'[j] = e
    OBVIOUS
  <2>1. PICK k \in 1 .. Len(head) : head[k] = e
    BY <1>2, <1>9
  <2>2. k # i
    BY <1>1, <1>2, <2>1
  <2>3. PICK j \in 1 .. Len(head') : old(j) = k
    BY <1>7, <2>2
  <2> QED BY <1>8, <2>1, <2>3
<1>13. ListInv'
  BY <1>2, <1>4, <1>10, <1>11, <1>12 DEF DispenserInv, ListInv, OneForAddress, Conns
<1>14. OrderInv'
  BY <1>2 DEF DispenserInv, OrderInv, ReadsOwnInOrder, Conns
<1> QED BY <1>13, <1>14 DEF DispenserInv

LEMMA DispenserStep == DispenserInv /\ [Next]_vars => DispenserInv'
<1> SUFFICES ASSUME DispenserInv, [Next]_vars PROVE DispenserInv'
  OBVIOUS
<1>1. CASE \E a \in Addrs : Arrive(a)
  BY <1>1, ArriveKeeps
<1>2. CASE QuicDoDispense
  BY <1>2, DispenseKeeps
<1>3. CASE DispenseFails \/ UNCHANGED vars
  <2>1. UNCHANGED <<socket, arrived, created, live, head, source, read_buf, got>>
    BY <1>3 DEF DispenseFails, vars
  <2>2. ListInv'
    BY <2>1 DEF DispenserInv, ListInv, OneForAddress, Conns
  <2>3. OrderInv'
    BY <2>1 DEF DispenserInv, OrderInv, ReadsOwnInOrder, Conns
  <2> QED BY <2>2, <2>3 DEF DispenserInv
<1>4. CASE \E c \in Conns : QuicDispenserReadBytes(c) \/ QuicFree(c)
  BY <1>4, ReadKeeps, FreeKeeps
<1> QED BY <1>1, <1>2, <1>3, <1>4 DEF Next

LEMMA DispenserInvariant == Spec => []DispenserInv
BY DispenserInit, DispenserStep, PTL DEF Spec

\* However datagrams and calls interleave, an address has one connection
\* (QuicDispenserFindByAddr, QuicNew).
THEOREM AddressHasOneConnection == Spec => []OneForAddress
BY DispenserInvariant, PTL DEF DispenserInv, ListInv

\* A connection reads its own client's datagrams, in order, although unread ones
\* are replaced (QuicDoDispense, QuicDispenserReadBytes).
THEOREM DatagramsInOrder == Spec => []ReadsOwnInOrder
BY DispenserInvariant, PTL DEF DispenserInv, OrderInv
=============================================================================
