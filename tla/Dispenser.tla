---- MODULE Dispenser ----
(* One socket for all connections of a server (dispenser.c): QuicDoDispense     *)
(* takes a datagram from the socket and leaves it with the connection of its    *)
(* source address, a new one if there is none; the application then makes a     *)
(* call on that connection.  Datagrams are numbered as they arrive.             *)
EXTENDS Naturals, Sequences

CONSTANTS
  NoVal,
  Addrs,          \* source addresses; a client may change its own
  MaxConns,       \* bound: connections created
  MaxArrivals     \* bound: datagrams that arrive

ASSUME DispenserAssumption == MaxConns \in Nat /\ MaxArrivals \in Nat

VARIABLES
  socket,         \* datagrams in the buffer of sock_fd
  arrived,        \* their number so far
  created,        \* connections created so far; they are 1..created
  live,           \* those that are not freed
  head,           \* the list of connections
  source,         \* source[c]
  read_buf,       \* read_buf[c]: a datagram or NoVal
  running,        \* FALSE after an access to a null pointer
  got             \* history: got[c], the datagrams connection c has read

vars == <<socket, arrived, created, live, head, source, read_buf, running, got>>

Conns == 1..MaxConns

Init ==
  /\ socket = <<>> /\ arrived = 0 /\ created = 0 /\ live = {} /\ head = <<>>
  /\ source = [c \in Conns |-> NoVal] /\ read_buf = [c \in Conns |-> NoVal]
  /\ running = TRUE
  /\ got = [c \in Conns |-> <<>>]

Arrive(a) ==
  /\ arrived < MaxArrivals
  /\ arrived' = arrived + 1
  /\ socket' = Append(socket, [from |-> a, n |-> arrived + 1])
  /\ UNCHANGED <<created, live, head, source, read_buf, running, got>>

(* Fault: an address is only looked for in the first place. *)
FaultFindByAddr(a) == {i \in 1..Len(head) : i = 1 /\ source[head[i]] = a}

(* Indices of the connections with this source; the first one is taken. *)
QuicDispenserFindByAddr(a) == {i \in 1..Len(head) : source[head[i]] = a}

(* QuicDispenserFindByCid finds nothing, so a client that has moved is new. *)
QuicNew(a) ==
  /\ created < MaxConns
  /\ created' = created + 1
  /\ live' = live \cup {created + 1}
  /\ head' = Append(head, created + 1)
  /\ source' = [source EXCEPT ![created + 1] = a]
  /\ read_buf' = [read_buf EXCEPT ![created + 1] = Head(socket)]

(* What was not read yet is replaced. *)
QuicDoDispense ==
  /\ running /\ socket # <<>>
  /\ socket' = Tail(socket)
  /\ LET found == QuicDispenserFindByAddr(Head(socket).from)
     IN  IF found = {} THEN QuicNew(Head(socket).from)
         ELSE /\ read_buf' = [read_buf EXCEPT
                   ![head[CHOOSE i \in found : \A j \in found : i <= j]] = Head(socket)]
              /\ UNCHANGED <<created, live, head, source>>
  /\ UNCHANGED <<arrived, running, got>>

(* recvfrom has nothing to give: the error path frees the connection, of which *)
(* there is none.                                                              *)
DispenseFails ==
  /\ running /\ socket = <<>>
  /\ running' = FALSE
  /\ UNCHANGED <<socket, arrived, created, live, head, source, read_buf, got>>

(* Fault: the length of the buffer is not set to zero. *)
FaultReadBytes(c) ==
  /\ running /\ c \in live /\ read_buf[c] # NoVal
  /\ got' = [got EXCEPT ![c] = Append(@, read_buf[c])]
  /\ UNCHANGED <<socket, arrived, created, live, head, source, read_buf, running>>

(* A call on the connection reads what lies in its buffer; an empty one fails *)
(* the call and changes nothing here.                                         *)
QuicDispenserReadBytes(c) ==
  /\ running /\ c \in live /\ read_buf[c] # NoVal
  /\ got' = [got EXCEPT ![c] = Append(@, read_buf[c])]
  /\ read_buf' = [read_buf EXCEPT ![c] = NoVal]
  /\ UNCHANGED <<socket, arrived, created, live, head, source, running>>

(* The application frees a connection it has done with. *)
QuicFree(c) ==
  /\ running /\ c \in live
  /\ live' = live \ {c}
  /\ \E i \in 1..Len(head) :
       head[i] = c /\ head' = SubSeq(head, 1, i - 1) \o SubSeq(head, i + 1, Len(head))
  /\ UNCHANGED <<socket, arrived, created, source, read_buf, running, got>>

Next ==
  \/ \E a \in Addrs : Arrive(a)
  \/ QuicDoDispense \/ DispenseFails
  \/ \E c \in Conns : QuicDispenserReadBytes(c) \/ QuicFree(c)

Spec == Init /\ [][Next]_vars

-----------------------------------------------------------------------------
(* Properties. *)

(* A client has one connection at a time as long as its address stays, so its  *)
(* packets never reach two of them.                                            *)
OneForAddress ==
  \A c, d \in live : source[c] = source[d] => c = d

(* A connection reads datagrams of its own client only, each at most once and  *)
(* in the order of arrival, although an unread one is replaced by the next.    *)
ReadsOwnInOrder ==
  \A c \in Conns :
    /\ \A i \in 1..Len(got[c]) : got[c][i].from = source[c]
    /\ \A i, j \in 1..Len(got[c]) : i < j => got[c][i].n < got[c][j].n
====
