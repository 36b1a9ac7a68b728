------------------------------- MODULE Panel -------------------------------
(***************************************************************************)
(* The GPIO panel of the emulated board (qemu/panel.py): a server that     *)
(* keeps, for every client, what the client drives each pin with, works    *)
(* out the level of each pin, and tells subscribers when one changes.      *)
(*                                                                         *)
(* This module is the server and its connections; PanelClients adds the    *)
(* programs at the other end.  A connection is a pair of streams; closing  *)
(* it is the last thing in the client's stream.  The server handles one    *)
(* command per step, in any order between clients.                         *)
(***************************************************************************)
EXTENDS Naturals, Sequences, FiniteSets

CONSTANTS
  Client,    \* the programs that may connect
  Pin        \* the pins, PIN_COUNT

ASSUME PanelAssumption ==
  Client # {} /\ IsFiniteSet(Client)

VARIABLES
  state,        \* of the server: "up", "stopped" or "crashed"
  fd,           \* descriptor of a client's connection, 0 for none
  pins,         \* what a client drives the pins with
  notify,       \* pins a client wants to be told about
  LastResolve,  \* the levels last worked out
  toServer,     \* commands on their way from a client
  toClient      \* levels on their way to a client

server == <<state, fd, pins, notify, LastResolve>>
panel == <<server, toServer, toClient>>

Drive == {"1", "0", "P", "X"}
AllX == [p \in Pin |-> "X"]

Connected(f) == {c \in Client : f[c] # 0}

-----------------------------------------------------------------------------
(* Arbitration *)

PinArbitration ==
  [a \in Drive |->
     CASE a = "1" -> [b \in Drive |-> IF b = "0" THEN "E" ELSE "1"]
       [] a = "0" -> [b \in Drive |-> IF b = "1" THEN "E" ELSE "0"]
       [] a = "P" -> [b \in Drive |-> IF b = "X" THEN "P" ELSE b]
       [] a = "X" -> [b \in Drive |-> b]]

\* There is no row for the outcome of a contention: a KeyError.
ResolveTwo(a, b) == IF a \in Drive THEN PinArbitration[a][b] ELSE "raise"

\* The clients with descriptors f, in the order of those.
Order(f) ==
  LET cs == Connected(f)
  IN [n \in 1 .. Cardinality(cs) |->
        CHOOSE c \in cs : Cardinality({d \in cs : f[d] <= f[c]}) = n]

\* The level of pin p, from the first client to the last.
ResolvePin(order, ps, p) ==
  LET level[n \in 1 .. Len(order)] ==
        IF n = 1 THEN ps[order[1]][p] ELSE ResolveTwo(level[n - 1], ps[order[n]][p])
  IN IF order = <<>> THEN "X" ELSE level[Len(order)]

Levels(f, ps) ==
  LET order == Order(f) IN [p \in Pin |-> ResolvePin(order, ps, p)]

Raises(out) == \E p \in Pin : out[p] = "raise"

\* Mutant: all are told, whatever they asked for.
Told_anyone(c, f, out) == f[c] # 0 /\ out # LastResolve

\* NotifyAll: who is told of the new levels.
Told(c, f, out) == f[c] # 0 /\ \E p \in notify[c] : out[p] # LastResolve[p]

\* Resolve for clients f found the levels out; the client asked, if any, is
\* answered after that.
Resolve(f, out, asked) ==
  /\ LastResolve' = out
  /\ toClient' = [c \in Client |->
       toClient[c] \o (IF Told(c, f, out) THEN <<out>> ELSE <<>>)
                   \o (IF c \in asked THEN <<out>> ELSE <<>>)]

-----------------------------------------------------------------------------
(* Connections *)

\* handle_accept: the lowest free descriptor, and nothing driven.
Accept(c, commands) ==
  /\ state = "up" /\ fd[c] = 0
  /\ fd' = [fd EXCEPT ![c] =
       CHOOSE n \in 1 .. Cardinality(Client) :
         /\ \A d \in Client : fd[d] # n
         /\ \A k \in 1 .. n - 1 : \E d \in Client : fd[d] = k]
  /\ pins' = [pins EXCEPT ![c] = AllX]
  /\ notify' = [notify EXCEPT ![c] = {}]
  /\ toServer' = [toServer EXCEPT ![c] = commands]
  /\ toClient' = [toClient EXCEPT ![c] = <<>>]
  /\ UNCHANGED <<state, LastResolve>>

\* Everything ends with the server.
Down(how) ==
  /\ state' = how
  /\ fd' = [c \in Client |-> 0]
  /\ toServer' = [c \in Client |-> <<>>]
  /\ UNCHANGED <<pins, notify, LastResolve, toClient>>

\* handle_close of client c, when pins are ps.  An exception in it ends the
\* server: handle_error calls it a second time.
handle_close(c, ps) ==
  LET left == [fd EXCEPT ![c] = 0]
  IN \E out \in {Levels(left, ps)} :
       \/ /\ Raises(out)
          /\ Down("crashed")
       \/ /\ ~Raises(out)
          /\ fd' = left
          /\ toServer' = [toServer EXCEPT ![c] = <<>>]
          /\ pins' = ps
          /\ Resolve(left, out, {})
          /\ UNCHANGED <<state, notify>>

\* The commands of a client.
W(p, v) == [cmd |-> "W", pin |-> p, val |-> v]
N(p) == [cmd |-> "NOTIFY", pin |-> p]
R == [cmd |-> "R"]
Bye == [cmd |-> "close"]

\* Mutant: an exception is not caught.
Resolved_uncaught(c, ps, asked) ==
  \E out \in {Levels(fd, ps)} :
    \/ /\ Raises(out)
       /\ Down("crashed")
    \/ /\ ~Raises(out)
       /\ toServer' = [toServer EXCEPT ![c] = Tail(@)]
       /\ pins' = ps
       /\ Resolve(fd, out, asked)
       /\ UNCHANGED <<state, fd, notify>>

\* A command that works out the levels and answers those asked; an exception
\* closes the channel it came on.
Resolved(c, ps, asked) ==
  \E out \in {Levels(fd, ps)} :
    \/ /\ Raises(out)
       /\ handle_close(c, ps)
    \/ /\ ~Raises(out)
       /\ toServer' = [toServer EXCEPT ![c] = Tail(@)]
       /\ pins' = ps
       /\ Resolve(fd, out, asked)
       /\ UNCHANGED <<state, fd, notify>>

\* found_terminator.
found_terminator(c) ==
  /\ state = "up" /\ toServer[c] # <<>>
  /\ LET m == Head(toServer[c])
     IN \/ m.cmd = "W" /\ Resolved(c, [pins EXCEPT ![c][m.pin] = m.val], {})
        \/ m.cmd = "R" /\ Resolved(c, pins, {c})
        \/ /\ m.cmd = "NOTIFY"
           /\ notify' = [notify EXCEPT ![c] = @ \cup {m.pin}]
           /\ toServer' = [toServer EXCEPT ![c] = Tail(@)]
           /\ UNCHANGED <<state, fd, pins, LastResolve, toClient>>
        \/ m.cmd = "close" /\ handle_close(c, pins)

\* The user stops the server.
Stop == state = "up" /\ Down("stopped")

\* A client sends, on a connection that is still open.
Send(c, commands) ==
  /\ toServer' = [toServer EXCEPT ![c] = @ \o commands]
  /\ UNCHANGED <<server, toClient>>

\* It takes what it has been sent.
Taken(c) ==
  /\ toClient[c] # <<>>
  /\ toClient' = [toClient EXCEPT ![c] = Tail(@)]
  /\ UNCHANGED <<server, toServer>>

PanelInit ==
  /\ state = "up"
  /\ fd = [c \in Client |-> 0]
  /\ pins = [c \in Client |-> AllX]
  /\ notify = [c \in Client |-> {}]
  /\ LastResolve = AllX
  /\ toServer = [c \in Client |-> <<>>]
  /\ toClient = [c \in Client |-> <<>>]

=============================================================================
