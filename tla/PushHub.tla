------------------------------ MODULE PushHub ------------------------------
(***************************************************************************)
(* The WebSocket hub of one server process: the handshake with its         *)
(* reserved slots, the hub's event loop, the two pumps of a connection and *)
(* the pushes that meet them.  Which device tokens open a connection is    *)
(* the subject of Devices; here a handshake is authenticated for any user. *)
(***************************************************************************)
EXTENDS Integers, FiniteSets

CONSTANTS
  Users,
  Conns,                  \* WebSocket connections
  MaxConnections,         \* Options.MaxConnections, 0 for no cap
  MaxConnectionsPerUser,  \* Options.MaxConnectionsPerUser, 0 for no cap
  Buffer,                 \* capacity of a client's send channel (64)
  MaxDrops                \* bound: goroutines at once that unregister a slow client

ASSUME ConstantsAssumption ==
  /\ MaxConnections \in Nat /\ MaxConnectionsPerUser \in Nat
  /\ Buffer \in Nat \ {0} /\ MaxDrops \in Nat \ {0}
  /\ IsFiniteSet(Conns) /\ Users # {}

VARIABLES
  stage,         \* how far a connection has come
  of,            \* the user its device token belongs to
  clients,       \* Hub.clients
  pending,       \* Hub.pending, reserved slots by user
  pendingGlobal, \* Hub.pendingGlobal
  loop,          \* the message Hub.Run has received and not yet handled
  open,          \* connections whose socket neither end has closed
  pump,          \* the pumps of a connection that are running
  leaving,       \* connections whose readPump waits to unregister them
  drops,         \* goroutines waiting to unregister a slow client
  queued,        \* messages in the client's send channel
  closed,        \* connections whose send channel is closed
  behind,        \* history: connections that missed a push
  panicked       \* a send on, or a close of, a closed channel

slots == <<pending, pendingGlobal>>
sockets == <<open, pump, leaving>>
channels == <<drops, queued, closed, behind, panicked>>
vars == <<stage, of, clients, slots, loop, sockets, channels>>

Idle == [op |-> "idle"]

TypeOK ==
  /\ stage \in [Conns -> {"free", "reserve", "upgrade", "register", "start", "up"}]
  /\ of \in [Conns -> Users]
  /\ clients \subseteq Conns
  /\ pending \in [Users -> Nat]
  /\ pendingGlobal \in Nat
  /\ loop \in {Idle} \cup [op : {"register", "unregister"}, c : Conns]
  /\ open \subseteq Conns
  /\ pump \subseteq Conns \X {"read", "write"}
  /\ leaving \subseteq Conns
  /\ drops \in [Conns -> 0..MaxDrops]
  /\ queued \in [Conns -> 0..Buffer]
  /\ closed \subseteq Conns
  /\ behind \subseteq Conns
  /\ panicked \in BOOLEAN

Init ==
  /\ stage = [c \in Conns |-> "free"]
  /\ of = [c \in Conns |-> CHOOSE u \in Users : TRUE]
  /\ clients = {}
  /\ pending = [u \in Users |-> 0]
  /\ pendingGlobal = 0
  /\ loop = Idle
  /\ open = {} /\ pump = {} /\ leaving = {}
  /\ drops = [c \in Conns |-> 0]
  /\ queued = [c \in Conns |-> 0]
  /\ closed = {} /\ behind = {} /\ panicked = FALSE

UserClients(u) == {c \in clients : of[c] = u}

-----------------------------------------------------------------------------
(***************************************************************************)
(* The handshake, ServeHTTP                                                *)
(***************************************************************************)
Authenticate(c, u) ==
  /\ stage[c] = "free"
  /\ stage' = [stage EXCEPT ![c] = "reserve"]
  /\ of' = [of EXCEPT ![c] = u]
  /\ UNCHANGED <<clients, slots, loop, sockets, channels>>

SlotFree(u) ==
  /\ MaxConnections = 0 \/ Cardinality(clients) + pendingGlobal < MaxConnections
  /\ MaxConnectionsPerUser = 0
       \/ Cardinality(UserClients(u)) + pending[u] < MaxConnectionsPerUser

reserveSlot(c) ==
  /\ stage[c] = "reserve"
  /\ \/ /\ SlotFree(of[c])
        /\ pendingGlobal' = pendingGlobal + 1
        /\ pending' = [pending EXCEPT ![of[c]] = @ + 1]
        /\ stage' = [stage EXCEPT ![c] = "upgrade"]
     \/ /\ ~SlotFree(of[c])
        /\ stage' = [stage EXCEPT ![c] = "free"]
        /\ UNCHANGED slots
  /\ UNCHANGED <<of, clients, loop, sockets, channels>>

\* Mutant: the count of the user is kept as long as it is one.
releaseGlobalOnly(u) ==
  /\ pendingGlobal' = IF pendingGlobal > 0 THEN pendingGlobal - 1 ELSE pendingGlobal
  /\ pending' = [pending EXCEPT ![u] = IF @ <= 1 THEN @ ELSE @ - 1]

releaseReservedLocked(u) ==
  /\ pendingGlobal' = IF pendingGlobal > 0 THEN pendingGlobal - 1 ELSE pendingGlobal
  /\ pending' = [pending EXCEPT ![u] = IF @ <= 1 THEN 0 ELSE @ - 1]

Upgrade(c) ==
  /\ stage[c] = "upgrade"
  /\ \/ /\ open' = open \cup {c}
        /\ stage' = [stage EXCEPT ![c] = "register"]
        /\ UNCHANGED slots
     \/ /\ releaseReservedLocked(of[c])
        /\ stage' = [stage EXCEPT ![c] = "free"]
        /\ UNCHANGED open
  /\ UNCHANGED <<of, clients, loop, pump, leaving, channels>>

\* registerClient starts the pumps once Run has received the client, which is
\* before Run has added it.
StartPumps(c) ==
  /\ stage[c] = "start"
  /\ stage' = [stage EXCEPT ![c] = "up"]
  /\ pump' = pump \cup {<<c, "read">>, <<c, "write">>}
  /\ UNCHANGED <<of, clients, slots, loop, open, leaving, channels>>

-----------------------------------------------------------------------------
(***************************************************************************)
(* Hub.Run: one goroutine, the only writer of clients                      *)
(***************************************************************************)
ReceiveRegister(c) ==
  /\ loop = Idle /\ stage[c] = "register"
  /\ loop' = [op |-> "register", c |-> c]
  /\ stage' = [stage EXCEPT ![c] = "start"]
  /\ UNCHANGED <<of, clients, slots, sockets, channels>>

Register ==
  /\ loop.op = "register"
  /\ releaseReservedLocked(of[loop.c])
  /\ clients' = clients \cup {loop.c}
  /\ loop' = Idle
  /\ UNCHANGED <<stage, of, sockets, channels>>

\* A readPump that is let go closes its connection.
ReceiveUnregister(c) ==
  /\ loop = Idle
  /\ loop' = [op |-> "unregister", c |-> c]
  /\ \/ /\ c \in leaving
        /\ leaving' = leaving \ {c}
        /\ open' = open \ {c}
        /\ UNCHANGED drops
     \/ /\ drops[c] > 0
        /\ drops' = [drops EXCEPT ![c] = @ - 1]
        /\ UNCHANGED <<leaving, open>>
  /\ UNCHANGED <<stage, of, clients, slots, pump, queued, closed, behind, panicked>>

CloseSend(c) ==
  /\ closed' = closed \cup {c}
  /\ panicked' = (panicked \/ c \in closed)

\* Mutant: no test whether the client is still registered.
UnregisterAny ==
  /\ loop.op = "unregister"
  /\ clients' = clients \ {loop.c}
  /\ CloseSend(loop.c)
  /\ loop' = Idle
  /\ UNCHANGED <<stage, of, slots, sockets, drops, queued, behind>>

Unregister ==
  /\ loop.op = "unregister"
  /\ clients' = clients \ {loop.c}
  /\ IF loop.c \in clients THEN CloseSend(loop.c) ELSE UNCHANGED <<closed, panicked>>
  /\ loop' = Idle
  /\ UNCHANGED <<stage, of, slots, sockets, drops, queued, behind>>

\* A message to the clients in S, under the read lock: no client comes or goes.
\* A client whose channel is full is unregistered by a goroutine of its own.
Send(S) ==
  LET full == {c \in S : queued[c] = Buffer}
  IN /\ \A c \in full : drops[c] < MaxDrops
     /\ queued' = [c \in Conns |-> IF c \in S \ full THEN queued[c] + 1 ELSE queued[c]]
     /\ drops' = [c \in Conns |-> IF c \in full THEN drops[c] + 1 ELSE drops[c]]
     /\ behind' = behind \cup full
     /\ panicked' = (panicked \/ S \cap closed # {})
     /\ UNCHANGED closed

\* By UploadBundle, UploadSnapshot and RevokeDevice, once they have committed.
PushToUser(u) ==
  /\ Send(UserClients(u))
  /\ UNCHANGED <<stage, of, clients, slots, loop, sockets>>

-----------------------------------------------------------------------------
(***************************************************************************)
(* The pumps                                                               *)
(***************************************************************************)
\* The peer closes, the network fails, or no pong arrives in time.
PeerGone(c) ==
  /\ c \in open
  /\ open' = open \ {c}
  /\ UNCHANGED <<stage, of, clients, slots, loop, pump, leaving, channels>>

readPump(c) ==
  /\ <<c, "read">> \in pump /\ c \notin open
  /\ pump' = pump \ {<<c, "read">>}
  /\ leaving' = leaving \cup {c}
  /\ UNCHANGED <<stage, of, clients, slots, loop, open, channels>>

EndWrite(c) == pump' = pump \ {<<c, "write">>} /\ open' = open \ {c}

\* Mutant: the pump returns without closing the connection.
LeaveOpen(c) ==
  /\ c \in closed /\ queued[c] = 0
  /\ pump' = pump \ {<<c, "write">>}
  /\ UNCHANGED <<open, queued>>

\* The channel is drained before its end is seen.
SeeClosed(c) ==
  /\ c \in closed /\ queued[c] = 0
  /\ EndWrite(c)
  /\ UNCHANGED queued

WriteMessage(c) ==
  /\ queued[c] > 0
  /\ queued' = [queued EXCEPT ![c] = @ - 1]
  /\ EndWrite(c) \/ UNCHANGED <<pump, open>>

\* A ping is written now and then; it fails once the connection is gone.
Ping(c) ==
  /\ c \notin open
  /\ EndWrite(c)
  /\ UNCHANGED queued

writePump(c) ==
  /\ <<c, "write">> \in pump
  /\ WriteMessage(c) \/ SeeClosed(c) \/ Ping(c)
  /\ UNCHANGED <<stage, of, clients, slots, loop, leaving, drops,
                 closed, behind, panicked>>

\* Nothing refers to the connection any more: its name may stand for another.
TornDown(c) ==
  /\ stage[c] = "up" /\ c \notin clients /\ c \notin leaving /\ drops[c] = 0
  /\ \A side \in {"read", "write"} : <<c, side>> \notin pump
  /\ \A op \in {"register", "unregister"} : loop # [op |-> op, c |-> c]

Collect(c) ==
  /\ TornDown(c)
  /\ stage' = [stage EXCEPT ![c] = "free"]
  /\ queued' = [queued EXCEPT ![c] = 0]
  /\ closed' = closed \ {c}
  /\ behind' = behind \ {c}
  /\ of' = [of EXCEPT ![c] = CHOOSE u \in Users : TRUE]
  /\ UNCHANGED <<clients, slots, loop, sockets, drops, panicked>>

-----------------------------------------------------------------------------
Next ==
  \/ \E u \in Users : PushToUser(u)
  \/ \E c \in Conns, u \in Users : Authenticate(c, u)
  \/ \E c \in Conns :
       \/ reserveSlot(c) \/ Upgrade(c) \/ StartPumps(c)
       \/ ReceiveRegister(c) \/ ReceiveUnregister(c)
       \/ PeerGone(c) \/ readPump(c) \/ writePump(c) \/ Collect(c)
  \/ Register \/ Unregister

Spec == Init /\ [][Next]_vars

\* Goroutines run.  Senders on a channel are served in order, and select takes
\* each ready case now and then.
Fairness ==
  /\ WF_vars(Register \/ Unregister)
  /\ \A c \in Conns :
       /\ WF_vars(StartPumps(c)) /\ WF_vars(readPump(c)) /\ WF_vars(writePump(c))
       /\ WF_vars(Collect(c))
       /\ SF_vars(ReceiveRegister(c)) /\ SF_vars(ReceiveUnregister(c))

FairSpec == Spec /\ Fairness

-----------------------------------------------------------------------------
(***************************************************************************)
(* Properties                                                              *)
(***************************************************************************)

\* Handshakes that hold a reserved slot.
Holding ==
  {c \in Conns : stage[c] \in {"upgrade", "register"} \/ loop = [op |-> "register", c |-> c]}

\* Slots are neither lost nor handed out twice: the two pending counters are the
\* handshakes that hold one, whichever way handshakes end, and with the registered
\* clients they stay within the caps of the process and of the user.
SlotsAccounted ==
  /\ pendingGlobal = Cardinality(Holding)
  /\ \A u \in Users : pending[u] = Cardinality({c \in Holding : of[c] = u})
  /\ MaxConnections > 0 => Cardinality(clients) + pendingGlobal <= MaxConnections
  /\ MaxConnectionsPerUser > 0 =>
       \A u \in Users : Cardinality(UserClients(u)) + pending[u] <= MaxConnectionsPerUser

\* A client is unregistered by its readPump and by any number of pushes that find
\* it slow, in any order; its channel is closed once and no push writes to it
\* afterwards.  Either would panic and end the process.
NeverPanics == ~panicked

\* A client that misses a push does not stay connected as if nothing had been
\* missed: it is disconnected, and everything it held is given back.  So is a
\* client whose connection broke.
SlowClientLeaves ==
  \A c \in Conns :
    (c \in behind \/ (stage[c] = "up" /\ c \notin open)) ~> (stage[c] = "free")

=============================================================================
