---------------------------- MODULE PacketStream ----------------------------
(***************************************************************************)
(* What a connection promises its client: the packets he sends are handled *)
(* once each and in the order they were sent, their payload as it was sent,*)
(* and none is passed over unless a line end was sent before it.           *)
(***************************************************************************)
EXTENDS Naturals, Sequences

CONSTANTS Clients, Packets

VARIABLES
    queue,   \* per client, the packets sent and not yet handled
    log      \* per client, the packets handled

vars == <<queue, log>>

Init == queue = [c \in Clients |-> <<>>] /\ log = [c \in Clients |-> <<>>]

Send(c, p) ==
    /\ queue' = [queue EXCEPT ![c] = Append(@, p)]
    /\ UNCHANGED log

\* The k-th packet of the queue is handled, and those before it never will be.
Handle(c, k) ==
    /\ queue[c][k].header = "ok"
    /\ k > 1 => log[c] # <<>> /\ log[c][Len(log[c])].line
    /\ log' = [log EXCEPT ![c] = Append(@, queue[c][k])]
    /\ queue' = [queue EXCEPT ![c] = SubSeq(@, k + 1, Len(@))]

\* The connection ends, or the bytes of another have got among its own: what it had not got
\* through is gone.
Close(c) ==
    /\ queue' = [queue EXCEPT ![c] = <<>>]
    /\ log' = [log EXCEPT ![c] = <<>>]

Next ==
    \E c \in Clients :
       \/ \E p \in Packets : Send(c, p)
       \/ \E k \in DOMAIN queue[c] : Handle(c, k)
       \/ Close(c)

Spec == Init /\ [][Next]_vars
=============================================================================
