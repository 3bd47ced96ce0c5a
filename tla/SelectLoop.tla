----------------------------- MODULE SelectLoop -----------------------------
(***************************************************************************)
(* The loop of start_listening as the network and the keepalive threads    *)
(* see it: select copies the readable descriptors, the loop serves them one*)
(* after the other, a recv yields as much of the client's stream as has    *)
(* arrived, and parse_packet of packet_validator.c cuts it into packets.   *)
(* A thread may begin to disconnect a client between any two of these      *)
(* steps, and takes several itself: it frees the buffers long before it    *)
(* unregisters the player and closes the descriptor, and meanwhile the loop*)
(* goes on reading from it.                                                *)
(*                                                                         *)
(* Every descriptor is below the limit and dc_players has room: ChessServer*)
(* has the others, and what the handlers do.  Where two disconnect one     *)
(* client, or a struct is disconnected that a return has replaced, the     *)
(* execution is followed no further: DisconnectRace has what comes of it.  *)
(***************************************************************************)
EXTENDS Integers, Sequences, SequencesExt, FiniteSetsExt

CONSTANTS
    Fds,          \* the descriptors that accept may return
    Packets,      \* what a client may send
    HeaderSize,   \* bound: PACKET_HEADER_SIZE, which is 10
    MaxInval,     \* args->max_inval_pc
    MaxSends,     \* bound: packets sent
    MaxConns      \* bound: connections

Listener == 3

\* A packet has its header right or wrong, a payload of len bytes, perhaps a line end after
\* it, and a handler that takes it well or not; a HELLO may bring a player back.
ASSUME LoopAssumption ==
    /\ Fds \subseteq Nat /\ \A f \in Fds : f > Listener
    /\ HeaderSize \in Nat \ {0} /\ MaxInval \in Nat \ {0} /\ MaxSends \in Nat /\ MaxConns \in Nat
    /\ \A p \in Packets :
          /\ p.header \in {"ok", "bad"} /\ p.rval \in {"ok", "return", "wrong"}
          /\ p.len \in Nat /\ p.line \in BOOLEAN

NoPlayer == 0    \* the NULL that player begins with
Gone     == -1   \* a struct whose descriptor is -1
Current  == -1   \* no return has replaced the struct

VARIABLES
    socket,    \* per descriptor: "free", "open", or "hungup" once the client has closed his end
    sent,      \* per connection: the packets sent
    wire,      \* per connection: the bytes the server has not read
    leaving,   \* per descriptor, how far a thread is with its disconnect: "no", "freed" once the
               \* buffers are, "unregistered", "away" once the struct has no descriptor any more
    handled,   \* per connection: the packets handed to handle_packet
    backlog,   \* connections that wait for accept
    arrived, sends,   \* the connections and the packets there have been
    tests, player, p_ptr,   \* the variables of start_listening
    replaced,  \* Current, or the invalid_sends of the player's struct if another is registered
    a2read,    \* whether a2read is above 0
    pc,        \* "loop" between two descriptors, "copied" before select and "select" in it, "parse"
               \* at HANDLE_PACKET, or no more: "ended", "segv", "contested"
    pheader, pdata,        \* buffered_pheaders and buffered_pdata
    mixed,                 \* the descriptors whose buffers may hold the bytes of two clients
    invalid_sends          \* per connection: that of its player

clientVars == <<socket, sent, wire>>
arriving   == <<backlog, arrived, sends>>
buffers    == <<pheader, pdata, mixed, invalid_sends, handled>>
held       == <<player, replaced>>
vars == <<clientVars, leaving, arriving, buffers, tests, held, a2read, p_ptr, pc>>

Init ==
    /\ socket = [f \in Fds |-> "free"]
    /\ sent = [f \in Fds |-> <<>>] /\ wire = [f \in Fds |-> <<>>] /\ handled = [f \in Fds |-> <<>>]
    /\ backlog = 0 /\ arrived = 0 /\ sends = 0
    /\ leaving = [f \in Fds |-> "no"]
    /\ tests = {} /\ player = NoPlayer /\ replaced = Current
    /\ a2read = FALSE /\ p_ptr = <<>> /\ pc = "loop"
    /\ pheader = [f \in Fds |-> <<>>] /\ pdata = [f \in Fds |-> <<>>] /\ mixed = {}
    /\ invalid_sends = [f \in Fds |-> 0]

---------------------------------------------------------------------------
\* The clients.

\* The i-th byte of the n-th packet of a connection, and the line end.
Byte(n, i) == [n |-> n, i |-> i]
LineEnd    == Byte(0, 0)

HeaderBytes(n)     == [i \in 1 .. HeaderSize |-> Byte(n, i)]
PayloadBytes(n, p) == [i \in 1 .. p.len |-> Byte(n, HeaderSize + i)]
Frame(n, p) == HeaderBytes(n) \o PayloadBytes(n, p) \o (IF p.line THEN <<LineEnd>> ELSE <<>>)

\* Once the program has ended nothing is followed any more.
Runs == pc \notin {"ended", "segv", "contested"}

connect ==
    /\ Runs /\ arrived < MaxConns
    /\ Cardinality({f \in Fds : socket[f] # "free"}) + backlog < Cardinality(Fds)
    /\ backlog' = backlog + 1 /\ arrived' = arrived + 1
    /\ UNCHANGED <<clientVars, leaving, sends, buffers, tests, held, a2read, p_ptr, pc>>

send(f, p) ==
    /\ Runs /\ socket[f] = "open" /\ sends < MaxSends
    /\ sends' = sends + 1
    /\ sent' = [sent EXCEPT ![f] = Append(@, p)]
    /\ wire' = [wire EXCEPT ![f] = @ \o Frame(Len(sent[f]) + 1, p)]
    /\ UNCHANGED <<socket, leaving, backlog, arrived, buffers, tests, held, a2read, p_ptr, pc>>

hang_up(f) ==
    /\ Runs /\ socket[f] = "open"
    /\ socket' = [socket EXCEPT ![f] = "hungup"]
    /\ UNCHANGED <<sent, wire, leaving, arriving, buffers, tests, held, a2read, p_ptr, pc>>

---------------------------------------------------------------------------
\* Mutant: the buffers of the descriptor are not freed.
MutDisconnect(f, current) ==
    /\ socket' = [socket EXCEPT ![f] = "free"]
    /\ sent' = [sent EXCEPT ![f] = <<>>] /\ wire' = [wire EXCEPT ![f] = <<>>]
    /\ handled' = [handled EXCEPT ![f] = <<>>] /\ mixed' = mixed \ {f}
    /\ invalid_sends' = [invalid_sends EXCEPT ![f] = 0]
    /\ player' = (IF current = f THEN Gone ELSE current)
    /\ UNCHANGED <<pheader, pdata>>

\* disconnect by the loop, which nothing of its own comes between: the buffers are freed, the
\* struct loses its descriptor, the socket is closed.
disconnect(f, current) ==
    /\ socket' = [socket EXCEPT ![f] = "free"]
    /\ sent' = [sent EXCEPT ![f] = <<>>] /\ wire' = [wire EXCEPT ![f] = <<>>]
    /\ handled' = [handled EXCEPT ![f] = <<>>]
    /\ pheader' = [pheader EXCEPT ![f] = <<>>] /\ pdata' = [pdata EXCEPT ![f] = <<>>]
    /\ mixed' = mixed \ {f}
    /\ invalid_sends' = [invalid_sends EXCEPT ![f] = 0]
    /\ player' = (IF current = f THEN Gone ELSE current)

---------------------------------------------------------------------------
\* disconnect by a keepalive thread that has waited too long for the client, in four steps.

UnderWay(f) == pc = "parse" /\ player = f

\* FD_CLR and free_buffers.  Text of another client may still be on its way into the buffers.
keepalive_timeout(f) ==
    /\ Runs /\ socket[f] # "free" /\ leaving[f] = "no"
    /\ leaving' = [leaving EXCEPT ![f] = "freed"]
    /\ pheader' = [pheader EXCEPT ![f] = <<>>] /\ pdata' = [pdata EXCEPT ![f] = <<>>]
    /\ mixed' = (IF UnderWay(f) THEN mixed ELSE mixed \ {f})
    /\ UNCHANGED <<clientVars, arriving, invalid_sends, handled, tests, held, a2read, p_ptr, pc>>

\* pman_handle_dc takes the player off the registry, ...
unregister(f) ==
    /\ Runs /\ leaving[f] = "freed"
    /\ leaving' = [leaving EXCEPT ![f] = "unregistered"]
    /\ UNCHANGED <<clientVars, arriving, buffers, tests, held, a2read, p_ptr, pc>>

\* ... and his descriptor off the struct.
store(f) ==
    /\ Runs /\ leaving[f] = "unregistered"
    /\ leaving' = [leaving EXCEPT ![f] = "away"]
    /\ player' = (IF player = f /\ replaced = Current THEN Gone ELSE player)
    /\ UNCHANGED <<clientVars, arriving, buffers, tests, replaced, a2read, p_ptr, pc>>

\* shutdown and close.  What the loop has put into the buffers since they were freed stays
\* there for the next client of the descriptor, as does the text it still works on.
close_socket(f) ==
    /\ Runs /\ leaving[f] = "away"
    /\ leaving' = [leaving EXCEPT ![f] = "no"]
    /\ socket' = [socket EXCEPT ![f] = "free"]
    /\ sent' = [sent EXCEPT ![f] = <<>>] /\ wire' = [wire EXCEPT ![f] = <<>>]
    /\ handled' = [handled EXCEPT ![f] = <<>>] /\ invalid_sends' = [invalid_sends EXCEPT ![f] = 0]
    /\ mixed' = (IF UnderWay(f) \/ pheader[f] # <<>> THEN mixed \cup {f} ELSE mixed)
    /\ UNCHANGED <<arriving, pheader, pdata, tests, held, a2read, p_ptr, pc>>

leave(f) == unregister(f) \/ store(f) \/ close_socket(f)

---------------------------------------------------------------------------
\* start_listening.

\* client_socks: the clients accepted, but for those whose disconnect has begun.
client_socks == {Listener} \cup {f \in Fds : socket[f] # "free" /\ leaving[f] = "no"}

copy ==
    /\ pc = "loop" /\ tests = {}
    /\ tests' = client_socks /\ pc' = "copied"
    /\ UNCHANGED <<clientVars, leaving, arriving, buffers, held, a2read, p_ptr>>

Closed == {f \in Fds : socket[f] = "free"}

\* select fails if a descriptor of the copy has been closed, and the program ends, ...
select ==
    /\ pc = "copied"
    /\ pc' = (IF tests \cap Closed # {} THEN "ended" ELSE "select")
    /\ UNCHANGED <<clientVars, leaving, arriving, buffers, tests, held, a2read, p_ptr>>

\* A descriptor that is closed while select waits for it has been shut down before.
Readable ==
    Closed \cup {f \in Fds : socket[f] = "hungup" \/ wire[f] # <<>>}
           \cup (IF backlog > 0 THEN {Listener} ELSE {})

\* ... or it waits.
select_returns ==
    /\ pc = "select" /\ Readable \cap tests # {}
    /\ tests' = Readable \cap tests /\ pc' = "loop"
    /\ UNCHANGED <<clientVars, leaving, arriving, buffers, held, a2read, p_ptr>>

\* The loop comes to the descriptor f, the lowest of those left.
Turn(f) == pc = "loop" /\ f \in tests /\ f = Min(tests)

\* handle_new_client: the kernel returns the lowest free descriptor.
handle_new_client ==
    /\ Turn(Listener)
    /\ socket' = [socket EXCEPT ![Min(Closed)] = "open"]
    /\ backlog' = backlog - 1
    /\ tests' = tests \ {Listener}
    /\ UNCHANGED <<sent, wire, leaving, arrived, sends, buffers, held, a2read, p_ptr, pc>>

\* lookup_player_by_fd leaves player alone when it finds nobody.
Registered(f) == socket[f] # "free" /\ leaving[f] \in {"no", "freed"}
Looked(f) == IF Registered(f) THEN f ELSE player
StillReplaced(f) == IF Registered(f) THEN Current ELSE replaced

\* ioctl leaves a2read alone when the descriptor is closed.
HasData(f) == IF socket[f] = "free" THEN a2read ELSE wire[f] # <<>>

no_player(f) ==
    /\ Turn(f) /\ Looked(f) = NoPlayer
    /\ tests' = tests \ {f}
    /\ UNCHANGED <<clientVars, leaving, arriving, buffers, held, a2read, p_ptr, pc>>

\* Nobody else disconnects the client, and the struct is the one registered.
Alone(c, struct) == leaving[c] = "no" /\ struct = Current

\* Nothing to read: the client is taken to have gone.
client_gone(f) ==
    LET c == Looked(f)
    IN  /\ Turn(f) /\ c # NoPlayer /\ ~HasData(f)
        /\ a2read' = FALSE
        /\ tests' = tests \ {f}
        /\ \/ c = Gone /\ UNCHANGED <<clientVars, buffers, held, pc>>
           \/ /\ c # Gone /\ Alone(c, StillReplaced(f))
              /\ disconnect(c, c)
              /\ replaced' = StillReplaced(f) /\ UNCHANGED pc
           \/ /\ c # Gone /\ ~Alone(c, StillReplaced(f))
              /\ player' = c /\ replaced' = StillReplaced(f) /\ pc' = "contested"
              /\ UNCHANGED <<clientVars, buffers>>
        /\ UNCHANGED <<leaving, arriving, p_ptr>>

\* What recv has read, up to the first line end.
UpToLineEnd(text) ==
    LET ends == {i \in DOMAIN text : text[i] = LineEnd}
    IN  IF ends = {} THEN text ELSE SubSeq(text, 1, Min(ends) - 1)

\* From a closed descriptor nothing is read.  What is read from one whose player is not found
\* any more goes to the player the loop has served before.
recv(f) ==
    /\ Turn(f) /\ Looked(f) # NoPlayer /\ HasData(f)
    /\ \/ socket[f] = "free" /\ p_ptr' = <<>> /\ UNCHANGED <<wire, mixed>>
       \/ \E n \in 1 .. Len(wire[f]) :
            /\ p_ptr' = UpToLineEnd(SubSeq(wire[f], 1, n))
            /\ wire' = [wire EXCEPT ![f] = SubSeq(@, n + 1, Len(@))]
            /\ mixed' = mixed \cup ({Looked(f)} \cap (Fds \ {f}))
    /\ a2read' = TRUE
    /\ player' = Looked(f) /\ replaced' = StillReplaced(f)
    /\ pc' = "parse" /\ tests' = tests \ {f}
    /\ UNCHANGED <<socket, sent, leaving, arriving, pheader, pdata, invalid_sends, handled>>

---------------------------------------------------------------------------
\* HANDLE_PACKET.  c is the player, h and d what is left in his buffers, log the packets
\* handled, invalid what his struct has to count, and rest what is left of the text.

Sends(c) == IF replaced = Current THEN invalid_sends[c] ELSE replaced

Counted(c, invalid) ==
    IF replaced = Current THEN invalid_sends' = [invalid_sends EXCEPT ![c] = invalid] /\ UNCHANGED replaced
    ELSE replaced' = invalid /\ UNCHANGED invalid_sends

\* Mutant: what is left of the text is not handled.
MutGoOn(c, h, d, log, invalid, rest) ==
    /\ pheader' = [pheader EXCEPT ![c] = h] /\ pdata' = [pdata EXCEPT ![c] = d]
    /\ handled' = [handled EXCEPT ![c] = log]
    /\ Counted(c, invalid)
    /\ p_ptr' = <<>> /\ pc' = "loop"
    /\ UNCHANGED <<clientVars, mixed, player>>

go_on(c, h, d, log, invalid, rest) ==
    /\ pheader' = [pheader EXCEPT ![c] = h] /\ pdata' = [pdata EXCEPT ![c] = d]
    /\ handled' = [handled EXCEPT ![c] = log]
    /\ Counted(c, invalid)
    /\ p_ptr' = rest
    /\ pc' = (IF rest = <<>> THEN "loop" ELSE "parse")
    /\ UNCHANGED <<clientVars, mixed, player>>

contested == pc' = "contested" /\ UNCHANGED <<clientVars, buffers, held, p_ptr>>

goto_dc(c) ==
    \/ /\ Alone(c, replaced)
       /\ disconnect(c, c) /\ p_ptr' = <<>> /\ pc' = "loop" /\ UNCHANGED replaced
    \/ ~Alone(c, replaced) /\ contested

MutInvData(c, h, d, log, rest) ==   \* mutant: one invalid packet too many
    \/ Sends(c) + 1 > MaxInval /\ goto_dc(c)
    \/ Sends(c) + 1 <= MaxInval /\ go_on(c, h, d, log, Sends(c) + 1, rest)

inv_data(c, h, d, log, rest) ==
    \/ Sends(c) + 1 >= MaxInval /\ goto_dc(c)
    \/ Sends(c) + 1 < MaxInval /\ go_on(c, h, d, log, Sends(c) + 1, rest)

\* lookup_dc_player registers another struct, whose invalid_sends are 0; the loop keeps its own.
\* What comes of it during a disconnect is in DisconnectRace.
return(c, h, d, log, rest) ==
    \/ /\ socket[c] # "free" /\ leaving[c] = "no"
       /\ pheader' = [pheader EXCEPT ![c] = h] /\ pdata' = [pdata EXCEPT ![c] = d]
       /\ handled' = [handled EXCEPT ![c] = log]
       /\ invalid_sends' = [invalid_sends EXCEPT ![c] = 0] /\ replaced' = Sends(c)
       /\ p_ptr' = rest
       /\ pc' = (IF rest = <<>> THEN "loop" ELSE "parse")
       /\ UNCHANGED <<clientVars, mixed, player>>
    \/ (socket[c] = "free" \/ leaving[c] # "no") /\ contested

MutTake(buffer, text, size) ==   \* mutant: what does not fit is dropped with what does
    [buffer |-> buffer \o SubSeq(text, 1, Min({size - Len(buffer), Len(text)})), text |-> <<>>]

\* strncat of what is missing in the buffer, and the text after it.
Take(buffer, text, size) ==
    LET n == Min({size - Len(buffer), Len(text)})
    IN  [buffer |-> buffer \o SubSeq(text, 1, n), text |-> SubSeq(text, n + 1, Len(text))]

MutValidateHeader(c, h) == {n \in DOMAIN sent[c] : h = HeaderBytes(n)}   \* mutant

\* The packet whose header this is: bytes of two packets never make a header.
validate_header(c, h) == {n \in DOMAIN sent[c] : sent[c][n].header = "ok" /\ h = HeaderBytes(n)}

\* PACKET_RESP_ERR_INVALID_DATA is counted, a value the switch does not know disconnects.
handle_packet(c, n, d, rest) ==
    LET log == Append(handled[c], [n |-> n, data |-> d])
    IN  \/ sent[c][n].rval = "ok" /\ go_on(c, <<>>, <<>>, log, Sends(c), rest)
        \/ sent[c][n].rval = "wrong" /\ (inv_data(c, <<>>, <<>>, log, rest) \/ goto_dc(c))
        \/ sent[c][n].rval = "return" /\ return(c, <<>>, <<>>, log, rest)

\* A header that is wrong stays in its buffer.
parse_packet(c) ==
    LET h == Take(pheader[c], p_ptr, HeaderSize)
        found == validate_header(c, h.buffer)
    IN  \/ /\ Len(h.buffer) < HeaderSize
           /\ go_on(c, h.buffer, pdata[c], handled[c], Sends(c), <<>>)
        \/ /\ Len(h.buffer) = HeaderSize /\ found = {}
           /\ inv_data(c, h.buffer, pdata[c], handled[c], h.text)
        \/ \E n \in found :
             LET d == Take(pdata[c], h.text, sent[c][n].len)
             IN  \/ /\ Len(d.buffer) < sent[c][n].len
                    /\ go_on(c, h.buffer, d.buffer, handled[c], Sends(c), <<>>)
                 \/ /\ Len(d.buffer) = sent[c][n].len
                    /\ handle_packet(c, n, d.buffer, d.text)

\* The bytes of two clients may make any packet, or none: what the buffers hold, and what is
\* handled, is not followed.
parse_mixed(c) ==
    \E n \in 0 .. Len(p_ptr) :
       LET rest == SubSeq(p_ptr, n + 1, Len(p_ptr))
       IN  \/ (n > 0 \/ rest = <<>>) /\ go_on(c, pheader[c], pdata[c], handled[c], Sends(c), rest)
           \/ inv_data(c, pheader[c], pdata[c], handled[c], rest)
           \/ n > 0 /\ return(c, pheader[c], pdata[c], handled[c], rest)
           \/ goto_dc(c)

parse ==
    /\ pc = "parse" /\ player \in Fds
    /\ \/ player \notin mixed /\ parse_packet(player)
       \/ player \in mixed /\ parse_mixed(player)
    /\ UNCHANGED <<leaving, arriving, tests, a2read>>

\* The buffers at the index -1: what lies there is the size malloc has noted.
parse_gone ==
    /\ pc = "parse" /\ player = Gone
    /\ pc' = "segv"
    /\ UNCHANGED <<clientVars, leaving, arriving, buffers, tests, held, a2read, p_ptr>>

Loop ==
    \/ copy \/ select \/ select_returns \/ handle_new_client
    \/ \E f \in Fds : no_player(f) \/ client_gone(f) \/ recv(f)
    \/ parse \/ parse_gone

Next ==
    \/ connect
    \/ \E f \in Fds : hang_up(f) \/ keepalive_timeout(f) \/ leave(f) \/ \E p \in Packets : send(f, p)
    \/ Loop

\* The main thread runs on, and a thread that has begun to disconnect a client goes on.
Spec == Init /\ [][Next]_vars /\ WF_vars(Loop) /\ \A f \in Fds : WF_vars(leave(f))
---------------------------------------------------------------------------
\* Properties.

\* Every variable keeps its type.  A header buffer never holds more than a header, and a
\* connected player has sent fewer invalid packets than the limit.
TypeOK ==
    /\ socket \in [Fds -> {"free", "open", "hungup"}]
    /\ sent \in [Fds -> BoundedSeq(Packets, MaxSends)]
    /\ DOMAIN wire = Fds /\ DOMAIN handled = Fds /\ DOMAIN pdata = Fds
    /\ DOMAIN pheader = Fds /\ \A f \in Fds : Len(pheader[f]) <= HeaderSize
    /\ invalid_sends \in [Fds -> 0 .. MaxInval - 1]
    /\ sends \in 0 .. MaxSends /\ arrived \in 0 .. MaxConns /\ backlog \in 0 .. arrived
    /\ tests \subseteq Fds \cup {Listener} /\ player \in Fds \cup {NoPlayer, Gone}
    /\ leaving \in [Fds -> {"no", "freed", "unregistered", "away"}] /\ mixed \subseteq Fds
    /\ replaced \in {Current} \cup 0 .. MaxInval - 1 /\ a2read \in BOOLEAN
    /\ pc \in {"copied", "select", "loop", "parse", "ended", "segv", "contested"}

\* The client sends what a client should, without line ends.
Clean(f) ==
    \A n \in DOMAIN sent[f] : sent[f][n].header = "ok" /\ sent[f][n].rval # "wrong" /\ ~sent[f][n].line

LastHandled(f) == IF handled[f] = <<>> THEN 0 ELSE Last(handled[f]).n

\* Nobody has begun to disconnect the client, and the bytes of no other client have got among
\* his: from a descriptor whose player was found no more, or from the client before him, read
\* after the buffers of the descriptor had been freed.
Promised(f) == leaving[f] = "no" /\ f \notin mixed /\ ~(pc = "contested" /\ player = f)

\* However recv cuts a clean stream up, the bytes of the packets not yet handled are, in
\* order, in the header buffer, the data buffer, the text the loop is working on and the
\* socket: none is lost or doubled.
NothingLost ==
    \A f \in Fds :
       Clean(f) /\ Promised(f) =>
          pheader[f] \o pdata[f] \o (IF pc = "parse" /\ player = f THEN p_ptr ELSE <<>>) \o wire[f]
             = FlattenSeq([k \in 1 .. Len(sent[f]) - LastHandled(f) |->
                              Frame(LastHandled(f) + k, sent[f][LastHandled(f) + k])])

\* A clean client has no invalid sends, whatever was begun for those before him, as long as
\* none of their bytes are taken for his.
InnocentNotCharged == \A f \in Fds : Clean(f) /\ Promised(f) => invalid_sends[f] = 0

\* What a connection promises: PacketStream, with the packets rebuilt from the payloads
\* that were handed on.
Rebuilt(f, entry) ==
    IF entry.data = PayloadBytes(entry.n, sent[f][entry.n]) THEN sent[f][entry.n] ELSE "garbled"

queue == [f \in Fds |-> IF Promised(f) THEN SubSeq(sent[f], LastHandled(f) + 1, Len(sent[f])) ELSE <<>>]
log   == [f \in Fds |-> IF Promised(f) THEN [k \in DOMAIN handled[f] |-> Rebuilt(f, handled[f][k])] ELSE <<>>]

Stream == INSTANCE PacketStream WITH Clients <- Fds, queue <- queue, log <- log

\* parse_packet and the loop around it implement the stream: in order, once each, intact,
\* nothing after a wrong header, and nothing passed over but behind a line end.  The stream
\* of a client ends with what Promised names.
StreamSpec == Stream!Spec

\* The client has hung up, or has sent clean packets only and not all of them are handled.
Owed(f) == socket[f] = "hungup" \/ (Clean(f) /\ Promised(f) /\ LastHandled(f) < Len(sent[f]))

\* Every packet of a clean client is handled in the end, and every client who has hung up
\* is disconnected, whatever he has sent, unless the bytes of another get among his, a thread
\* comes first or the program ends.
EveryClientServed == \A f \in Fds : []<>(~Owed(f) \/ ~Runs)
=============================================================================
