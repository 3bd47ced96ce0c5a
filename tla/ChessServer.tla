---------------------------- MODULE ChessServer ----------------------------
(***************************************************************************)
(* The sessions of the chess server: the select loop of server.c, the      *)
(* player registry and the keepalive threads of player_mngr.c, the queue   *)
(* of queue_mngr.c, the table of games of game_mngr.c and the packet       *)
(* handlers of packet.c.                                                   *)
(*                                                                         *)
(* A step is one handler call, one keepalive iteration or one event of a   *)
(* client or of the clock; handlers of the main thread and iterations of   *)
(* the keepalive threads interleave between steps.  Packets arrive         *)
(* reassembled, and of a game only its two players are kept.               *)
(***************************************************************************)
EXTENDS Integers, FiniteSets

CONSTANTS
    MaxPlayers,   \* args->player_limit: the length of players, dc_players and queue
    MaxInval,     \* args->max_inval_pc
    FirstFd,      \* the descriptor of the first client (0..2 and the listener precede it)
    LastFd,       \* bound: the highest descriptor the kernel hands out
    MaxStructs,   \* bound: the number of struct player ever allocated
    Names,        \* bound: the names clients log in with, and NewPlayer
    NewPlayer,    \* the name create_player gives
    LongNames,    \* names of MAX_PLAYER_NAME_LENGTH characters and more
    NoKey,        \* a NULL entry of queue_key
    NumThreads,   \* bound: the keepalive threads alive at once
    Packets,      \* the kinds of packet the clients send
    Pipelined     \* whether one recv may return more than one packet

\* A limit of 0 or 1 leaves no room for a single game.
ASSUME LimitAssumption == MaxPlayers \in Nat \ {0, 1} /\ MaxInval \in Nat
ASSUME BoundAssumption ==
    /\ FirstFd \in Nat /\ LastFd \in Nat
    /\ MaxStructs \in Nat /\ NumThreads \in Nat
ASSUME NameAssumption ==
    NewPlayer \in Names /\ NoKey \notin Names /\ Names \cap LongNames = {}
ASSUME PipelinedAssumption == Pipelined \in BOOLEAN

Fds       == FirstFd .. LastFd
Slots     == 0 .. (MaxPlayers - 1)
MaxGames  == MaxPlayers \div 2
GameSlots == 0 .. (MaxGames - 1)
Structs   == 1 .. MaxStructs
Threads   == 1 .. NumThreads
NoPlayer  == 0
Pairs     == [white : Structs \cup {NoPlayer}, black : Structs \cup {NoPlayer}]
NoGame    == [white |-> NoPlayer, black |-> NoPlayer]
PlayerStates == {"JUST_CONNECTED", "LOGGED_IN", "QUEUE", "PLAY"}
ConnStates == {"closed", "up", "eof", "reset"}
Views     == {"none", "connected", "lobby", "queue", "play", "play_alone"}

\* Times are ages in units of short_term_dc (20 s), capped at long_term_dc.
short_term_dc == 1
long_term_dc  == 3
Ages      == 0 .. long_term_dc
Older(a)  == IF a < long_term_dc THEN a + 1 ELSE a

Idle       == [pc |-> "idle", fd |-> 0, p |-> NoPlayer, age |-> 0, short |-> FALSE]
Created(f) == [pc |-> "created", fd |-> f, p |-> NoPlayer, age |-> 0, short |-> FALSE]
Looking(p, a) == [pc |-> "loop", fd |-> 0, p |-> p, age |-> a, short |-> a >= short_term_dc]
ThreadStates == [pc : {"idle", "created", "loop"}, fd : Slots \cup {0},
                 p : Structs \cup {NoPlayer}, age : Ages, short : BOOLEAN]

VARIABLES
    halt,              \* "no", or how the process ended: "exit" or "segv"
    pc,                \* the main thread: in select, in the HANDLE_PACKET loop, at _inv_data
    player,            \* the local variable of start_listening
    players, dc_players,
    fd, ps, name, last_keepalive, started_keepalive, invalid_sends,
    allocated,         \* the number of struct player allocated
    queue_key, queue,
    games, free_game_index,
    client_socks,
    conn,              \* the state of each socket
    view,              \* what the peer of each socket was last told it is in
    thread             \* the keepalive threads

mainVars   == <<halt, pc, player>>
structVars == <<fd, ps, name, last_keepalive, started_keepalive, invalid_sends, allocated>>
regVars    == <<players, dc_players>>
queueVars  == <<queue_key, queue>>
gameVars   == <<games, free_game_index>>
sockVars   == <<client_socks, conn, view>>
vars == <<mainVars, structVars, regVars, queueVars, gameVars, sockVars, thread>>

Init ==
    /\ halt = "no" /\ pc = "select" /\ player = NoPlayer
    /\ players = [f \in Slots |-> NoPlayer]
    /\ dc_players = [i \in Slots |-> NoPlayer]
    /\ fd = [p \in Structs |-> -1]
    /\ ps = [p \in Structs |-> "JUST_CONNECTED"]
    /\ name = [p \in Structs |-> NewPlayer]
    /\ last_keepalive = [p \in Structs |-> long_term_dc]
    /\ started_keepalive = [p \in Structs |-> FALSE]
    /\ invalid_sends = [p \in Structs |-> 0]
    /\ allocated = 0
    /\ queue_key = [i \in Slots |-> NoKey]
    /\ queue = [i \in Slots \cup {-1} |-> FALSE]
    /\ games = [i \in GameSlots |-> NoGame]
    /\ free_game_index = 0
    /\ client_socks = {}
    /\ conn = [f \in Fds |-> "closed"]
    /\ view = [f \in Fds |-> "none"]
    /\ thread = [t \in Threads |-> Idle]

---------------------------------------------------------------------------
\* Lookups.  A search that may fail returns a set with at most one element.

Least(S) == {i \in S : \A j \in S : i <= j}

lookup_player_by_fd(f, PL) == IF f \in Slots THEN {PL[f]} \ {NoPlayer} ELSE {}

\* Mutant: players of a game are passed over.
MutLookupByName(n, PL, N) ==
    {PL[f] : f \in Least({g \in Slots : PL[g] # NoPlayer /\ ps[PL[g]] # "PLAY" /\ N[PL[g]] = n})}

lookup_player_by_name(n, PL, N) ==
    {PL[f] : f \in Least({g \in Slots : PL[g] # NoPlayer /\ N[PL[g]] = n})}

\* Mutant: the last stored player of that name is taken, a player without a name included.
MutLookupDc(n) ==
    {i \in Slots : dc_players[i] # NoPlayer /\ \A j \in Slots : dc_players[j] # NoPlayer => j <= i}

\* The index in dc_players of the player of that name who went away.
lookup_dc_player(n) ==
    Least({i \in Slots : dc_players[i] # NoPlayer /\ name[dc_players[i]] = n})

Involves(g, p) == g.white = p \/ g.black = p
lookup_game(p) == Least({i \in GameSlots : games[i] # NoGame /\ Involves(games[i], p)})
Opponent(g, p) == IF g.white = p THEN g.black ELSE g.white

---------------------------------------------------------------------------
\* send_packet.  A peer that is "up" gets what is sent; one that has closed its
\* end makes send succeed until its reset arrives, and fail from then on.

Reaches(f) == f \in Fds /\ conn[f] \in {"up", "eof"}
Fails(f)   == f \notin Fds \/ conn[f] # "up"

\* The sockets after sends to the descriptors F have failed.
Lost(F) == [f \in Fds |-> IF f \in F /\ conn[f] = "eof" THEN "reset" ELSE conn[f]]

\* The views V after the peers of the descriptors F were told v.
Told(V, F, v) == [f \in Fds |-> IF f \in F /\ V[f] # "none" THEN v ELSE V[f]]

---------------------------------------------------------------------------
\* The end of a handler: rval is PACKET_RESP_ERR_INVALID_DATA, or it is a code
\* after which the loop goes on with what is left of the buffer.

Return(rval) ==
    /\ UNCHANGED halt
    /\ IF rval = "invalid" THEN pc' = "inval"
       ELSE pc' \in (IF Pipelined THEN {"select", "parse"} ELSE {"select"})

---------------------------------------------------------------------------
\* queue_mngr.c.  An index that is not found when no key is free is firstFree = -1.

find_player_in_queue(n) ==
    LET found == Least({i \in Slots : queue_key[i] = n})
        free  == Least({i \in Slots : queue_key[i] = NoKey})
    IN  IF found # {} THEN found ELSE IF free # {} THEN free ELSE {-1}

\* queue_key after find_player_in_queue returned id; -1 is outside the array.
KeyStored(id, n) == [i \in Slots |-> IF i = id THEN n ELSE queue_key[i]]

\* Mutant: the search for the next free index counts one past the end of the table.
MutGameCreatePastEnd(p, op, rval) ==
    /\ ps' = [ps EXCEPT ![p] = "PLAY", ![op] = "PLAY"]
    /\ \/ free_game_index < 0 /\ UNCHANGED gameVars /\ Return(rval)
       \/ /\ free_game_index >= 0
          /\ games' = [games EXCEPT ![free_game_index] = [white |-> p, black |-> op]]
          /\ LET free == Least({i \in GameSlots : games'[i] = NoGame})
             IN  free_game_index' \in (IF free = {} THEN {MaxGames} ELSE free)
          /\ Return("ok")

\* Mutant: the free index is not moved on when its slot is taken.
MutGameCreateSameIndex(p, op, rval) ==
    /\ ps' = [ps EXCEPT ![p] = "PLAY", ![op] = "PLAY"]
    /\ \/ free_game_index < 0 /\ UNCHANGED gameVars /\ Return(rval)
       \/ /\ free_game_index >= 0
          /\ games' = [games EXCEPT ![free_game_index] = [white |-> p, black |-> op]]
          /\ UNCHANGED free_game_index
          /\ Return("ok")

\* The matched pair becomes a game, or finds the table full and is PLAY without one.
game_create(p, op, rval) ==
    /\ ps' = [ps EXCEPT ![p] = "PLAY", ![op] = "PLAY"]
    /\ \/ /\ free_game_index < 0
          /\ UNCHANGED gameVars
          /\ Return(rval)
       \/ /\ free_game_index >= 0
          /\ games' = [games EXCEPT ![free_game_index] = [white |-> p, black |-> op]]
          /\ LET free == Least({i \in GameSlots : games'[i] = NoGame})
             IN  free_game_index' \in (IF free = {} THEN {-1} ELSE free)
          /\ Return("ok")

\* Mutant: the search for an opponent starts after the player's own index.
MutFlagged(id) == {i \in Slots : id < i /\ queue[i]}

\* The indexes other than the player's own whose flag is set.
Flagged(id) == {i \in Slots \ {id} : queue[i]}

\* p, whose flag is not set, meets the first flagged player still connected, or waits.
look_for_opponent(p, id, PL, F, N, V, rval) ==
    LET key      == KeyStored(id, N[p])
        there(i) == lookup_player_by_name(key[i], PL, N)
        match    == Least({i \in Flagged(id) : there(i) # {}})
        gone     == {i \in Flagged(id) : there(i) = {} /\ \A m \in match : i < m}
    IN  /\ queue_key' = [i \in Slots |-> IF i \in gone THEN NoKey ELSE key[i]]
        /\ \/ /\ match = {}
              /\ queue' = [i \in DOMAIN queue |-> i = id \/ (queue[i] /\ i \notin gone)]
              /\ ps' = [ps EXCEPT ![p] = "QUEUE"]
              /\ view' = Told(V, {F[p]}, "queue")
              /\ UNCHANGED <<gameVars, conn>>
              /\ Return("ok")
           \/ \E i \in match : \E op \in there(i) :
              /\ queue' = [j \in DOMAIN queue |-> j # id /\ j # i /\ queue[j] /\ j \notin gone]
              /\ \/ /\ Reaches(F[p]) /\ Reaches(F[op])
                    /\ view' = Told(V, {F[p], F[op]}, "play")
                    /\ UNCHANGED conn
                    /\ game_create(p, op, rval)
                 \/ /\ Fails(F[p])
                    /\ ps' = [ps EXCEPT ![p] = "QUEUE"]
                    /\ view' = Told(V, {F[p]}, "queue") /\ conn' = Lost({F[p]})
                    /\ UNCHANGED gameVars
                    /\ Return(rval)
                 \/ /\ Reaches(F[p]) /\ Fails(F[op])
                    /\ ps' = [ps EXCEPT ![p] = "QUEUE"]
                    /\ view' = Told(V, {F[p]}, "play") /\ conn' = Lost({F[op]})
                    /\ UNCHANGED gameVars
                    /\ Return(rval)

\* PL, F, N and V are players, fd, name and view as the caller has left them;
\* rval is what the caller makes of a result that is not 0.
add_to_queue(p, PL, F, N, V, rval) ==
    \E id \in find_player_in_queue(N[p]) :
       \/ /\ Fails(F[p])
          /\ queue_key' = KeyStored(id, N[p])
          /\ conn' = Lost({F[p]})
          /\ view' = V
          /\ UNCHANGED <<queue, ps, gameVars>>
          /\ Return(rval)
       \/ /\ Reaches(F[p]) /\ queue[id]
          /\ queue_key' = KeyStored(id, N[p])
          /\ view' = Told(V, {F[p]}, "queue")
          /\ UNCHANGED <<queue, ps, gameVars, conn>>
          /\ Return(rval)
       \/ /\ Reaches(F[p]) /\ ~queue[id]
          /\ look_for_opponent(p, id, PL, F, N, V, rval)

---------------------------------------------------------------------------
\* finish_game, as used by p_movepc and p_resign.

PlayersOf(g) == {g.white, g.black}
FdsOf(S)     == {fd[p] : p \in S}

\* Mutant: only the winner's state is set.
MutLoggedIn(S) == [p \in Structs |-> IF p \in Least(S) THEN "LOGGED_IN" ELSE ps[p]]

LoggedIn(S)  == [p \in Structs |-> IF p \in S THEN "LOGGED_IN" ELSE ps[p]]

\* Mutant: the game is announced as finished and stays in the table.
MutFinishGame(i) ==
    /\ ps' = LoggedIn(PlayersOf(games[i]))
    /\ view' = Told(view, FdsOf(PlayersOf(games[i])), "lobby")
    /\ UNCHANGED <<gameVars, conn>>

finish_game(i) ==
    /\ games' = [games EXCEPT ![i] = NoGame]
    /\ ps' = LoggedIn(PlayersOf(games[i]))
    /\ view' = Told(view, FdsOf(PlayersOf(games[i])), "lobby")
    /\ UNCHANGED <<free_game_index, conn>>

---------------------------------------------------------------------------
\* disconnect.  final: a reason was given, which ends the player's game.
\* socks and inv are client_socks and invalid_sends as the caller has left them.

MutInformed(p, G) == IF fd[p] < MaxGames THEN {fd[p]} ELSE {}   \* mutant: the leaver is told

\* gman_handle_dc: its range check is on max_game_count.
Informed(p, G) ==
    IF fd[p] < MaxGames
    THEN FdsOf({Opponent(G[i], p) : i \in {j \in GameSlots : G[j] # NoGame /\ Involves(G[j], p)}})
    ELSE {}

\* Mutant: the flag is cleared only once the player has been told, so not when he is gone.
MutRemovedFromQueue(p, PS) ==
    \E id \in find_player_in_queue(name[p]) :
       /\ queue_key' = KeyStored(id, name[p])
       /\ \/ (~queue[id] \/ Fails(fd[p])) /\ ps' = PS /\ UNCHANGED queue
          \/ /\ queue[id] /\ Reaches(fd[p])
             /\ ps' = [PS EXCEPT ![p] = "LOGGED_IN"] /\ queue' = [queue EXCEPT ![id] = FALSE]

\* qman_handle_dc: PS is ps as the steps before it have left it.
RemovedFromQueue(p, PS) ==
    \E id \in find_player_in_queue(name[p]) :
       /\ queue_key' = KeyStored(id, name[p])
       /\ queue' = [queue EXCEPT ![id] = FALSE]
       /\ \/ (~queue[id] \/ Fails(fd[p])) /\ ps' = PS
          \/ queue[id] /\ Reaches(fd[p]) /\ ps' = [PS EXCEPT ![p] = "LOGGED_IN"]

\* Mutant: the stored player keeps the descriptor that has been closed.
MutStoreKeepsFd(p, inv) ==
    /\ players' = [players EXCEPT ![fd[p]] = NoPlayer]
    /\ LET free == Least({i \in Slots : dc_players[i] = NoPlayer})
       IN  dc_players' = [i \in Slots |-> IF i \in free THEN p ELSE dc_players[i]]
    /\ UNCHANGED fd /\ invalid_sends' = [inv EXCEPT ![p] = 0]

\* Mutant: the player stays registered under the descriptor that has been closed.
MutStoreStaysRegistered(p, inv) ==
    /\ LET free == Least({i \in Slots : dc_players[i] = NoPlayer})
       IN  dc_players' = [i \in Slots |-> IF i \in free THEN p ELSE dc_players[i]]
    /\ fd' = [fd EXCEPT ![p] = -1]
    /\ UNCHANGED players /\ invalid_sends' = [inv EXCEPT ![p] = 0]

\* Mutant: the player is not stored for its return.
MutStoreForgets(p, inv) ==
    /\ players' = [players EXCEPT ![fd[p]] = NoPlayer]
    /\ fd' = [fd EXCEPT ![p] = -1]
    /\ UNCHANGED dc_players /\ invalid_sends' = [inv EXCEPT ![p] = 0]

\* pman_handle_dc: without a free slot the player is dropped and keeps its fd.
pman_handle_dc(p, inv) ==
    /\ players' = [players EXCEPT ![fd[p]] = NoPlayer]
    /\ LET free == Least({i \in Slots : dc_players[i] = NoPlayer})
       IN  \/ /\ free = {}
              /\ UNCHANGED <<dc_players, fd>> /\ invalid_sends' = inv
           \/ \E i \in free :
              /\ dc_players' = [dc_players EXCEPT ![i] = p]
              /\ fd' = [fd EXCEPT ![p] = -1]
              /\ invalid_sends' = [inv EXCEPT ![p] = 0]

disconnect(p, final, socks, inv) ==
    LET over  == IF final THEN lookup_game(p) ELSE {}
        ended == UNION {PlayersOf(games[i]) : i \in over}
        G     == [i \in GameSlots |-> IF i \in over THEN NoGame ELSE games[i]]
        told  == Told(view, FdsOf(ended), "lobby")
    IN  /\ games' = G
        /\ UNCHANGED <<free_game_index, name, last_keepalive, allocated>>
        /\ \/ /\ fd[p] < 0
              /\ ps' = LoggedIn(ended)
              /\ view' = told
              /\ client_socks' = socks
              /\ invalid_sends' = inv
              /\ UNCHANGED <<fd, regVars, queueVars, conn>>
           \/ /\ fd[p] >= 0
              /\ client_socks' = socks \ {fd[p]}
              /\ RemovedFromQueue(p, LoggedIn(ended))
              /\ pman_handle_dc(p, inv)
              /\ conn' = [conn EXCEPT ![fd[p]] = "closed"]
              /\ view' = [Told(told, Informed(p, G), "play_alone") EXCEPT ![fd[p]] = "none"]

---------------------------------------------------------------------------
\* packet.c.  A handler leaves client_socks and, but for p_hello, the registry alone.

keepSession == UNCHANGED <<fd, name, started_keepalive, invalid_sends, allocated,
                           regVars, client_socks>>

\* start_keepalive for the player registered under f once players is PL.
start_keepalive(f, PL) ==
    \/ /\ lookup_player_by_fd(f, PL) = {}
       /\ UNCHANGED <<last_keepalive, thread>>
    \/ \E q \in lookup_player_by_fd(f, PL) :
       /\ last_keepalive' = [last_keepalive EXCEPT ![q] = 0]
       /\ LET idle == Least({t \in Threads : thread[t].pc = "idle"})
          IN  \/ /\ started_keepalive[q] \/ idle = {}
                 /\ UNCHANGED thread
              \/ /\ ~started_keepalive[q]
                 /\ \E t \in idle :
                      thread' = [thread EXCEPT ![t] = Created(f)]

\* The name is new to the server: the player is logged in under it.
first_login(p, n) ==
    /\ start_keepalive(fd[p], players)
    /\ ps' = [ps EXCEPT ![p] = "LOGGED_IN"]
    /\ view' = Told(view, {fd[p]}, "lobby")
    /\ UNCHANGED <<regVars, fd, queueVars, gameVars, conn>>
    /\ Return("ok")

\* Mutant: only a player with the white pieces gets his game back.
MutUnfinishedGame(e) ==
    IF ps[e] = "PLAY" THEN {g \in lookup_game(e) : games[g].white = e} ELSE {}

\* The game a player left when he went away.
UnfinishedGame(e) == IF ps[e] = "PLAY" THEN lookup_game(e) ELSE {}

\* Mutant: only the player who returns is told.
MutToldOfReturn(g, e, F) == {F[e]}

\* reconnect_to_game sends to both players.
ToldOfReturn(g, e, F) == {F[q] : q \in PlayersOf(games[g])}

\* The name is that of the player e in dc_players[i]: e takes over the descriptor and,
\* if he was in a game, is sent that game; his opponent hears of it if that succeeds.
login_again(p, n, i) ==
    LET e  == dc_players[i]
        F  == [fd EXCEPT ![e] = fd[p]]
        PL == [players EXCEPT ![fd[p]] = e]
        N  == [name EXCEPT ![p] = n]
        V  == Told(view, {fd[p]}, "lobby")
    IN  /\ fd' = F /\ players' = PL
        /\ dc_players' = [dc_players EXCEPT ![i] = NoPlayer]
        /\ start_keepalive(fd[p], PL)
        /\ \/ \E g \in UnfinishedGame(e) :
              /\ \/ view' = Told(V, ToldOfReturn(g, e, F), "play")
                 \/ Fails(fd[p]) /\ view' = Told(V, {fd[p]}, "play")
              /\ UNCHANGED <<ps, queueVars, gameVars, conn>>
              /\ Return("ok")
           \/ /\ ps[e] = "QUEUE"
              /\ add_to_queue(e, PL, F, N, V, "ok")
           \/ /\ ps[e] # "QUEUE" /\ UnfinishedGame(e) = {}
              /\ ps' = [ps EXCEPT ![e] = "LOGGED_IN"]
              /\ view' = V
              /\ UNCHANGED <<queueVars, gameVars, conn>>
              /\ Return("ok")

p_hello(p, n) ==
    /\ UNCHANGED <<started_keepalive, invalid_sends, allocated, client_socks>>
    /\ \/ /\ n \in LongNames \/ lookup_player_by_name(n, players, name) # {}
          /\ UNCHANGED <<fd, ps, name, last_keepalive, regVars, queueVars, gameVars,
                         conn, view, thread>>
          /\ Return("ok")
       \/ /\ n \in Names /\ lookup_player_by_name(n, players, name) = {}
          /\ name' = [name EXCEPT ![p] = n]
          /\ \/ /\ Fails(fd[p])
                /\ conn' = Lost({fd[p]})
                /\ UNCHANGED <<fd, ps, last_keepalive, regVars, queueVars, gameVars,
                               view, thread>>
                /\ Return("ok")
             \/ /\ Reaches(fd[p])
                /\ \/ lookup_dc_player(n) = {} /\ first_login(p, n)
                   \/ \E i \in lookup_dc_player(n) : login_again(p, n, i)

p_queue(p) ==
    /\ keepSession /\ UNCHANGED <<last_keepalive, thread>>
    /\ add_to_queue(p, players, fd, name, view, "invalid")

p_leave_queue(p) ==
    /\ keepSession /\ UNCHANGED <<last_keepalive, thread, gameVars>>
    /\ \E id \in find_player_in_queue(name[p]) :
         /\ queue_key' = KeyStored(id, name[p])
         /\ queue' = [queue EXCEPT ![id] = FALSE]
         /\ \/ /\ ~queue[id]
               /\ UNCHANGED <<ps, conn, view>>
               /\ Return("ok")
            \/ /\ queue[id] /\ Fails(fd[p])
               /\ conn' = Lost({fd[p]})
               /\ UNCHANGED <<ps, view>>
               /\ Return("invalid")
            \/ /\ queue[id] /\ Reaches(fd[p])
               /\ ps' = [ps EXCEPT ![p] = "LOGGED_IN"]
               /\ view' = Told(view, {fd[p]}, "lobby")
               /\ UNCHANGED conn
               /\ Return("ok")

\* p_movepc, p_offdraw, p_resign, p_message: no game is invalid data; a mating move that
\* both players receive and a resignation finish the game; nothing else touches sessions.
play_packet(p, k) ==
    /\ keepSession /\ UNCHANGED <<last_keepalive, thread, queueVars>>
    /\ \/ /\ lookup_game(p) = {} \/ k = "MOVE"
          /\ UNCHANGED <<ps, gameVars, conn, view>>
          /\ Return("invalid")
       \/ /\ k # "RESIGN" /\ lookup_game(p) # {}
          /\ UNCHANGED <<ps, gameVars, conn, view>>
          /\ Return("ok")
       \/ \E i \in lookup_game(p) :
          /\ \/ k = "RESIGN"
             \/ k = "MOVE" /\ \A q \in PlayersOf(games[i]) : Reaches(fd[q])
          /\ finish_game(i)
          /\ Return("ok")

p_keepalive(p) ==
    /\ keepSession
    /\ last_keepalive' = [last_keepalive EXCEPT ![p] = 0]
    /\ UNCHANGED <<ps, queueVars, gameVars, conn, view, thread>>
    /\ Return("ok")

PlayPackets == {"MOVE", "DRAW_OFFER", "RESIGN", "MESSAGE"}

\* Mutant: p_queue is registered for the state PLAY as well.
MutPacketHandlers(s) ==
    {"KEEP_ALIVE"} \cup CASE s = "JUST_CONNECTED" -> {"HELLO"}
                          [] s = "LOGGED_IN"      -> {"QUEUE"}
                          [] s = "QUEUE"          -> {"LEAVE_QUEUE"}
                          [] s = "PLAY"           -> PlayPackets \cup {"QUEUE"}

packet_handlers(s) ==
    {"KEEP_ALIVE"} \cup CASE s = "JUST_CONNECTED" -> {"HELLO"}
                          [] s = "LOGGED_IN"      -> {"QUEUE"}
                          [] s = "QUEUE"          -> {"LEAVE_QUEUE"}
                          [] s = "PLAY"           -> PlayPackets

\* One round of the HANDLE_PACKET loop for p, whose descriptor indexes the buffers.
HandlePacket(p) ==
    \/ /\ fd[p] < 0
       /\ halt' = "segv"
       /\ UNCHANGED <<pc, structVars, regVars, queueVars, gameVars, sockVars, thread>>
    \/ /\ fd[p] >= 0
       /\ \E k \in Packets :
            \/ /\ k \notin packet_handlers(ps[p])
               /\ UNCHANGED <<structVars, regVars, queueVars, gameVars, sockVars, thread>>
               /\ Return("invalid")
            \/ /\ k \in packet_handlers(ps[p])
               /\ \/ k = "HELLO" /\ \E n \in Names \cup LongNames : p_hello(p, n)
                  \/ k = "QUEUE" /\ p_queue(p)
                  \/ k = "LEAVE_QUEUE" /\ p_leave_queue(p)
                  \/ k \in PlayPackets /\ play_packet(p, k)
                  \/ k = "KEEP_ALIVE" /\ p_keepalive(p)

---------------------------------------------------------------------------
\* start_listening.

Running == halt = "no"

\* Mutant: the player is looked up only if the loop has none yet.
MutOwner(f) ==
    IF player = NoPlayer THEN lookup_player_by_fd(f, players) ELSE {player}

\* The player the loop takes a readable descriptor to belong to: when none is
\* registered under it, the variable keeps the player of an earlier descriptor.
Owner(f) ==
    LET found == lookup_player_by_fd(f, players)
    IN  IF found = {} THEN {player} \ {NoPlayer} ELSE found

\* create_player allocates the next struct; descriptors past the limit get none.
handle_new_client ==
    /\ Running /\ pc = "select"
    /\ \E f \in Least({g \in Fds : conn[g] = "closed"}) :
         /\ client_socks' = client_socks \cup {f}
         /\ conn' = [conn EXCEPT ![f] = "up"]
         /\ view' = [view EXCEPT ![f] = "connected"]
         /\ \/ /\ f \in Slots /\ players[f] # NoPlayer
               /\ halt' = "exit"
               /\ UNCHANGED <<allocated, players, fd>>
            \/ /\ f \notin Slots
               /\ UNCHANGED <<halt, allocated, players, fd>>
            \/ /\ f \in Slots /\ players[f] = NoPlayer
               /\ allocated < MaxStructs
               /\ allocated' = allocated + 1
               /\ players' = [players EXCEPT ![f] = allocated + 1]
               /\ fd' = [fd EXCEPT ![allocated + 1] = f]
               /\ UNCHANGED halt
    /\ UNCHANGED <<pc, player, dc_players, ps, name, last_keepalive, started_keepalive,
                   invalid_sends, queueVars, gameVars, thread>>

\* Data is there to be read: one packet of it is complete.
read_packet(f) ==
    /\ Running /\ pc = "select"
    /\ f \in client_socks /\ conn[f] \in {"up", "eof"}
    /\ \E p \in Owner(f) : player' = p /\ HandlePacket(p)

\* The rest of the buffer holds another packet, still taken for the same player's.
read_next_packet ==
    /\ Running /\ pc = "parse"
    /\ HandlePacket(player)
    /\ UNCHANGED player

\* What is left of the buffer is no complete packet.
buffer_rest ==
    /\ Running /\ pc = "parse"
    /\ pc' = "select"
    /\ UNCHANGED <<halt, player, structVars, regVars, queueVars, gameVars, sockVars, thread>>

\* FIONREAD reports nothing to read: the peer has closed or reset the connection.
read_eof(f) ==
    /\ Running /\ pc = "select"
    /\ f \in client_socks /\ conn[f] \in {"eof", "reset"}
    /\ \E p \in Owner(f) :
         /\ player' = p
         /\ disconnect(p, FALSE, client_socks \ {f}, invalid_sends)
    /\ UNCHANGED <<halt, pc, started_keepalive, thread>>

\* _inv_data: another packet of the player was invalid.
invalid_data ==
    LET inv == [invalid_sends EXCEPT ![player] = @ + 1]
    IN  /\ Running /\ pc = "inval"
        /\ \/ /\ inv[player] < MaxInval
              /\ invalid_sends' = inv
              /\ UNCHANGED <<fd, ps, name, last_keepalive, started_keepalive, allocated,
                             regVars, queueVars, gameVars, sockVars>>
              /\ Return("ok")
           \/ /\ inv[player] >= MaxInval
              /\ disconnect(player, TRUE, client_socks, inv)
              /\ pc' = "select"
              /\ UNCHANGED <<halt, started_keepalive>>
        /\ UNCHANGED <<player, thread>>

---------------------------------------------------------------------------
\* The keepalive threads.

\* The thread looks its player up; one that finds none ends.
keepalive_start(t) ==
    /\ Running /\ thread[t].pc = "created"
    /\ \/ /\ lookup_player_by_fd(thread[t].fd, players) = {}
          /\ thread' = [thread EXCEPT ![t] = Idle]
          /\ UNCHANGED <<started_keepalive, last_keepalive>>
       \/ \E p \in lookup_player_by_fd(thread[t].fd, players) :
          /\ thread' = [thread EXCEPT ![t] = Looking(p, 0)]
          /\ started_keepalive' = [started_keepalive EXCEPT ![p] = TRUE]
          /\ last_keepalive' = [last_keepalive EXCEPT ![p] = 0]
    /\ UNCHANGED <<mainVars, fd, ps, name, invalid_sends, allocated, regVars, queueVars,
                   gameVars, sockVars>>

\* The player of the thread, found again through its descriptor, and the age of its
\* last keepalive: the last one seen when the player is not registered.
Watched(t) ==
    LET found == lookup_player_by_fd(fd[thread[t].p], players)
    IN  IF found = {} THEN {thread[t].p} ELSE found

\* Mutant: the last keepalive is taken to be now while the player is not registered.
MutWatchedAge(t, p) ==
    IF lookup_player_by_fd(fd[thread[t].p], players) # {} /\ started_keepalive[p]
    THEN last_keepalive[p] ELSE 0

WatchedAge(t, p) ==
    IF lookup_player_by_fd(fd[thread[t].p], players) # {} /\ started_keepalive[p]
    THEN last_keepalive[p] ELSE thread[t].age

keepalive_loop(t) ==
    /\ Running /\ thread[t].pc = "loop"
    /\ \E p \in Watched(t) :
         LET age == WatchedAge(t, p) IN
             \/ /\ age >= long_term_dc
                /\ disconnect(p, TRUE, client_socks, invalid_sends)
                /\ started_keepalive' = [started_keepalive EXCEPT ![p] = FALSE]
                /\ thread' = [thread EXCEPT ![t] = Idle]
             \/ /\ age \in short_term_dc .. (long_term_dc - 1) /\ ~thread[t].short
                /\ disconnect(p, FALSE, client_socks, invalid_sends)
                /\ thread' = [thread EXCEPT ![t] = Looking(p, age)]
                /\ UNCHANGED started_keepalive
             \/ /\ age < short_term_dc \/ (age < long_term_dc /\ thread[t].short)
                /\ thread' = [thread EXCEPT ![t] = Looking(p, age)]
                /\ UNCHANGED <<structVars, regVars, queueVars, gameVars, sockVars>>
    /\ UNCHANGED mainVars

---------------------------------------------------------------------------
\* The clients and the clock.

peer_closes(f) ==
    /\ Running /\ conn[f] = "up"
    /\ conn' = [conn EXCEPT ![f] = "eof"]
    /\ UNCHANGED <<mainVars, structVars, regVars, queueVars, gameVars, client_socks, view, thread>>

\* Only the age of a player whose keepalive has started is ever read.
tick ==
    /\ Running
    /\ last_keepalive' = [p \in Structs |->
                            IF started_keepalive[p] THEN Older(last_keepalive[p])
                            ELSE last_keepalive[p]]
    /\ thread' = [t \in Threads |->
                    IF thread[t].pc = "loop" THEN [thread[t] EXCEPT !.age = Older(@)]
                    ELSE thread[t]]
    /\ UNCHANGED <<mainVars, fd, ps, name, started_keepalive, invalid_sends, allocated,
                   regVars, queueVars, gameVars, sockVars>>

main ==
    \/ handle_new_client
    \/ \E f \in Fds : read_packet(f) \/ read_eof(f)
    \/ read_next_packet
    \/ buffer_rest
    \/ invalid_data

keepalive(t) == keepalive_start(t) \/ keepalive_loop(t)

Next ==
    \/ main
    \/ \E t \in Threads : keepalive(t)
    \/ \E f \in Fds : peer_closes(f)
    \/ tick

Spec == Init /\ [][Next]_vars

---------------------------------------------------------------------------
\* Properties.

MainType ==
    /\ halt \in {"no", "exit", "segv"} /\ pc \in {"select", "parse", "inval"}
    /\ player \in Structs \cup {NoPlayer}
StructType ==
    /\ fd \in [Structs -> Slots \cup {-1}]
    /\ ps \in [Structs -> PlayerStates]
    /\ name \in [Structs -> Names]
    /\ last_keepalive \in [Structs -> Ages]
    /\ started_keepalive \in [Structs -> BOOLEAN]
    /\ invalid_sends \in [Structs -> Nat]
    /\ allocated \in 0 .. MaxStructs
RegType ==
    /\ players \in [Slots -> Structs \cup {NoPlayer}]
    /\ dc_players \in [Slots -> Structs \cup {NoPlayer}]
QueueType ==
    /\ queue_key \in [Slots -> Names \cup {NoKey}]
    /\ queue \in [Slots \cup {-1} -> BOOLEAN]
GameType ==
    /\ games \in [GameSlots -> Pairs]
    /\ free_game_index \in GameSlots \cup {-1}
SockType ==
    /\ client_socks \subseteq Fds
    /\ conn \in [Fds -> ConnStates]
    /\ view \in [Fds -> Views]
ThreadType == thread \in [Threads -> ThreadStates]

\* Every variable keeps its type; in particular free_game_index is -1 or the index of a
\* slot, and no struct is registered that was not allocated.
TypeOK ==
    /\ MainType /\ StructType /\ RegType /\ QueueType /\ GameType /\ SockType /\ ThreadType

\* A registered player carries the descriptor it is registered under, a player in
\* dc_players carries none, and no player is listed there twice: lookup_dc_player and
\* pman_handle_dc move a player between the two tables and never leave it in both.
RegistryOK ==
    /\ \A f \in Slots : players[f] # NoPlayer => fd[players[f]] = f
    /\ \A i \in Slots : dc_players[i] # NoPlayer => fd[dc_players[i]] = -1
    /\ \A i, j \in Slots :
         dc_players[i] # NoPlayer /\ dc_players[i] = dc_players[j] => i = j

\* p_hello refuses a name in use, so two connected players that have logged in never
\* share one, whoever reconnects.
NamesUnique ==
    \A f, g \in Slots :
       /\ players[f] # NoPlayer /\ players[g] # NoPlayer
       /\ name[players[f]] = name[players[g]] /\ name[players[f]] # NewPlayer
       => f = g

\* For a descriptor under the limit, being open, being selected on and having a player
\* are the same: no step leaks a socket, selects on a closed one or forgets a client.
SocketsOK ==
    \A f \in Fds \cap Slots :
       /\ conn[f] # "closed" <=> players[f] # NoPlayer
       /\ f \in client_socks <=> players[f] # NoPlayer

\* As long as no keepalive thread disconnects the player in between, the rest of a buffer is
\* handled for a player with a descriptor: a HELLO with which a player returns leaves the
\* struct it replaces its descriptor, and parse_packet never indexes the buffers with -1.
NeverHalts == halt = "no"

\* add_game overwrites no game: the free index it keeps is that of a free slot.
FreeSlotIsFree == free_game_index >= 0 => games[free_game_index] = NoGame

\* add_to_queue pairs whoever joins with whoever waits, so no two flags stay set.
AtMostOneWaiting == \A i, j \in Slots : queue[i] /\ queue[j] => i = j

Registered(p) == \E f \in Slots : players[f] = p
Stored(p)     == \E i \in Slots : dc_players[i] = p
InGame(p)     == lookup_game(p) # {}

\* A player is in at most one game, never against itself; both players of a game are
\* in PLAY, and each is connected or stored for its return, so that every
\* game has someone left who can finish it.
GamesOK ==
    /\ \A i, j \in GameSlots :
         i # j /\ games[i] # NoGame => PlayersOf(games[i]) \cap PlayersOf(games[j]) \subseteq {NoPlayer}
    /\ \A i \in GameSlots : games[i] # NoGame =>
         /\ games[i].white # games[i].black
         /\ \A p \in PlayersOf(games[i]) :
              p # NoPlayer /\ ps[p] = "PLAY" /\ (Registered(p) \/ Stored(p))

\* A set flag belongs to a connected player in QUEUE: the flag is cleared in time by
\* whatever moves that player on, the matchmaking, LEAVE_QUEUE or a disconnection.
FlaggedIsWaiting ==
    \A i \in Slots : queue[i] =>
       \E p \in lookup_player_by_name(queue_key[i], players, name) : ps[p] = "QUEUE"

\* What a client that is still there was last told is the state the server holds for
\* it.  A match that fails for the other player is the exception: it was told the game started.
ClientAgrees ==
    \A f \in Fds \cap Slots : conn[f] = "up" =>
       LET s == ps[players[f]]
       IN  /\ view[f] = "connected" => s = "JUST_CONNECTED"
           /\ view[f] = "lobby" => s = "LOGGED_IN"
           /\ view[f] = "queue" => s = "QUEUE"
           /\ view[f] = "play" => s \in {"PLAY", "QUEUE"}
           /\ view[f] = "play_alone" => s = "PLAY"

\* A client left believing that its opponent is away has an opponent who is: it is told
\* of the return of the opponent as soon as that one can play again.
AloneMeansAway ==
    \A f \in Fds \cap Slots : conn[f] = "up" /\ view[f] = "play_alone" =>
       \A i \in lookup_game(players[f]) :
          LET op == fd[Opponent(games[i], players[f])]
          IN  op = -1 \/ conn[op] # "up"

\* A player who connects again under the name he left with gets his unfinished game
\* back as he left it, under the new descriptor.
ReturnResumesGame ==
    [][\A p \in Structs : fd[p] = -1 /\ fd'[p] # -1 /\ InGame(p) =>
         /\ games' = games /\ ps'[p] = "PLAY" /\ name'[p] = name[p]
         /\ players'[fd'[p]] = p /\ view'[fd'[p]] = "play"]_vars

\* Every login of a player who is still kept was answered: of those registered or stored, only
\* who has not logged in has no name of his own.
LoginsAnswered ==
    \A p \in Structs :
       (Registered(p) \/ Stored(p)) /\ ps[p] = "JUST_CONNECTED" => name[p] = NewPlayer

\* A player away from a game is the one whom the next login under his name finds.
AwayCanReturn ==
    \A p \in Structs : InGame(p) /\ ~Registered(p) =>
       \E i \in lookup_dc_player(name[p]) : dc_players[i] = p

\* A client does not go on believing that it plays somebody who has just left, when the
\* leaver's descriptor is below the number of games; above it gman_handle_dc is silent.
OpponentTold ==
    [][\A p \in Structs, f \in Fds \cap Slots :
         /\ fd[p] \in 0 .. MaxGames - 1 /\ fd'[p] = -1
         /\ conn[f] = "up" /\ conn'[f] = "up"
         /\ \E i \in lookup_game(p) : Opponent(games[i], p) = players[f]
         => view'[f] # "play"]_vars

\* Claims of comments and option texts that the code does not keep.

\* player_mngr.h:30-33, the state PLAY: "The player is in a game".
PlayingHasGame == \A p \in Structs : Registered(p) /\ ps[p] = "PLAY" => InGame(p)

\* Fairness.  A runnable thread runs and time passes.  The main thread takes its next
\* step, and since a peer that has closed sends no more, the loop gets to the end of
\* what each such peer had sent, whatever else it is busy with (strong fairness).
Fairness ==
    /\ WF_vars(tick)
    /\ \A t \in Threads : WF_vars(keepalive(t))
    /\ WF_vars(read_next_packet \/ buffer_rest \/ invalid_data)
    /\ \A f \in Fds : SF_vars(read_eof(f))

FairSpec == Spec /\ Fairness

Watching(t, p) == thread[t].pc = "loop" /\ thread[t].p = p
Connected(p)   == fd[p] \in Fds /\ conn[fd[p]] = "up"

\* A game does not wait for ever for a player who has gone: if a keepalive thread
\* watches the player, either he connects again or the game ends.
AbandonedGameEnds ==
    \A p \in Structs :
       (InGame(p) /\ ~Connected(p) /\ \E t \in Threads : Watching(t, p))
          ~> (~InGame(p) \/ Connected(p))
=============================================================================
