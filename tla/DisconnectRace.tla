--------------------------- MODULE DisconnectRace ---------------------------
(***************************************************************************)
(* disconnect and pman_handle_dc statement by statement, as the main       *)
(* thread and the keepalive threads run them side by side without a lock,  *)
(* while clients connect and players return.  Queue, games and threads     *)
(* that start late are left to ChessServer, where disconnect is one step.  *)
(***************************************************************************)
EXTENDS Integers

CONSTANTS
    Fds,          \* the descriptors that accept may return, all below the limit
    Names,        \* what clients call themselves
    NewPlayer,    \* the name create_player gives
    StoreSlots,   \* the indices of dc_players
    MaxStructs    \* bound: the number of struct player ever allocated

ASSUME RaceAssumption ==
    Fds \subseteq Nat /\ StoreSlots \subseteq Nat /\ NewPlayer \notin Names /\ MaxStructs \in Nat

Structs  == 1 .. MaxStructs
NoPlayer == 0
Main     == 0
Actors   == {Main} \cup Structs   \* the main thread, and the keepalive thread of each player

VARIABLES
    players, dc_players,
    fd, name, allocated,
    socket,     \* per descriptor: how often it was opened, and whether it is open
    watched,    \* the players whose keepalive thread runs
    halt,
    step,       \* per actor: the statement it is at, and its local variables
    contested,  \* history: the players two actors have worked on at once,
    overlapped, \* those worked on while another actor was at work,
    unstored    \* and those for whom dc_players had no room

tables == <<players, dc_players, fd>>
world  == <<name, allocated, socket, watched, halt>>
vars   == <<tables, world, step, contested, overlapped, unstored>>

Idle == [at |-> "idle", p |-> NoPlayer, fd |-> -1, life |-> 0, slot |-> 0]

Init ==
    /\ players = [f \in Fds |-> NoPlayer] /\ dc_players = [i \in StoreSlots |-> NoPlayer]
    /\ fd = [p \in Structs |-> -1] /\ name = [p \in Structs |-> NewPlayer] /\ allocated = 0
    /\ socket = [f \in Fds |-> [life |-> 0, open |-> FALSE]]
    /\ watched = {} /\ halt = FALSE
    /\ step = [a \in Actors |-> Idle]
    /\ contested = {} /\ overlapped = {} /\ unstored = {}

Least(S) == {i \in S : \A j \in S : i <= j}

At(a, label)  == ~halt /\ step[a].at = label
Goto(a, label) == step' = [step EXCEPT ![a].at = label]
Return(a)     == step' = [step EXCEPT ![a] = Idle]

\* The registry with p written at f; the cell before the first is none of the registry's.
Write(f, p) == [g \in Fds |-> IF g = f THEN p ELSE players[g]]

---------------------------------------------------------------------------
\* disconnect(p, reason), run by the actor a.

\* The loop has looked up the player it is going to disconnect.
lookup_player_by_fd ==
    /\ At(Main, "idle")
    /\ \E f \in Fds : players[f] # NoPlayer /\ step' = [step EXCEPT ![Main].at = "found", ![Main].p = players[f]]
    /\ UNCHANGED <<tables, world>>

\* The keepalive thread of a player finds that he has been silent for too long.
keepalive_timeout(p) ==
    /\ p \in watched /\ At(p, "idle")
    /\ step' = [step EXCEPT ![p].at = "found", ![p].p = p]
    /\ UNCHANGED <<tables, world>>

\* The descriptor is read: a player who has none is left alone.
read_fd(a) ==
    LET f == fd[step[a].p] IN
    /\ At(a, "found")
    /\ IF f < 0 THEN Return(a)
       ELSE step' = [step EXCEPT ![a].at = "validate", ![a].fd = f, ![a].life = socket[f].life]
    /\ UNCHANGED <<tables, world>>

\* Mutant: the socket is closed before the player is unregistered.
MutValidate(a) ==
    /\ At(a, "validate") /\ Goto(a, "unregister")
    /\ socket' = [socket EXCEPT ![step[a].fd].open = FALSE]
    /\ UNCHANGED <<tables, name, allocated, watched, halt>>

\* pman_handle_dc reads it again.
validate(a) ==
    /\ At(a, "validate")
    /\ Goto(a, IF fd[step[a].p] < 0 THEN "close" ELSE "unregister")
    /\ UNCHANGED <<tables, world>>

\* Mutant: the player stays registered.
MutUnregister(a) ==
    At(a, "unregister") /\ Goto(a, "search") /\ UNCHANGED <<tables, world>>

unregister(a) ==
    /\ At(a, "unregister") /\ Goto(a, "search")
    /\ players' = Write(fd[step[a].p], NoPlayer)
    /\ UNCHANGED <<dc_players, fd, world>>

\* Mutant: whether the slot is free is not asked.
MutSearch(a) ==
    /\ At(a, "search")
    /\ \E i \in Least(StoreSlots) : step' = [step EXCEPT ![a].at = "away", ![a].slot = i]
    /\ UNCHANGED <<tables, world>>

search(a) ==
    LET free == {i \in StoreSlots : dc_players[i] = NoPlayer} IN
    /\ At(a, "search")
    /\ \/ free = {} /\ Goto(a, "close")
       \/ \E i \in Least(free) : step' = [step EXCEPT ![a].at = "away", ![a].slot = i]
    /\ UNCHANGED <<tables, world>>

away(a) ==
    /\ At(a, "away") /\ Goto(a, "store")
    /\ fd' = [fd EXCEPT ![step[a].p] = -1]
    /\ UNCHANGED <<players, dc_players, world>>

store(a) ==
    /\ At(a, "store") /\ Goto(a, "close")
    /\ dc_players' = [dc_players EXCEPT ![step[a].slot] = step[a].p]
    /\ UNCHANGED <<players, fd, world>>

\* What is closed is the descriptor read at the beginning.
close(a) ==
    /\ At(a, "close") /\ Return(a)
    /\ socket' = [socket EXCEPT ![step[a].fd].open = FALSE]
    /\ UNCHANGED <<tables, name, allocated, watched, halt>>

disconnect(a) ==
    read_fd(a) \/ validate(a) \/ unregister(a) \/ search(a) \/ away(a) \/ store(a) \/ close(a)

---------------------------------------------------------------------------
\* The main thread: a new client, and a HELLO.

accept ==
    /\ At(Main, "idle") /\ allocated < MaxStructs
    /\ \E f \in Least({g \in Fds : ~socket[g].open}) :
         /\ socket' = [socket EXCEPT ![f] = [life |-> @.life + 1, open |-> TRUE]]
         /\ step' = [step EXCEPT ![Main].at = "accepted", ![Main].fd = f]
    /\ UNCHANGED <<tables, name, allocated, watched, halt>>

handle_new_player ==
    LET f == step[Main].fd
        p == allocated + 1
    IN  /\ At(Main, "accepted") /\ Return(Main)
        /\ IF players[f] # NoPlayer
           THEN halt' = TRUE /\ UNCHANGED <<tables, allocated>>
           ELSE /\ players' = Write(f, p) /\ fd' = [fd EXCEPT ![p] = f] /\ allocated' = p
                /\ UNCHANGED <<dc_players, halt>>
        /\ UNCHANGED <<name, socket, watched>>

\* The name is nobody's who is connected, and the answer can be sent.
p_hello ==
    /\ At(Main, "idle")
    /\ \E f \in Fds, n \in Names :
         LET p == players[f] IN
         /\ p # NoPlayer /\ name[p] = NewPlayer
         /\ \A g \in Fds : players[g] # NoPlayer => name[players[g]] # n
         /\ name' = [name EXCEPT ![p] = n]
         /\ step' = [step EXCEPT ![Main].at = "named", ![Main].p = p]
    /\ UNCHANGED <<tables, allocated, socket, watched, halt>>

\* The player of that name who went away is given the descriptor of the new one, ...
lookup_dc_player ==
    LET p     == step[Main].p
        found == {i \in StoreSlots : dc_players[i] # NoPlayer /\ name[dc_players[i]] = name[p]}
    IN  /\ At(Main, "named")
        /\ \/ found = {} /\ Goto(Main, "login") /\ UNCHANGED fd
           \/ \E i \in Least(found) :
                /\ fd' = [fd EXCEPT ![dc_players[i]] = fd[p]]
                /\ step' = [step EXCEPT ![Main].at = "replace", ![Main].p = dc_players[i], ![Main].slot = i]
        /\ UNCHANGED <<players, dc_players, world>>

\* ... then registered under it, ...
replace ==
    /\ At(Main, "replace") /\ Goto(Main, "take_out")
    /\ players' = Write(fd[step[Main].p], step[Main].p)
    /\ UNCHANGED <<dc_players, fd, world>>

\* ... and taken out of the store.
take_out ==
    /\ At(Main, "take_out") /\ Goto(Main, "login")
    /\ dc_players' = [dc_players EXCEPT ![step[Main].slot] = NoPlayer]
    /\ UNCHANGED <<players, fd, world>>

\* The player to watch is looked up through his descriptor.
start_keepalive ==
    /\ At(Main, "login") /\ Return(Main)
    /\ watched' = watched \cup ({players[f] : f \in {g \in Fds : g = fd[step[Main].p]}} \ {NoPlayer})
    /\ UNCHANGED <<tables, name, allocated, socket, halt>>

---------------------------------------------------------------------------
\* The code, and the history variables.

Code ==
    \/ lookup_player_by_fd
    \/ \E p \in Structs : keepalive_timeout(p)
    \/ \E a \in Actors : disconnect(a)
    \/ accept \/ handle_new_player
    \/ p_hello \/ lookup_dc_player \/ replace \/ take_out \/ start_keepalive

AtWork(a) == step[a].at \in {"validate", "unregister", "search", "away", "store", "close",
                             "named", "replace", "take_out"}
WorksOn(a, p) == AtWork(a) /\ step[a].p = p

Next ==
    /\ Code
    /\ contested' = contested \cup {p \in Structs :
          \E a, b \in Actors : a # b /\ WorksOn(a, p)' /\ WorksOn(b, p)'}
    /\ overlapped' = overlapped \cup {p \in Structs :
          \E a, b \in Actors : a # b /\ WorksOn(a, p)' /\ AtWork(b)'}
    /\ unstored' = unstored \cup
          {step[a].p : a \in {b \in Actors : step[b].at = "search" /\ step'[b].at = "close"}}

Spec == Init /\ [][Next]_vars

---------------------------------------------------------------------------
\* Bound: nobody has been worked on by two actors at once. What follows is not explored.
Uncontested == contested = {}

\* Nor has the store ever been full.
Undisturbed == Uncontested /\ unstored = {}

\* Connecting clients may come between any two statements of a disconnect: as long as no two
\* actors meet at one player, accept never returns a descriptor that is still registered.
ExitIsContested == Undisturbed => ~halt

\* What disconnect closes is the connection whose descriptor it has read, still open,
\* and not another that has been given the descriptor since (server.c:272 and 289).
ClosesItsOwn ==
    Undisturbed => \A a \in Actors :
       step[a].at = "close" => socket[step[a].fd] = [life |-> step[a].life, open |-> TRUE]

\* Nobody is registered under a descriptor that is closed, also in the middle of a
\* disconnect or of a return.
RegisteredIsOpen ==
    Undisturbed => \A f \in Fds : players[f] # NoPlayer => socket[f].open

\* The registered player carries the descriptor he is registered under, also in the middle of
\* a return, where both are changed while threads disconnect others; but between the
\* statements of his own disconnect.
RegistryAgrees ==
    Undisturbed => \A f \in Fds : players[f] # NoPlayer => fd[players[f]] = f

\* Who has been left without a descriptor is in the store when he comes back. Disconnects of
\* different players are enough to break this, when they find the same slot.
AwayIsStored ==
    Undisturbed => \A p \in 1 .. allocated :
       fd[p] = -1 /\ (\A a \in Actors : ~WorksOn(a, p)) =>
          p \in overlapped \/ \E i \in StoreSlots : dc_players[i] = p

\* server.c:238: "An FD with ID %d is already registered, this should not happen!".
NeverRegisteredTwice == ~halt
=============================================================================
