# A TLA+ model of the chess server

The repository is a chess server for two-player games over TCP, in C. One thread
runs a `select` loop that accepts clients, reads their packets and calls a
handler for each; one more thread per logged-in player watches that player's
keepalive packets. A player logs in with a name, queues for an opponent, plays,
may lose the connection, and gets the game back by logging in again under the
same name.

This directory models that server in four parts: its sessions (connections, players, the
queue, the table of games), the loop that turns what clients send into packets, the
disconnections that threads and the loop run at the same time, and the chess of one game. The models
are checked with TLC on small instances, and most of what is checked is proved with TLAPS for every
instance. Paths below are relative to the repository's root (`src/` and `include/`).

## Inventory

| Component | Source | State | Operations |
|---|---|---|---|
| Server loop | `server.c` | `client_socks`, `tests`, the local `player`, `a2read`, the buffer being handled | `start_listening`, `handle_new_client`, `disconnect` |
| Player registry | `player_mngr.c` | `players` (by descriptor), `dc_players` (who went away), `struct player` | `handle_new_player`, `create_player`, lookups, `change_player_name`, `change_state`, `pman_handle_dc`, `lookup_dc_player` |
| Keepalive threads | `player_mngr.c` | per thread: `p`, `last_ka`, `short_term_disconnected`; shared: `last_keepalive`, `started_keepalive` | `start_keepalive`, `keepalive` |
| Queue | `queue_mngr.c` | `queue_key` (names), `queue` (flags) | `find_player_in_queue`, `add_to_queue`, `remove_from_queue`, `qman_handle_dc` |
| Table of games | `game_mngr.c` | `games`, `free_game_index` | `game_create`, `add_game`, `finish_game`, `lookup_game`, `reconnect_to_game`, `gman_handle_dc` |
| Packet handlers | `packet.c`, `packet_handler.c` | none of their own | `p_hello`, `p_queue`, `p_leave_queue`, `p_movepc`, `p_offdraw`, `p_resign`, `p_message`, `p_keepalive` |
| Packet registry | `packet_registry.c` | the handlers of each player state | `init_preg`, the lookup, `send_packet` |
| Packet framing | `packet_validator.c` | the header and data received so far, by descriptor | `parse_packet`, `validate_header`, `free_buffers` |
| Chess rules | `game_mngr.c`, `chesspiece.c` | board, side to move, castling rights, en passant square, move counters | `move` and its handlers, `move_piece`, `is_in_check`, `is_mate`, `generate_fen` |
| Options | `main.c` | `args` | option parsing |

How they interact. The loop calls `parse_packet`, then the handler; handlers call
the queue, the table of games, the registry and `send_packet`, whose result they
check. `disconnect` is called by the loop (end of file, too many invalid packets)
and by the keepalive threads (no keepalive for 20 s, then 60 s), and calls
`gman_handle_dc`, `qman_handle_dc` and `pman_handle_dc` in this order. Everything
is shared by all threads without a lock.

What is hard. Keepalive threads act between any two steps of the loop and find
their player again through its descriptor, which the kernel reuses; a returning
player's struct replaces the one the new connection was given, while the
loop, or a thread, may hold the old one; several packets may come in one `recv`;
the send of a game-start packet to one of two players may fail; tables are
indexed by descriptor, by name and by slot, each with a limit of its own. The
chess handlers judge a move and change the castling rights and the en passant square in
one go, and the searches for checks and mates call them on the live game.

What makes each part correct:

- registry: a connected player is registered under the descriptor it carries, a
  stored one carries none, no two connected players share a name; below the limit,
  an open socket, a selected one and a registered one are the same;
- queue: at most one player waits; who waits is connected and in state `QUEUE`;
- games: no player is in two games or plays itself; both players of a game are in
  `PLAY` and are either connected or find their way back; the free index is a
  free slot;
- sessions: who returns to an unfinished game gets exactly it; a client was last told
  what the server believes; a game whose watched player has gone ends;
- disconnections: between any two statements of a disconnection or a return nobody is registered under a
  closed descriptor, the connection closed at the end is the one read at the beginning, and
  the player is in the store before he can come back;
- framing: the packets of a client are handled in order, whole and once each, however the
  stream was cut into reads, as long as no bytes of another get among his; each is handled in the end;
- rules: a move is accepted if and only if the rules of chess allow it, mate is mate,
  a refused move leaves the board as it was, and both clients see the server's board.

`PROJECT.json` lists the hazards at their lines with the properties that cover them.

## Modules

| Module | What it is |
|---|---|
| `ChessServer` | the detailed specification of the sessions: all state, one action per handler, thread iteration and event of a client or the clock; its properties |
| `Lobby` | the abstract specification of queue and games: players wait alone, are paired, play one game at a time |
| `ServerRefinesLobby` | the refinement mapping from `ChessServer` to `Lobby` |
| `ChessRules` | the handlers of `chesspiece.c`, `is_in_check` and `is_mate`, as operators that return what they leave behind |
| `ChessGame` | one game: `move_piece` under `p_movepc`, the board of the clients, the FEN text; beside it the rules of chess, written apart from the code to judge it by |
| `SelectLoop` | `start_listening` in its small steps, `parse_packet` with its buffers, and the steps of threads that disconnect clients between any two of these |
| `PacketStream` | the abstract specification of a connection: packets are handled in order, whole, once, and none is passed over but behind a line end |
| `DisconnectRace` | `disconnect` and `pman_handle_dc`, `accept`, `p_hello` and `lookup_dc_player` statement by statement, run by the main thread and by the thread of each player at once |
| `MCServer`, `MCLoop`, `MCRace`, `MCChess` | values, bounds and positions for TLC |
| `ChessServerProofs` | types, registry, names, sockets, the buffers, the free slot, the one who waits: theorems of `ChessServer` |
| `SessionProofs` | flags of the queue, games and their players, who finds his way back: theorems of `ChessServer` |
| `ViewProofs` | what clients are told: theorems of `ChessServer` |
| `RefinementProofs` | `ChessServer` implements `Lobby` |
| `LobbyProofs` | the invariant of `Lobby` |
| `LoopProofs` | types, bytes, charges, and `SelectLoop` implements `PacketStream` |
| `DisconnectRaceProofs` | registry, sockets, descriptors and the store between the statements: theorems of `DisconnectRace` |
| `ChessProofs` | the code's chess against the rules of chess: theorems of `ChessGame` |

### ChessServer and the code

A step is a whole handler (with the `send_packet` results that decide its path), one
iteration of a keepalive thread, one `handle_new_client`, one event of a
client, or one tick of the clock. Handlers of the main thread and iterations of the
threads interleave freely between steps. A `disconnect` is one step here, so what `ChessServer` shows is about the
states between whole handlers and whole disconnections. What happens in the middle of one is in the other two models:
between the statements of several disconnections, a return and an accept in `DisconnectRace` (where the
`exit(0)` of `handle_new_client` is reached), and between the steps of the loop in `SelectLoop`.

| Model | Code |
|---|---|
| `handle_new_client` | `server.c` `handle_new_client`, `player_mngr.c` `handle_new_player`, `create_player` |
| `read_packet(f)`, `read_next_packet`, `buffer_rest` | the body of the loop for a readable client; the `HANDLE_PACKET` label with a packet, or with an incomplete one, left in the buffer |
| `invalid_data` | the label `_inv_data` and what follows, in the build without `SERVER_DEBUG_MODE` |
| `read_eof(f)` | `a2read <= 0` |
| `HandlePacket(p)` with `p_hello` ... `p_keepalive` | `packet_handler.c` and the handlers of `packet.c` |
| `add_to_queue`, `look_for_opponent`, `game_create` | `queue_mngr.c` and `game_mngr.c` |
| `disconnect` with `Informed`, `RemovedFromQueue`, `pman_handle_dc` | `server.c` `disconnect` and the three functions it calls |
| `keepalive_start(t)`, `keepalive_loop(t)` | the two parts of `keepalive` |
| `peer_closes(f)`, `tick` | the environment |

Choices a reader should know of:

- **Structs.** `struct player` are never freed, so they are numbered in the order of
  allocation; `fd`, `ps`, `name`, ... map each to its field. `fd[p] = -1` is a player
  who went away.
- **`player`** is the local variable of the loop. `lookup_player_by_fd` leaves it alone
  when it finds nobody, so `Owner(f)` may be the player of an earlier descriptor.
- **Sockets.** A socket is `up`, `eof` (the peer has closed, its reset has not arrived:
  sends still succeed), `reset` (sends fail) or `closed`. `Fails` and `Reaches` overlap
  on `eof`, so both outcomes are explored. A send that fails on `eof` makes it `reset`.
- **view** is not state of the server: it is what the peer of a socket was last told it
  is in (`LOGGED_IN`, queued, in a game, in a game without the opponent). It lets
  properties compare what clients believe with what the server holds.
- **Time** passes in units of 20 s, the short timeout; ages are capped at 3, the long
  one. A thread may see an age late, as a sleeping or starved thread would. `tick` ages
  the players whose keepalive has started, the only ones whose age is read.
- **The queue.** `find_player_in_queue` returns -1 when no key is free; the code then
  uses `queue[-1]` and `queue_key[-1]`. These cells lie in the heap's bookkeeping before
  the arrays: with the 64-bit glibc the flag read there is 0 at first, and what is written
  stays there, so the model has a cell `queue[-1]`. The key written there is never
  compared with a name and is not kept.
- **Buffers.** `parse_packet` indexes its arrays with the player's descriptor; -1 ends the
  process in the model (`halt = "segv"`).
- **A move** is invalid, accepted, or ends the game; the board is in `ChessGame`, so here any of
  these is possible for any move.
- **Packets** arrive whole: `SelectLoop` is about how. `Pipelined` says whether one read may hold
  several.

### SelectLoop, PacketStream and the code

| Model | Code |
|---|---|
| `copy`, `select`, `select_returns` | `server.c:102-112`: the copy of `client_socks`, the `select` that fails if a descriptor of it is closed by then, and what it leaves in `tests`; descriptors are served from the lowest |
| `handle_new_client` | `accept`, which returns the least free descriptor |
| `no_player`, `client_gone`, `recv` | `server.c:124-151` with the lookup and `FIONREAD` that keep the old `player` and `a2read` when they fail |
| `parse`, `parse_packet`, `handle_packet`, `inv_data`, `go_on`, `goto_dc`, `return` | the label `HANDLE_PACKET` and what follows it, and `packet_validator.c` |
| `parse_mixed` | the same when the buffers may hold the bytes of two clients |
| `parse_gone` | `parse_packet` for a player whose descriptor is -1: an index before the arrays ends the process |
| `disconnect` | `server.c` `disconnect` by the loop |
| `keepalive_timeout(f)`, `unregister(f)`, `store(f)`, `close_socket(f)` | `disconnect` by a thread: `server.c:272-279`, `player_mngr.c:268`, `283-289`, `server.c:286-291` |
| `connect`, `send`, `hang_up` | the clients |

`leaving[f]` says how far a thread is with the disconnect of `f`. Three things follow from the loop's going on meanwhile:

- What the loop reads from `f` after its buffers were freed stays in them when the socket is closed, and the next client of the
  descriptor begins with it.
- `f` is still open, and may still be in the copy of the descriptors, when its player is not registered any more:
  what is read from it goes to the player served before, who is also the one charged.
- A descriptor of the copy may be closed when `select` is called. `select` then fails, `start_listening` returns, and the
  server ends (`pc = "ended"`).

`mixed` is the set of descriptors whose buffers may hold such bytes. What is put together from the bytes of two clients may be any packet
or none, so for these `parse_mixed` takes any part of the text, handles it or refuses it, and leaves the buffers as they are: what they hold is not
followed. `Promised(f)` names the clients the properties are about: no thread has begun to disconnect him, and he is not in `mixed`.

A return registers another struct under the descriptor, and the loop goes on with the old one and its
`invalid_sends`: `replaced` holds them until the next lookup. When that struct is then disconnected, or a thread and the
loop disconnect one client, the execution ends as `contested`: two structs, or two actors, share the descriptor, and
`DisconnectRace` has what comes of that.

Bytes are pairs of a packet's number and a position, so that a buffer shows whose bytes it
holds. A header is valid when its bytes are those of one packet's header and that packet was
sent with a right one: a text put together from two packets is never a header, which
errs towards refusing (the ten bytes of a header contain its magic word only at the start). `a2read` is kept
as whether it is above 0, since `recv` may return any part of what was sent. A line end in what was
read cuts off the rest of that read, as `strcspn` does. Which handler a packet has is
left out: it takes the packet well, or answers with one of the codes that count
against the client or disconnect him.

`SelectLoop` implements `PacketStream` (`Stream` is the `INSTANCE ... WITH` of it): `queue` is what a promised client
sent after the last packet handled, `log` the packets handled, with their payloads compared to those
sent. The stream of a client ends (`Close`) when he is disconnected, when a thread begins to, or when he gets into `mixed`. What a stream of wrong headers and line ends may do is in `Handle`; clean streams have
the stronger `NothingLost`, which accounts for every byte.

### DisconnectRace and the code

An actor is the main thread or the thread of a player; `step[a]` says at which statement it is
(`at`) and holds its local variables: the player, the descriptor it has read, the index it has found.

| Model | Code |
|---|---|
| `lookup_player_by_fd`, `keepalive_timeout` | the loop and a keepalive thread about to call `disconnect` |
| `read_fd`, `validate`, `unregister`, `search`, `away`, `store`, `close` | `server.c:272`, `player_mngr.c:266`, `268`, `283-285`, `287`, `289`, `server.c:286-289` |
| `accept`, `handle_new_player` | `handle_new_client` up to and after the return of `accept`, which returns the least free descriptor |
| `p_hello`, `lookup_dc_player`, `replace`, `take_out`, `start_keepalive` | a login whose answer is sent, and the return of a player: `packet.c:45-46`, `player_mngr.c:71-82` |

`socket[f].life` counts how often a descriptor has been opened, which tells a connection from the next
on the same descriptor. The search for a free place in `dc_players` is one step, and its result is used
in a later one. Left to `ChessServer`: queue and games, threads that start late or go over to another
player, names refused, answers that cannot be sent. Here a thread watches the player found at his login from then on.

Without a lock nothing holds when two actors work on one player, or when the
store is full (the player left out keeps his descriptor). What the model asks is whether that is all
that can go wrong, and three history variables say when it does: `contested` are the players two
actors have been at work on at once, `unstored` those who found no place, `overlapped` those worked on while
another actor worked on anybody. `ExitIsContested`, `ClosesItsOwn`, `RegisteredIsOpen` and
`RegistryAgrees` hold until the first player is contested or unstored, however the disconnections of different
players, the accepts and the returns interleave; this rests on the order of the
statements, the slot emptied before the descriptor is closed. `AwayIsStored` needs that the player was not overlapped either: two
disconnections of different players may find the same free place. `claim_registered` shows what happens otherwise.

### ChessRules, ChessGame and the code

| Model | Code |
|---|---|
| `handle_simple_piece` | `gen_pos_moves` and `is_pos_move`: a square reached in one of the directions of the mask past empty squares |
| `pawn_handle`, ..., `king_handle`, `move` | the handlers; each returns its verdict with `castles` and `lm` as it leaves them |
| `is_in_check`, `is_mate` with `Try` | the searches of `game_mngr.c`, in the order of their loops, with what they leave in `castles`, `lm` and, once a king is lost, the board |
| `refuse_player`, `refuse_move`, `refuse_kingless`, `refuse_check`, `accept`, `off_board` | the ways out of `move_piece`, in their order |
| `Packets`, `tell` | the packets of `p_movepc`, in their order, up to the first whose send fails, and the end of a mate that was told (`packet.c:147-180`) |
| `Told`, `SeenAfter` | these packets, applied to the board of a client (`seen`) |
| `reconnect_to_game` | the position sent to a player who has logged in again |
| `RowText`, `generate_fen` | `generate_fen`; the text of a rank is a sequence of pieces and digits |

A square is `rank * 8 + file`, as in `SQUARE_TO_INT`; `NoSquare` is the pair of `(unsigned) -1`.
`Between`, `Attacks`, `InCheck`, `Plain` and `CanEscape` state the rules of chess without promotion,
castling and en passant, from their geometry and not from the code; the properties compare the two.
`phase = "segv"` is a write to the rank below the first. `seen[c] = NoBoard` says that the player `c` cannot be reached: the first send
to him that fails ends `p_movepc`, whose later packets go to nobody, and so do all sends after it until he returns. A mate of
which a packet fails does not finish the game: the same side is to move, on the board with the move on it.

### Bounds

`FirstFd = 4` is the descriptor of the first client on Linux (0-2, and the listener).
`LastFd` bounds how many sockets are open at once and `MaxStructs` how many connections
there ever are. Two descriptors and three structs are enough for a player to leave, return
and meet another while a third connection takes over a descriptor; the runs that need
more (a full store, a full table of games) have six structs. Names are interchangeable, which
`Symmetry` uses: no property tells one name from another. The liveness runs do without it.
`MaxInval` is 1 or 2, `NumThreads` is 1 where threads matter: the thread of one player is
enough to act for a wrong one.

`framing` has two descriptors and two connections, so that a descriptor changes hands, or the bytes of one client are taken for
the other's, and two packets of four kinds (clean with a payload, one that is taken badly and ends its line, one with a
wrong header, a `HELLO` that brings a player back), headers of two bytes, so that a header and a payload can both be cut, and two
invalid packets as the limit, so that one is survived. The header's ten bytes in the code differ from two by
more places to cut, none of which is treated differently. `OneLeaves` lets one thread disconnect at a time, beside the loop; the theorems have
no such bound.

`races` has three players with a thread each and the main thread, three descriptors, two names (so that there is
a return) and two places in the store (so that it may be full). It stops at the first contested player
(`Uncontested`), beyond which its properties say nothing.

`chess` starts from nine positions with few pieces, each of which a game reaches by captures and
quiet moves, and follows them to `FullmoveLimit`, for two to four half-moves with every move of
every piece: castling on both sides with and without the rook, double steps with en
passant of both colours, a back rank and a corner in which a mate, an escape by a capture and an
escape by a block occur, a king on the square of the other side's rook (`KingBeside`), and a check answered only by a step to
a square that a pawn passes (`Passing`). `OneMissing` follows a game until both players cannot be reached or one
has another board than the server, `FirstMove` follows a mate that was not told only if it was the first move. `claim_en_passant` starts from the beginning of a game.

State constraints keep the larger runs small, but for `LoginsAnswered` of `timeouts`, without which `AwayCanReturn`
is false (see below): `TwoLogIn` (a third client connects once two players have taken their
names, so that there can be a game for its descriptor to meddle with), `OwnNames` (connection p uses name p),
`GamesPileUp` (moreover, nobody sends invalid data, and players leave only games still
played) and `FewInvalid` (`invalid_sends` stays within `MaxInval`: a player dropped from a full store keeps his
descriptor and his count, and the loop may go on serving a client above the limit as him).

## Runs

| Run | Question | Bound |
|---|---|---|
| `sessions` | names, queue, games, returns and who is told of them, with every kind of packet; refines `Lobby` | 2 descriptors, 3 structs, limit 10: `gman_handle_dc` tells of the leaving of descriptor 4 and not of 5 |
| `timeouts` | registry, games and the way back with a keepalive thread that may start late and meet a reused descriptor | 2 descriptors, 3 structs, 1 thread, `TwoLogIn` |
| `pipelined` | several packets in one read, handled for one `player`, without threads | 2 descriptors, 3 structs |
| `crowd` | sockets and registry with a client above the limit, served as somebody else; no room left in `dc_players` | 6 structs, limit 5: room for 1 client and 5 who left |
| `table_full` | the table of games fills and empties, several games at once; refines `Lobby` | 6 structs, 3 games, `GamesPileUp` |
| `liveness` | an abandoned game ends | 2 structs, 1 thread, fairness |
| `framing` | streams cut into reads, descriptors that change hands, the steps of a thread's disconnection between those of the loop; refines `PacketStream`; everybody is served | 2 descriptors, 2 connections, 2 packets, `OneLeaves` |
| `races` | the statements of several disconnections, of accepts and returns in any order | 3 descriptors, 3 structs, 4 actors, `Uncontested` |
| `chess` | moves, checks, mates, castling, the clients' boards and the FEN rows, by the rules of chess | 9 late positions, moves up to the 40th, `OneMissing`, `FirstMove` |

`chess`, `framing` and `races` do not check for deadlock: a game ends, the loop waits in `select` once the bounded clients are through, and no client connects after `MaxStructs`. `crowd` does not either: there the process really may stop, when the loop
handles a packet of an unregistered client for a player who has left (`halt = "segv"`).

A property that is proved for every instance is run where a mistake would show first: the registry with threads, the sockets with
a client above the limit, the free slot with several games. The players of `Lobby` are the structs of the
server: one who returns gets the struct he left with, so a return is no step of the lobby, and a timeout or a
disconnection is giving up, finishing, or none. Names would not do: two players of one name, of
whom one is away, make the lobby of names do what `Lobby` forbids (five structs show it).
The mapping needs room in `queue_key` for every name and in `dc_players`, which the two runs have.

### Fairness

`FairSpec` assumes weak fairness of the clock, of each keepalive thread (they are
preemptive threads that sleep half a second) and of the loop while it handles a buffer
(nothing can block it there). It assumes strong fairness of `read_eof(f)`: the loop visits
every readable descriptor in each round, a peer that has closed sends no more, and so the
loop gets to the end of its data, whatever else it serves. No fairness is assumed of clients.

`SelectLoop` assumes weak fairness of `Loop`, since the main thread runs on whenever it has a step to
take, and of `leave(f)`, since a thread that has begun to disconnect a client has only statements and sends left until the
`close`, and sends are taken not to block. `EveryClientServed` (nothing is owed, again and again, or the program has ended) follows from how the loop
visits descriptors. Nothing is assumed of clients, nor that a thread ever begins.

## Where the code and its comments disagree

Each is a run of its own (`claim_*`) in which TLC finds a behaviour of the model that breaks
what a comment, a header or an option text says; `PROJECT.json` quotes both.

| Run | What happens |
|---|---|
| `claim_playing` | once the table has been full, `free_game_index` stays -1: later matches are `PLAY` without a game |
| `claim_en_passant` | any pawn may go to the square behind the last double step, from anywhere, and the square cleared is the one below it for both colours |
| `claim_registered` | two actors are at work on one player: the descriptor that `disconnect` has read is closed while he, or somebody else, is registered under it, `accept` returns it again, and the server exits with "this should not happen" |

Others the models show, without a run of their own.

Sessions: a match that fails for its second player leaves the first in `QUEUE`, in no queue, and told that the
game has started (`queue_mngr.c:148`); `gman_handle_dc` compares a descriptor with the number of games,
so it is silent about most who leave (`OpponentTold` is about the rest); keys of players who left
use up `queue_key`, and the next name gets index -1; invalid data in the buffer of a returning player's
login disconnects the struct the connection had before, and with it the socket of the one who returned
(`server.c:213`); clients at or above the limit are selected on without
a player, although `server.c:125` says the lookup should not fail; the limit counts
descriptors, not players as `main.c:23` says; `disconnect` expects a send to fail
(`server.c:281`) that may succeed and take the player out of `QUEUE`; a keepalive packet is handled before login,
against `packet_registry.c:30`; a keepalive thread goes over to the player who took the descriptor
(`player_mngr.c:142`); a thread that first runs after its player has left finds nobody and ends
(`player_mngr.c:125`), so that his game waits for ever, against `player_mngr.c:146`: `AbandonedGameEnds` is
about players whom a thread watches. When the answer to a `HELLO` cannot be sent (`packet.c:33-43`), the player goes to
`dc_players` with his name and in state `JUST_CONNECTED`; if he lies in a lower slot than the player of that
name who is away from a game, every later login under the name finds him first (`player_mngr.c:71-82`) and the
game is lost to its player. Four structs show it, so `AwayCanReturn` is about runs with `LoginsAnswered`.

Overlapping disconnections: two that find the same place in `dc_players` lose one player for good
(`player_mngr.c:285-289`); a player for whom there is no place keeps his descriptor, so
a later timeout of his disconnects, and closes, whoever has it then.

The loop: a keepalive thread may disconnect the player between two packets of one buffer, and the loop then
indexes the packet buffers with -1 (`packet_validator.c:117`, before the check of `packet_handler.c:14`):
the constants of `pipelined` with one thread more break `NeverHalts` in seven states, and `framing` reaches
the same as `parse_gone`. `pipelined` has no
thread, so what it shows of `NeverHalts` is about the main thread alone. A line end drops whatever else
the same `recv` returned, so the packets lost depend on the network (`server.c:151`). A wrong
header stays in its buffer and condemns all that follows. A descriptor that a thread closes after `select` has reported it,
and that is given to a new client in the same round, has nothing to read, and the new client is disconnected
for it (`server.c:137`). A disconnection by a thread frees the buffers first and closes the descriptor last: what the
client sends in between is the beginning of the next client's stream (`server.c:279`), or is taken for that of the player
served before (`server.c:124`, once `player_mngr.c:268` has emptied the slot), who is then charged for it; and a
descriptor closed between `server.c:104` and `106` makes `select` fail, which ends the server (`server.c:107-110`).

Chess: a refused move of the king costs its rights all the same (`prev_castles` of `move_piece` is never
used), and a refused pawn move may leave another `lm`; `lm` stays when another piece moves; both ways of
castling ask for the queen's side right and none for the rook, nor whether the king passes an
attacked square; a pawn that has been taken en passant is told of
by `lm` as the search for a mate has left it (`packet.c:158`); castling and en passant that mate are
told as plain moves; with the opponent away a player who takes en passant is told of the pawn and not of his own move, whose
packet comes after one to the opponent (`packet.c:159-162`), and a mate is not finished (`packet.c:167-176`): the
side that has given it is to move again; en passant can take a king off the board, after which moves are refused but
stay made, or write below the first rank; a pawn on the last rank stays a pawn; the half-move clock
is always 0, against `game_mngr.h:82`, because the square a piece has moved to is not empty
(`game_mngr.c:510`). `is_mate` puts back the pointer `lm` after each try and not the square it points to
(`game_mngr.c:591-594`, under the comment "store the last move before moving the piece as it gets modified"):
what a tried pawn has passed stays in `lm`, any pawn is then taken to attack it, and a king's escape onto it counts as none;
the position `Passing` ends in a mate that is none. A king on `lm` counts as attacked by every opposing pawn. Castling moves
whatever stands on the rook's square, the opponent's king too: it comes to stand beside the castled king, and the
check is asked of the square it has left (position `KingBeside`). The properties of `chess` name the exceptions they make for these.

## Proofs

Every theorem below is about every value of the constants that satisfies the assumptions of its model
(`LimitAssumption`, `BoundAssumption`, `NameAssumption`, `PipelinedAssumption`; `RaceAssumption`;
`LoopAssumption`; `FullmoveAssumption`, `PositionAssumption`), with the hypotheses its table names.

### Sessions

| Theorem | Property | Hypotheses |
|---|---|---|
| `TypeCorrect` | `TypeOK` | |
| `RegistryCorrect` | `RegistryOK` | |
| `NamesCorrect` | `NamesUnique` | |
| `SocketsCorrect` | `SocketsOK` | |
| `FreeSlotCorrect` | `FreeSlotIsFree` | |
| `WaitingCorrect` | `AtMostOneWaiting` | |
| `OpponentToldCorrect` | `OpponentTold` | |
| `NeverHaltsCorrect` | `NeverHalts` | descriptors below the limit; one packet to a read, or no threads |
| `FlaggedIsWaitingCorrect` | `FlaggedIsWaiting` | `Regular`, `QueueRoom` |
| `ReturnResumesGameCorrect` | `ReturnResumesGame` | `Regular`, `QueueRoom` |
| `GamesCorrect` | `GamesOK` | `Regular`, `QueueRoom`, `StoreRoom` |
| `ClientAgreesCorrect` | `ClientAgrees` | `Regular`, `QueueRoom`, `StoreRoom` |
| `AloneMeansAwayCorrect` | `AloneMeansAway` | `Regular`, `QueueRoom`, `StoreRoom` |
| `ServerImplementsLobby` | `LobbySpec` | `Regular`, `QueueRoom`, `StoreRoom` |
| `AwayCanReturnCorrect` | `AwayCanReturn` | `Regular`, `QueueRoom`, `StoreRoom`, `LoginsAnswered` |
| `RoomWithFewClients` | `QueueRoom` and `StoreRoom` | `Regular`, fewer clients than slots, no more names than keys |

`Regular` is about the constants: a read holds one packet and every descriptor is below the limit. Beyond it the
code does otherwise than these properties say (the section above has what happens to a pipelined login, and a
client above the limit is served as somebody else). `QueueRoom` (`find_player_in_queue` finds an index for every name)
and `StoreRoom` (`dc_players` has a free slot) are conditions on a run: `Spec /\ []QueueRoom => []P`. They are
not asked of the code, which goes on with the index -1, or leaves the player who goes registered nowhere, when its
tables are full; they say how far the properties reach. `RoomWithFewClients` shows that they hold of every run in which
the server has had fewer clients than slots, so that `FlaggedIsWaitingWithFewNames` and
`ServerImplementsLobbyWithFewClients` have no condition on the run left. `LoginsAnswered` leaves out the run described above.

*Types.* `TypeOK` alone is not inductive: while a buffer is handled `player` must be a
struct, and a thread in its loop must watch one. `TypeInv` adds these two. That a table with a
free slot has a least one (`LeastExists`, so that searches succeed exactly when they should) comes
from well-foundedness of the naturals.

*Registry.* `RegInv` is `TypeInv` and `RegOK`, which joins the three properties because each
step needs the others:
`SocketsOK` gives `handle_new_client` a descriptor nobody is registered under, between whole handlers
(in the middle of a disconnection it may not be so, as `claim_registered` shows); `RegistryOK` says that a slot is that of its player's descriptor, so that
emptying the slot of a descriptor unregisters one player and no other; and
returning under a name needs both `NamesUnique` and that a stored player has no descriptor. It
is strengthened by `RegistryAllocated` (no struct beyond `allocated` is in a table or has a
descriptor: the next struct is really new), `ServedAllocated` and `WatchedAllocated` (neither the loop
nor a thread holds a struct beyond `allocated`). One lemma per action shows that it keeps
`RegInv`; handlers that leave the registry alone share `QuietHandler`.

*The buffers.* `BufferServed`: the player whose buffer is being parsed has a descriptor. Without threads only the
loop disconnects, and `HandlerReturns` and `HandlerKeepsFd` show that no handler leaves whom it serves without one.

*The free slot.* `FreeInv` is `TypeInv` and `FreeSlotIsFree`. Every step is `game_create` or satisfies
`GamesOnlyEnd`: it leaves the free index alone and changes games only to none.

*The one who waits.* `WaitInv` is `TypeInv` and `AtMostOneWaiting`. Every step clears flags at most
(`FlagsOnlyClear`), but for the search of an opponent: it sets the player's flag for good only when no
flagged player can be found, that is when it has cleared all the other flags (`LeastExists` again: the search
finds someone if there is someone).

*Flags, games, returns.* That a flag is that of somebody in `QUEUE` and that the players of a game are in `PLAY`
need each other: a match takes the two out of the queue into a game, and would take a
player out of a game if a flag were his. `MatchInv` joins to `RegInv` that keys are distinct (`KeysDistinct`), that flags
belong to waiting players, that whoever logged in has a name, and that games share no player and have theirs in `PLAY`
(`GamesApart`). `KeptInv` adds that every player of a game is registered or stored, and that a struct which is neither
but has a descriptor was replaced at a login. `NamesHeldOnce` (a name has one holder whose login was answered, registered or
stored) gives the return its player. Each has a lemma per action.

*What clients are told.* `Agreement` is `ClientAgrees` for every slot of the table: what a client was last told
fits the state of the player registered under its descriptor. It needs `KeptInv` for who that player is, above all at a
return, when the struct under the descriptor changes, and at a match, where the flag found is that of the
player told. `Alone` says of a client who believes its opponent away that the opponent's descriptor is not that of an
open socket; `FdsOnly` that a descriptor is one of `Fds` or -1. `ViewOpen` (a descriptor has been told nothing exactly when
it is closed) is what `ReturnResumesGame` needs besides `MatchInv`.

*The refinement.* By `WaitingPlayers` the image of `waiting` is the set of structs with a set flag, of which there is at most
one. `LobbyServed` is `KeptInv`, `AtMostOneWaiting` and `FreeSlotIsFree`. Each action maps to one step of `Lobby`
or to a stutter: `add_to_queue` is `Join` or `Pair`, `GiveUp` when the match fails, when no slot for the game is left or when
somebody leaves the queue; disconnections and ends of games are `GiveUp` or `Finish`. That a
step which empties a slot of `games` takes one game out of `playing`, and no other, is `GamesApart`.

`LobbyCorrect` proves `LobbyOK` of `Lobby` for every set of players; with the refinement it carries over to the server.

### The loop

| Theorem | Property |
|---|---|
| `LoopTypeCorrect` | `TypeOK` |
| `NothingLostCorrect` | `NothingLost` |
| `InnocentCorrect` | `InnocentNotCharged` |
| `StreamCorrect` | `StreamSpec`: the loop implements `PacketStream` |

`LoopInv` holds for any number of descriptors, connections and packets, any length of headers and payloads, any limit, and any number of threads
in the middle of a disconnection. The last three properties are about the clients of `Promised`, as above.
`ConnOK(f)` accounts for the bytes of one connection: for a clean stream of a promised client, what is in the header buffer, in the payload
buffer, in the text being parsed (if it is of this descriptor) and in the socket, in this order, is what `Pending` says is left of the
packets after the last one handled; the header buffer is a beginning of that packet's header, and
a payload is begun only when the header is whole. Lemmas on concatenation (`Cat`) and on `Pending` carry it over each `recv`, each cut, and each packet taken.
That a clean client is never charged is read off it: what `validate_header` gets is a header of the stream, whole.

What most steps do, those of a thread among them, is in `Settles`: every connection is left as it was (`Same`) or had no promise and
still has none (`Idle`), but one may also lose it (`Lost`) or begin anew with empty buffers and an empty stream (`Fresh`). After
`close_socket` a descriptor is `Fresh` if its buffers were empty and the loop was not working on a text of it, and in `mixed` if not. There is a lemma for each step
(`keepalive_timeoutSettles`, `close_socketSettles`, `client_goneSettles`, ...), and `NextIs` says that every step settles, sends, reads or parses.

`StreamCorrect` needs more: `LoopInv` says nothing of the bytes of a client who has sent a wrong header, a packet that is
answered as invalid, or a line end. `StreamInv` adds, for every promised client, `StreamIs`: what has been begun is either

- `Strayed`: it begins within a packet or with a wrong header. Then no header is valid until the limit disconnects the client, so nothing
  is handed on out of place;
- `InStep`: buffers and text are the beginning of what is pending after the `m`-th packet, all of it or up to a line end (`Unread`),
  and `m` is the last packet handled unless that one had a line end behind it (`Skips`);
- `Past`: the last packet handled had a line end behind it that has cut, or will cut, the text. The next `recv`
  begins anywhere after it, so it strays, or falls in step with a later packet.

`HandledIs` says that the entries of `handled` are packets of the stream with their own payloads; that they come in order is in the steps.
`NextStream` shows that each action keeps `StreamInv` and does one of four things to `sent` and `handled` (`Moves`): nothing,
a close, one packet sent, one packet handled (steps that settle are a close or nothing, `SettledStream`); `MovesRefine` maps these to the steps of `PacketStream`.

### Disconnections

| Theorem | Property |
|---|---|
| `ExitCorrect` | `ExitIsContested` |
| `ClosesItsOwnCorrect` | `ClosesItsOwn` |
| `RegisteredIsOpenCorrect` | `RegisteredIsOpen` |
| `RegistryAgreesCorrect` | `RegistryAgrees` |
| `AwayIsStoredCorrect` | `AwayIsStored` |

They hold for any number of players, descriptors, names and places in the store. `RaceInv` is `RaceTypeOK` and, as long as nothing has been contested or unstored, that no two actors are at
work on one player (`NoMeeting`) and `Core`. `ActorOK(a)` says what the actor `a` may count on at its
statement: before `unregister` the player is registered under the descriptor read; after it the slot is empty
and the socket still open, so that `accept` cannot return the descriptor before the `close`; while a player
returns, his new slot is that of the struct he replaces, whom no thread watches yet. `HoldersDiffer` (two actors
never hold one descriptor) is what makes the disconnections of different players commute; `StoreOK`, `ReachableOK`
and `NewUnused` give each entry into a disconnection, a return or a new connection its premises. `ActorFrame` says which changes leave
what an actor counts on alone; there is one lemma per statement, and `History` says that the
history variables only grow, so that what holds for undisturbed states may be used in every earlier one.

`AwayInv` adds what `AwayIsStored` needs: an actor that has found a place in the store, and has overlapped with nobody since, still has
it to itself (`SlotOK`), and who has no descriptor and was not overlapped is in the store or about to be put there (`AwayOK`).

### Chess

| Theorem | Property |
|---|---|
| `TypeCorrect` | `TypeOK` |
| `RightsCorrect` | `RightsMeanKingHome` |
| `RefusedIsUnmadeCorrect` | `RefusedIsUnmade` |
| `OthersRightsStandCorrect` | `OthersRightsStand` |
| `AcceptedIsLegalCorrect` | `AcceptedIsLegal` |
| `MoverIsSafeCorrect` | `MoverIsSafe` |
| `LegalIsAcceptedCorrect` | `LegalIsAccepted` |
| `ClientsSeeBoardCorrect` | `ClientsSeeBoard` |
| `MateIsMateCorrect` | `MateIsMate` |
| `FenReadsBackCorrect` | `FenReadsBack` |

They hold from every set of positions in which each side has one king and a right to castle is that of a king on its first square
(`PositionAssumption`, which the start position and every position of the runs satisfy, as TLC checks), for games of any length.

The invariant, `ChessInv`, is short: types, at most one king of each colour, and `RightsMeanKingHome`. The work is in what one
step does. *Geometry*: `RaysAre`, `LeapIs` and `AttacksAre` show that the bit masks of directions with their amounts, walked past empty squares,
reach exactly the squares that `Attacks` and `Between` describe by ranks and files; `PlainIs` that a handler answers `MOVE_VALID` to exactly
the moves of the rules (a pawn on its way to `lm` apart), and `CheckMeans` that `is_in_check` finds exactly the attacks on the king's square, plus that of a pawn
on `lm`. *Loops*: the state of a search is carried by a function through each of its four nested loops, over the ranks and the files of
the pieces and of their ways. `LoopRuns` proves that the function exists, by induction over 0 .. 8 (`UpToEnd`), and `LoopsStay` that what one try
keeps (`Stays`), all four loops do. So `TriesLeaves` and `MateLeaves`: whatever a search tries, it ends with the board and the other side's rights as they were, unless a king was lost.
*Mates*: `TrySearches` judges one try by the rules, `LoopPasses` that a search that has found nothing has tried every move in vain. The set
`L` of squares that `lm` may be meanwhile is closed under what a try does to it (`Closed`); the escapes onto it are the exception of `MateIsMate`.
`CastledSafe` is about the one thing the code does not check: the rook's square is emptied and the king's neighbour filled after the search for checks was made;
from the edge of the board nothing can look past that square at the king (`EdgeSquare`).
*Packets*: `SaysAll` and `SentTells` say that a client to whom no send has failed has been told all of a move wherever the sends have ended, but for what
`RestIsTold` excepts; `PlacedEnds`, `OneMove` and `MateIsReported` that a mate told as a plain move was one if the board changed as by one.
*FEN*: `Recursion` proves that a function defined along 0 .. n exists, which gives the equations of the loop over the files of a rank (`RowTextIs`) and of
`FlattenSeq` (`FlattenAppend`). What a row has after n files reads as those files (`ReadsAs`), the run of empty squares not yet written included, which the next file keeps (`ReadsNext`).

### Only model-checked

- liveness (`EveryClientServed`, `AbandonedGameEnds`), which this prover cannot do;
- the claims that are false: TLC has their counterexamples.

## Not modelled

- The text of packets: digits of headers (a negative size, a NUL byte), formatting in `packet.c`.
- Races inside the other handlers: the code has no locks, and a keepalive thread may also disconnect somebody in the
  middle of `add_to_queue`, `move_piece` or `finish_game`. `DisconnectRace` has the statements that work on the registry,
  the store and the sockets; queue and games change in whole steps.
- `ChessServer.disconnect` is one step, and `DisconnectRace` has no queue and no games: what another thread finds of them in the middle of a
  disconnection is in neither.
- In `SelectLoop`: `parse_packet` is one step, so a thread does not free the buffers in its middle (a use after free, undefined in C); `FD_SET` and `FD_CLR` of two threads
  on one word of `client_socks` do not lose an update; `shutdown` and `close` are one step; a packet made of two clients' bytes is anything
  (`parse_mixed`); and what follows a `contested` disconnection is left to `DisconnectRace`.
- An `accept` that fails (`server.c:232`): its -1 goes to `FD_SET`, undefined in C.
- What `sprintf` does when it reads the buffer it writes (`game_mngr.c:269`), undefined in C.
- Positions early in a game beyond the first moves, promotion (the code has none) and the client.
- Socket set-up and option parsing: I/O without state that outlives it.

## Plan

1. *Sessions* (done): `ChessServer`, `Lobby`, their runs, the theorems above.
2. *Loop and framing* (done): `SelectLoop`, `PacketStream`.
3. *Chess* (done): `ChessRules`, `ChessGame`.
4. *Proofs* (done, but for what is only model-checked): the theorems above.
5. *Overlapping disconnections* (done): `DisconnectRace` and its theorems.
