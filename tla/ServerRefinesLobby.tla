------------------------ MODULE ServerRefinesLobby ------------------------
(***************************************************************************)
(* The flags of queue and the table of games implement Lobby, as long as   *)
(* queue_key and dc_players have room for every name and player who goes,  *)
(* and every descriptor is below the limit.  A player in the lobby is his  *)
(* struct, which he gets back when he connects again with another socket.  *)
(***************************************************************************)
EXTENDS ChessServer

waiting == UNION {lookup_player_by_name(queue_key[i], players, name) : i \in {j \in Slots : queue[j]}}
playing == {PlayersOf(games[i]) : i \in {j \in GameSlots : games[j] # NoGame}}

L == INSTANCE Lobby WITH Players <- Structs, waiting <- waiting, playing <- playing

\* Every step of the server is a step of the lobby or leaves it alone: no packet,
\* disconnection or return puts a player in two games, in a game and in the queue, or
\* two players in the queue.
LobbySpec == L!Spec

=============================================================================
