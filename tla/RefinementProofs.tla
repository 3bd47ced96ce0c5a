-------------------------- MODULE RefinementProofs --------------------------
(***************************************************************************)
(* The queue and the table of games of ChessServer implement Lobby, under  *)
(* the hypotheses of SessionProofs.  Each handler is one step of Lobby or  *)
(* none: what add_to_queue, a return, a disconnection and the end of a     *)
(* game do to the players who wait and to those who play.                  *)
(***************************************************************************)
EXTENDS SessionProofs, ServerRefinesLobby

USE DEF NoPlayer, short_term_dc, long_term_dc

---------------------------------------------------------------------------
\* Who waits: the players PL whose names in N have a flag of Q at their key in K.

WaitsIn(PL, N, Q, K) ==
    {q \in Structs : \E f \in Slots, i \in Slots : PL[f] = q /\ Q[i] /\ K[i] = N[q]}

\* A flag is that of one player, and he waits.
LEMMA WaiterWaits ==
    ASSUME NEW PL \in [Slots -> Structs \cup {NoPlayer}], NEW N \in [Structs -> Names], NEW Q, NEW K,
           NEW S, NotShared(PL, N), Named(N, S), FlagsWaitIn(Q, K, PL, N, S)
    PROVE  /\ \A q \in WaitsIn(PL, N, Q, K) : S[q] = "QUEUE" /\ N[q] # NewPlayer
           /\ \A i \in Slots : Q[i] => \E q \in WaitsIn(PL, N, Q, K) : N[q] = K[i]
           /\ \A i \in Slots : Q[i] => K[i] # NewPlayer
<1>1. ASSUME NEW i \in Slots, Q[i]
      PROVE  /\ K[i] # NewPlayer
             /\ \E q \in WaitsIn(PL, N, Q, K) : N[q] = K[i] /\ S[q] = "QUEUE"
             /\ \A q \in Structs, f \in Slots : PL[f] = q /\ N[q] = K[i] => S[q] = "QUEUE"
  <2>1. PICK g \in Slots : PL[g] # NoPlayer /\ N[PL[g]] = K[i] /\ S[PL[g]] = "QUEUE"
    BY <1>1 DEF FlagsWaitIn
  <2>2. PL[g] \in Structs /\ N[PL[g]] # NewPlayer
    BY <2>1 DEF Named
  <2>3. PL[g] \in WaitsIn(PL, N, Q, K)
    BY <1>1, <2>1, <2>2 DEF WaitsIn
  <2>4. ASSUME NEW q \in Structs, NEW f \in Slots, PL[f] = q, N[q] = K[i] PROVE S[q] = "QUEUE"
    <3>1. f = g
      BY <2>1, <2>2, <2>4, SlotsAreInts DEF NotShared
    <3> QED
      BY <2>1, <2>4, <3>1
  <2> QED
    BY <2>1, <2>2, <2>3, <2>4
<1> QED
  BY <1>1 DEF WaitsIn

LEMMA OneWaiter ==
    ASSUME NEW PL \in [Slots -> Structs \cup {NoPlayer}], NEW N \in [Structs -> Names], NEW Q, NEW K,
           NEW S, NotShared(PL, N), Named(N, S), FlagsWaitIn(Q, K, PL, N, S),
           \A i, j \in Slots : Q[i] /\ Q[j] => i = j
    PROVE  \A q, r \in WaitsIn(PL, N, Q, K) : q = r
<1> SUFFICES ASSUME NEW q \in WaitsIn(PL, N, Q, K), NEW r \in WaitsIn(PL, N, Q, K) PROVE q = r
  OBVIOUS
<1>1. PICK f \in Slots, i \in Slots : PL[f] = q /\ Q[i] /\ K[i] = N[q]
  BY DEF WaitsIn
<1>2. PICK g \in Slots, j \in Slots : PL[g] = r /\ Q[j] /\ K[j] = N[r]
  BY DEF WaitsIn
<1>3. q \in Structs /\ r \in Structs /\ N[q] = N[r] /\ N[q] # NewPlayer
  BY <1>1, <1>2, WaiterWaits DEF WaitsIn
<1> QED
  BY <1>1, <1>2, <1>3, SlotsAreInts DEF NotShared

\* The registry as the lemmas above take it.
QueueServed ==
    /\ players \in [Slots -> Structs \cup {NoPlayer}] /\ name \in [Structs -> Names]
    /\ NotShared(players, name) /\ Named(name, ps)
    /\ FlagsWaitIn(queue, queue_key, players, name, ps)

LEMMA Registry == MatchInv => QueueServed
BY DEF QueueServed, MatchInv, MatchOK, RegInv, TypeInv, TypeOK, RegType, StructType, RegOK, NamesUnique,
       NotShared, NamedOnceLoggedIn, FlagsWait

\* lookup_player_by_name finds the player of a key with a flag.
LEMMA WaitingPlayers ==
    ASSUME MatchInv
    PROVE  waiting = WaitsIn(players, name, queue, queue_key)
<1> DEFINE there(i) == {f \in Slots : players[f] # NoPlayer /\ name[players[f]] = queue_key[i]}
<1>0. /\ players \in [Slots -> Structs \cup {NoPlayer}] /\ name \in [Structs -> Names]
      /\ NotShared(players, name) /\ Named(name, ps)
      /\ FlagsWaitIn(queue, queue_key, players, name, ps)
  BY Registry DEF QueueServed
<1>1. ASSUME NEW q, NEW i \in Slots, queue[i], q \in lookup_player_by_name(queue_key[i], players, name)
      PROVE  q \in WaitsIn(players, name, queue, queue_key)
  <2>1. PICK f \in Slots : q = players[f] /\ players[f] # NoPlayer /\ name[players[f]] = queue_key[i]
    BY <1>1 DEF lookup_player_by_name, Least
  <2> QED
    BY <1>0, <1>1, <2>1 DEF WaitsIn
<1>2. ASSUME NEW q \in WaitsIn(players, name, queue, queue_key)
      PROVE  \E i \in Slots : queue[i] /\ q \in lookup_player_by_name(queue_key[i], players, name)
  <2>1. PICK f \in Slots, i \in Slots : players[f] = q /\ queue[i] /\ queue_key[i] = name[q]
    BY <1>2 DEF WaitsIn
  <2>2. q \in Structs /\ q # NoPlayer /\ name[q] # NewPlayer
    BY <1>0, WaiterWaits, SlotsAreInts DEF WaitsIn
  <2>3. f \in there(i) /\ there(i) \in SUBSET Nat
    BY <2>1, <2>2, SlotsAreInts
  <2>4. PICK g \in Least(there(i)) : TRUE
    BY <2>3, LeastExists
  <2>5. g = f
    BY <1>0, <2>1, <2>2, <2>4 DEF Least, NotShared
  <2>6. q \in lookup_player_by_name(queue_key[i], players, name)
    BY <2>1, <2>4, <2>5 DEF lookup_player_by_name
  <2> QED
    BY <2>1, <2>6
<1> HIDE DEF there
<1>3. \A q : q \in waiting <=> \E i \in Slots : queue[i] /\ q \in lookup_player_by_name(queue_key[i], players, name)
  BY DEF waiting
<1> QED
  BY <1>1, <1>2, <1>3

---------------------------------------------------------------------------
\* Who plays.

LEMMA BusyPlay ==
    ASSUME MatchInv, NEW q \in Structs, ps[q] # "PLAY"
    PROVE  q \notin UNION playing
<1> SUFFICES ASSUME NEW i \in GameSlots, games[i] # NoGame, q \in PlayersOf(games[i]) PROVE FALSE
  BY DEF playing
<1> QED
  BY PlayersPlay DEF MatchInv, MatchOK, PlayersOf, Involves

\* add_game.
LEMMA PlayingGrows ==
    ASSUME TypeOK, NEW k \in GameSlots, games[k] = NoGame, NEW p \in Structs, NEW op \in Structs,
           games' = [games EXCEPT ![k] = [white |-> p, black |-> op]]
    PROVE  playing' = playing \cup {{p, op}}
<1> DEFINE new == [white |-> p, black |-> op]
<1>1. new # NoGame /\ PlayersOf(new) = {p, op}
  BY SlotsAreInts DEF NoGame, PlayersOf
<1>2. /\ games'[k] = new
      /\ \A i \in GameSlots \ {k} : games'[i] = games[i]
  BY DEF TypeOK, GameType
<1> HIDE DEF new
<1>3. ASSUME NEW g PROVE g \in playing' <=> g \in playing \/ g = PlayersOf(new)
  <2>1. g \in playing' <=> \E i \in GameSlots : games'[i] # NoGame /\ g = PlayersOf(games'[i])
    BY DEF playing, PlayersOf
  <2>2. g \in playing <=> \E i \in GameSlots : games[i] # NoGame /\ g = PlayersOf(games[i])
    BY DEF playing
  <2> QED
    BY <1>1, <1>2, <2>1, <2>2
<1> QED
  BY <1>1, <1>3

\* The game of p ends, if at all.
LEMMA PlayingShrinks ==
    ASSUME MatchInv, NEW p, NEW over \in SUBSET lookup_game(p),
           \A i \in GameSlots : games'[i] = IF i \in over THEN NoGame ELSE games[i]
    PROVE  \/ over = {} /\ playing' = playing
           \/ \E g \in playing : playing' = playing \ {g}
<1>1. \A g : g \in playing' <=> \E i \in GameSlots : games'[i] # NoGame /\ g = PlayersOf(games'[i])
  BY DEF playing, PlayersOf
<1>2. \A g : g \in playing <=> \E i \in GameSlots : games[i] # NoGame /\ g = PlayersOf(games[i])
  BY DEF playing
<1>3. CASE over = {}
  <2>1. \A g : g \in playing' <=> g \in playing
    BY <1>1, <1>2, <1>3
  <2> QED
    BY <1>3, <2>1
<1>4. ASSUME NEW k \in over PROVE \E g \in playing : playing' = playing \ {g}
  <2>1. k \in GameSlots /\ games[k] # NoGame /\ \A i \in over : i = k
    BY GameSlotZero DEF lookup_game, Least
  <2>2. \A i \in GameSlots : games[i] # NoGame /\ PlayersOf(games[i]) = PlayersOf(games[k]) => i = k
    <3> SUFFICES ASSUME NEW i \in GameSlots, games[i] # NoGame,
                        PlayersOf(games[i]) = PlayersOf(games[k])
                 PROVE  i = k
      OBVIOUS
    <3>1. games[i].white \in Structs /\ Involves(games[i], games[i].white)
          /\ Involves(games[k], games[i].white)
      BY DEF MatchInv, MatchOK, GamesApart, PlayersOf, Involves
    <3> QED
      BY <2>1, <3>1 DEF MatchInv, MatchOK, GamesApart
  <2>3. \A i \in GameSlots : games'[i] = IF i = k THEN NoGame ELSE games[i]
    BY <1>4, <2>1
  <2>4. \A g : g \in playing' <=> g \in playing /\ g # PlayersOf(games[k])
    BY <1>1, <1>2, <2>1, <2>2, <2>3
  <2>5. PlayersOf(games[k]) \in playing
    BY <1>2, <2>1
  <2> QED
    BY <2>4, <2>5
<1> QED
  BY <1>3, <1>4

---------------------------------------------------------------------------
\* What add_to_queue does for p: nothing to the queue, or p is the only one who waits, or the
\* only one who waited is matched with p, for the game at the free index if at all.

QueueStays == UNCHANGED <<queue, games>> /\ \A i \in Slots : queue[i] => queue_key'[i] = queue_key[i]

Waits(p, N) ==
    /\ UNCHANGED games /\ \A i \in Slots : ~queue[i]
    /\ \E id \in Slots : queue_key'[id] = N[p] /\ \A i \in Slots : queue'[i] <=> i = id

Matched(p, PL, N) ==
    /\ \A i \in Slots : ~queue'[i]
    /\ \E i \in Slots, op \in Structs \ {p} :
          /\ queue[i] /\ N[op] = queue_key[i] /\ \E f \in Slots : PL[f] = op
          /\ \/ UNCHANGED games
             \/ \E k \in GameSlots : /\ k = free_game_index
                                     /\ games' = [games EXCEPT ![k] = [white |-> p, black |-> op]]

LEMMA FreeIndexOrNot == ASSUME TypeOK PROVE free_game_index < 0 \/ free_game_index >= 0
<1>1. free_game_index \in GameSlots \cup {-1}
    BY DEF TypeOK, GameType
<1> QED BY <1>1, GameSlotZero

LEMMA LookForOpponentMoves ==
    ASSUME TypeOK, NEW p \in Structs, NEW id \in Slots,
           NEW PL \in [Slots -> Structs \cup {NoPlayer}], NEW F, NEW N \in [Structs -> Names],
           NEW V, NEW rval, KeysDistinct, AtMostOneWaiting,
           FlagsWaitIn(queue, queue_key, PL, N, ps),
           queue_key[id] = N[p] \/ (queue_key[id] = NoKey /\ \A i \in Slots : queue_key[i] # N[p]),
           ~queue[id], look_for_opponent(p, id, PL, F, N, V, rval)
    PROVE  Waits(p, N) \/ Matched(p, PL, N)
<1> DEFINE key      == KeyStored(id, N[p])
           there(i) == lookup_player_by_name(key[i], PL, N)
           met      == {i \in Flagged(id) : there(i) # {}}
           match    == Least(met)
           gone     == {i \in Flagged(id) : there(i) = {} /\ \A m \in match : i < m}
<1>1. /\ key[id] = N[p]
      /\ \A i \in Slots \ {id} : key[i] = queue_key[i] /\ queue_key[i] # N[p]
  BY KeyStoredOnce
<1>2. queue_key' = [i \in Slots |-> IF i \in gone THEN NoKey ELSE key[i]]
  BY DEF look_for_opponent
<1>3. DOMAIN queue = Slots \cup {-1}
  BY DEF TypeOK, QueueType
<1>4. ASSUME NEW i \in Slots, queue[i] PROVE i # id /\ i \in met
  <2>1. PICK f \in Slots : PL[f] # NoPlayer /\ N[PL[f]] = queue_key[i]
    BY <1>4 DEF FlagsWaitIn
  <2>2. i # id /\ key[i] = queue_key[i]
    BY <1>1, <1>4
  <2> DEFINE S == {g \in Slots : PL[g] # NoPlayer /\ N[PL[g]] = key[i]}
  <2>3. f \in S /\ S \in SUBSET Nat
    BY <2>1, <2>2, SlotsAreInts
  <2>4. Least(S) # {}
    BY <2>3, LeastExists
  <2>5. there(i) # {}
    BY <2>4 DEF lookup_player_by_name
  <2> QED
    BY <1>4, <2>2, <2>5 DEF Flagged
<1>5. match = {} => \A i \in Slots : ~queue[i]
  <2>1. met \in SUBSET Nat
    BY SlotsAreInts DEF Flagged
  <2> HIDE DEF met
  <2> QED
    BY <1>4, <2>1, LeastExists
<1>6. CASE /\ match = {}
           /\ queue' = [i \in DOMAIN queue |-> i = id \/ (queue[i] /\ i \notin gone)]
           /\ UNCHANGED games
  <2>1. queue_key'[id] = N[p]
    BY <1>1, <1>2 DEF Flagged
  <2>2. \A i \in Slots : queue'[i] <=> i = id
    BY <1>3, <1>5, <1>6
  <2> QED
    BY <1>5, <1>6, <2>1, <2>2 DEF Waits
<1>7. ASSUME NEW i \in match, NEW op \in there(i),
             queue' = [j \in DOMAIN queue |-> j # id /\ j # i /\ queue[j] /\ j \notin gone],
             game_create(p, op, rval) \/ UNCHANGED games
      PROVE  Matched(p, PL, N)
  <2>1. i \in Slots /\ queue[i] /\ i # id
    BY LeastIsSubset DEF Flagged
  <2>2. op \in Structs /\ N[op] = key[i] /\ \E f \in Slots : PL[f] = op
    BY SlotsAreInts DEF lookup_player_by_name, Least
  <2>3. N[op] = queue_key[i] /\ op # p
    BY <1>1, <2>1, <2>2
  <2>4. \A j \in Slots : ~queue'[j]
    BY <1>3, <1>7, <2>1 DEF AtMostOneWaiting
  <2>5. \/ UNCHANGED games
        \/ \E k \in GameSlots : /\ k = free_game_index
                                /\ games' = [games EXCEPT ![k] = [white |-> p, black |-> op]]
    <3>1. ASSUME game_create(p, op, rval), free_game_index >= 0
          PROVE  /\ free_game_index \in GameSlots
                 /\ games' = [games EXCEPT ![free_game_index] = [white |-> p, black |-> op]]
      <4>1. free_game_index \in GameSlots
        BY <3>1 DEF TypeOK, GameType
      <4>2. ~(free_game_index < 0)
        BY <4>1, GameSlotZero
      <4> QED
        BY <3>1, <4>1, <4>2 DEF game_create
    <3>2. ASSUME game_create(p, op, rval), free_game_index < 0 PROVE UNCHANGED games
      <4>1. ~(free_game_index >= 0)
        BY <3>2, GameSlotZero DEF TypeOK, GameType
      <4> QED
        BY <3>2, <4>1 DEF game_create, gameVars
    <3>3. free_game_index < 0 \/ free_game_index >= 0
      BY FreeIndexOrNot
    <3> QED
      BY <1>7, <3>1, <3>2, <3>3
  <2> HIDE DEF key, there, match, gone
  <2> QED
    BY <2>1, <2>2, <2>3, <2>4, <2>5 DEF Matched
<1>8. \/ /\ match = {} /\ UNCHANGED games
         /\ queue' = [i \in DOMAIN queue |-> i = id \/ (queue[i] /\ i \notin gone)]
      \/ \E i \in match : \E op \in there(i) :
            /\ queue' = [j \in DOMAIN queue |-> j # id /\ j # i /\ queue[j] /\ j \notin gone]
            /\ game_create(p, op, rval) \/ UNCHANGED games
  BY DEF look_for_opponent, gameVars
<1> QED
  BY <1>6, <1>7, <1>8

LEMMA AddToQueueMoves ==
    ASSUME TypeOK, QueueRoom, NEW p \in Structs,
           NEW PL \in [Slots -> Structs \cup {NoPlayer}], NEW F, NEW N \in [Structs -> Names],
           NEW V, NEW rval, KeysDistinct, AtMostOneWaiting,
           FlagsWaitIn(queue, queue_key, PL, N, ps),
           add_to_queue(p, PL, F, N, V, rval)
    PROVE  QueueStays \/ Waits(p, N) \/ Matched(p, PL, N)
<1>1. PICK id \in find_player_in_queue(N[p]) :
        \/ ~queue[id] /\ look_for_opponent(p, id, PL, F, N, V, rval)
        \/ queue_key' = KeyStored(id, N[p]) /\ UNCHANGED <<queue, gameVars>>
  BY DEF add_to_queue
<1>2. N[p] \in Names /\ id # -1
  BY <1>1 DEF QueueRoom
<1>3. /\ id \in Slots
      /\ \/ queue_key[id] = N[p]
         \/ queue_key[id] = NoKey /\ \A i \in Slots : queue_key[i] # N[p]
  BY <1>1, <1>2, IndexOfName
<1>4. CASE ~queue[id] /\ look_for_opponent(p, id, PL, F, N, V, rval)
  BY <1>3, <1>4, LookForOpponentMoves
<1>5. CASE queue_key' = KeyStored(id, N[p]) /\ UNCHANGED <<queue, gameVars>>
  <2>1. \A i \in Slots \ {id} : queue_key'[i] = queue_key[i]
    BY <1>2, <1>3, <1>5, KeyStoredOnce
  <2>2. queue[id] => queue_key[id] \in Names
    BY <1>3 DEF FlagsWaitIn
  <2>3. queue[id] => queue_key'[id] = queue_key[id]
    BY <1>2, <1>3, <1>5, <2>2, KeyStoredOnce, NameAssumption
  <2> QED
    BY <1>5, <2>1, <2>3 DEF QueueStays, gameVars
<1> QED
  BY <1>1, <1>4, <1>5

---------------------------------------------------------------------------
\* The steps of the lobby, as the handlers of the server take them.

Waiters == WaitsIn(players, name, queue, queue_key)
WaitersWait == waiting = Waiters

LobbyMoves ==
    \/ UNCHANGED <<waiting, playing>>
    \/ waiting' = {} /\ UNCHANGED playing
    \/ waiting = {} /\ UNCHANGED playing /\ \E p \in Structs : ps[p] # "PLAY" /\ waiting' = {p}
    \/ /\ waiting' = {}
       /\ \E p \in Structs \ waiting : \E q \in waiting :
             ps[p] # "PLAY" /\ playing' = playing \cup {{p, q}}
    \/ UNCHANGED waiting /\ \E g \in playing : playing' = playing \ {g}

\* The invariant: what ChessServerProofs and SessionProofs show.
LobbyServed == KeptInv /\ AtMostOneWaiting /\ FreeSlotIsFree

LEMMA WaitingAfter == MatchInv' => waiting' = Waiters'
<1>1. MatchInv => WaitersWait
  BY WaitingPlayers DEF Waiters, WaitersWait
<1>2. MatchInv' => WaitersWait'
  BY <1>1, PTL
<1> QED
  BY <1>2 DEF WaitersWait

LEMMA RegistryAfter == MatchInv' => QueueServed'
BY Registry, PTL

LEMMA SameGamesPlaying == UNCHANGED games => UNCHANGED playing
BY DEF playing, PlayersOf

\* Fewer flags, players or keys: who waits goes on waiting, or nobody does.
LEMMA FewerWait ==
    ASSUME LobbyServed, MatchInv', Waiters' \subseteq Waiters
    PROVE  waiting' = waiting \/ waiting' = {}
<1>1. waiting = Waiters
  BY WaitingPlayers DEF LobbyServed, KeptInv, Waiters
<1>2. waiting' = Waiters'
  BY WaitingAfter
<1>3. \A q, r \in Waiters : q = r
  <2>1. /\ players \in [Slots -> Structs \cup {NoPlayer}] /\ name \in [Structs -> Names]
        /\ NotShared(players, name) /\ Named(name, ps)
        /\ FlagsWaitIn(queue, queue_key, players, name, ps)
    BY Registry DEF QueueServed, LobbyServed, KeptInv
  <2> QED
    BY <2>1, OneWaiter DEF Waiters, LobbyServed, AtMostOneWaiting
<1> HIDE DEF Waiters
<1>4. CASE Waiters' = {}
  BY <1>2, <1>4
<1>5. ASSUME NEW q \in Waiters' PROVE Waiters' = Waiters
  BY <1>3, <1>5
<1> QED
  BY <1>1, <1>2, <1>4, <1>5

\* The registry as HELLO leaves it has the same players waiting before add_to_queue runs.
LEMMA JoinMoves ==
    ASSUME LobbyServed, MatchInv', NEW p \in Structs, ps[p] # "PLAY",
           NEW f \in Slots, players'[f] = p,
           players' \in [Slots -> Structs \cup {NoPlayer}], name' \in [Structs -> Names],
           NotShared(players', name'), Named(name', ps),
           FlagsWaitIn(queue, queue_key, players', name', ps),
           waiting = WaitsIn(players', name', queue, queue_key),
           QueueStays \/ Waits(p, name') \/ Matched(p, players', name')
    PROVE  LobbyMoves
<1>1. waiting' = WaitsIn(players', name', queue', queue_key')
  BY WaitingAfter DEF Waiters, WaitsIn
<1>2. /\ \A i \in Slots : queue[i] => \E q \in waiting : name'[q] = queue_key[i]
      /\ \A q \in waiting : ps[q] = "QUEUE" /\ name'[q] # NewPlayer
  BY WaiterWaits
<1>3. \A q, r \in waiting : q = r
  BY OneWaiter DEF LobbyServed, AtMostOneWaiting
<1>4. CASE QueueStays
  <2>1. WaitsIn(players', name', queue', queue_key') = WaitsIn(players', name', queue, queue_key)
    BY <1>4 DEF QueueStays, WaitsIn
  <2>2. UNCHANGED games
    BY <1>4 DEF QueueStays
  <2> QED
    BY <1>1, <2>1, <2>2, SameGamesPlaying DEF LobbyMoves
<1>5. CASE Waits(p, name')
  <2>1. waiting = {}
    BY <1>5 DEF Waits, WaitsIn
  <2>2. PICK id \in Slots : queue_key'[id] = name'[p] /\ \A i \in Slots : queue'[i] <=> i = id
    BY <1>5 DEF Waits
  <2>3. p \in waiting'
    BY <1>1, <2>2 DEF WaitsIn
  <2>4. ASSUME NEW q \in waiting' PROVE q = p
    <3>1. /\ players' \in [Slots -> Structs \cup {NoPlayer}] /\ name' \in [Structs -> Names]
          /\ NotShared(players', name') /\ Named(name', ps')
          /\ FlagsWaitIn(queue', queue_key', players', name', ps')
      BY RegistryAfter DEF QueueServed, NotShared, Named, FlagsWaitIn
    <3>2. \A i, j \in Slots : queue'[i] /\ queue'[j] => i = j
      BY <2>2
    <3> QED
      BY <1>1, <2>3, <2>4, <3>1, <3>2, OneWaiter
  <2>5. waiting' = {p}
    BY <2>3, <2>4
  <2> QED
    BY <1>5, <2>1, <2>5, SameGamesPlaying DEF LobbyMoves, Waits
<1>6. CASE Matched(p, players', name')
  <2>1. waiting' = {}
    BY <1>1, <1>6 DEF Matched, WaitsIn
  <2>2. PICK i \in Slots, op \in Structs \ {p} :
          /\ queue[i] /\ name'[op] = queue_key[i] /\ \E g \in Slots : players'[g] = op
          /\ \/ UNCHANGED games
             \/ \E k \in GameSlots : /\ k = free_game_index
                                     /\ games' = [games EXCEPT ![k] = [white |-> p, black |-> op]]
    BY <1>6 DEF Matched
  <2>3. op \in waiting
    BY <2>2 DEF WaitsIn
  <2>4. p \notin waiting
    BY <1>3, <2>2, <2>3
  <2>5. UNCHANGED games => LobbyMoves
    BY <2>1, SameGamesPlaying DEF LobbyMoves
  <2>6. ASSUME NEW k \in GameSlots, k = free_game_index,
               games' = [games EXCEPT ![k] = [white |-> p, black |-> op]]
        PROVE  LobbyMoves
    <3>1. games[k] = NoGame /\ TypeOK
      BY <2>6, GameSlotZero DEF LobbyServed, FreeSlotIsFree, KeptInv, MatchInv, RegInv, TypeInv
    <3>2. playing' = playing \cup {{p, op}}
      BY <2>6, <3>1, PlayingGrows
    <3> QED
      BY <2>1, <2>3, <2>4, <3>2 DEF LobbyMoves
  <2> QED
    BY <2>2, <2>5, <2>6
<1> QED
  BY <1>4, <1>5, <1>6

LEMMA QueueLobby ==
    ASSUME LobbyServed, QueueRoom, MatchInv', NEW f \in Slots, NEW p \in Structs,
           players[f] = p, ps[p] = "LOGGED_IN", p_queue(p)
    PROVE  LobbyMoves
<1>1. UNCHANGED <<players, name>> /\ add_to_queue(p, players, fd, name, view, "invalid")
  BY DEF p_queue, keepSession, regVars
<1>2. QueueServed /\ TypeOK /\ KeysDistinct /\ AtMostOneWaiting
  BY Registry DEF LobbyServed, KeptInv, MatchInv, MatchOK, RegInv, TypeInv
<1>3. QueueStays \/ Waits(p, name) \/ Matched(p, players, name)
  BY <1>1, <1>2, AddToQueueMoves DEF QueueServed
<1>4. waiting = WaitsIn(players', name', queue, queue_key)
  BY <1>1, WaitingPlayers DEF LobbyServed, KeptInv
<1>5. /\ players' \in [Slots -> Structs \cup {NoPlayer}] /\ name' \in [Structs -> Names]
      /\ NotShared(players', name') /\ Named(name', ps)
      /\ FlagsWaitIn(queue, queue_key, players', name', ps)
      /\ QueueStays \/ Waits(p, name') \/ Matched(p, players', name')
      /\ players'[f] = p /\ ps[p] # "PLAY"
  BY <1>1, <1>2, <1>3 DEF QueueServed
<1> QED
  BY <1>4, <1>5, JoinMoves

\* Nobody waits under the name a HELLO gives, and the one who sends it waits under none.
LEMMA HelloWaiters ==
    ASSUME MatchInv, NEW f \in Slots, NEW p \in Structs, players[f] = p, ps[p] = "JUST_CONNECTED",
           NEW n \in Names, lookup_player_by_name(n, players, name) = {},
           name' = [name EXCEPT ![p] = n], name'[players'[f]] = n, players' \in [Slots -> Structs \cup {NoPlayer}],
           \A g \in Slots \ {f} : players'[g] = players[g]
    PROVE  WaitsIn(players', name', queue, queue_key) = Waiters
<1>1. QueueServed
  BY Registry
<1>2. \A q \in Structs \ {p} : name'[q] = name[q]
  BY <1>1 DEF QueueServed
<1>3. ASSUME NEW q \in Waiters PROVE q \in WaitsIn(players', name', queue, queue_key)
  <2>1. PICK g \in Slots, i \in Slots : players[g] = q /\ queue[i] /\ queue_key[i] = name[q]
    BY DEF Waiters, WaitsIn
  <2>2. q \in Structs /\ ps[q] = "QUEUE"
    BY <1>1, WaiterWaits DEF QueueServed, Waiters, WaitsIn
  <2>3. q # p /\ g # f
    BY <2>1, <2>2
  <2> QED
    BY <1>2, <2>1, <2>2, <2>3 DEF WaitsIn
<1>4. ASSUME NEW i \in Slots, queue[i] PROVE queue_key[i] # n
  <2>1. PICK g \in Slots : players[g] # NoPlayer /\ name[players[g]] = queue_key[i]
    BY <1>1, <1>4 DEF QueueServed, FlagsWaitIn
  <2> DEFINE S == {h \in Slots : players[h] # NoPlayer /\ name[players[h]] = n}
  <2>2. S \in SUBSET Nat
    BY SlotsAreInts
  <2>3. {players[h] : h \in Least(S)} = {}
    BY DEF lookup_player_by_name
  <2> HIDE DEF S
  <2>4. S = {}
    BY <2>2, <2>3, LeastExists
  <2> QED
    BY <2>1, <2>4 DEF S
<1>5. ASSUME NEW q \in WaitsIn(players', name', queue, queue_key) PROVE q \in Waiters
  <2>1. PICK g \in Slots, i \in Slots : players'[g] = q /\ queue[i] /\ queue_key[i] = name'[q]
    BY DEF WaitsIn
  <2>2. q \in Structs
    BY DEF WaitsIn
  <2>3. g # f
    BY <1>4, <2>1
  <2>4. players[g] = q /\ q # p
    <3>1. players[g] = q
      BY <2>1, <2>3
    <3> QED
      BY <2>2, <2>3, <3>1, SlotsAreInts DEF MatchInv, RegInv, RegOK, RegistryOK
  <2> QED
    BY <1>2, <2>1, <2>2, <2>4 DEF Waiters, WaitsIn
<1> QED
  BY <1>3, <1>5

LEMMA HelloLobby ==
    ASSUME LobbyServed, QueueRoom, MatchInv', NEW f \in Fds \cap Slots, NEW p \in Structs,
           players[f] = p, fd[p] = f, conn[f] \in {"up", "eof"}, ps[p] = "JUST_CONNECTED",
           NEW n \in Names \cup LongNames, p_hello(p, n)
    PROVE  LobbyMoves
<1>1. MatchInv /\ QueueServed /\ waiting = Waiters
  BY Registry, WaitingPlayers DEF LobbyServed, KeptInv, Waiters
<1>2. waiting' = WaitsIn(players', name', queue', queue_key')
  BY WaitingAfter DEF Waiters, WaitsIn
<1>3. ASSUME UNCHANGED <<queueVars, gameVars>>,
             WaitsIn(players', name', queue, queue_key) = Waiters
      PROVE  LobbyMoves
  BY <1>1, <1>2, <1>3, SameGamesPlaying DEF LobbyMoves, queueVars, gameVars
<1>4. CASE UNCHANGED <<players, name, queueVars, gameVars>>
  BY <1>3, <1>4 DEF Waiters
<1>5. ASSUME n \in Names, lookup_player_by_name(n, players, name) = {},
             name' = [name EXCEPT ![p] = n], UNCHANGED <<players, queueVars, gameVars>>
      PROVE  LobbyMoves
  <2>1. /\ name'[players'[f]] = n /\ players' \in [Slots -> Structs \cup {NoPlayer}]
        /\ \A g \in Slots \ {f} : players'[g] = players[g]
    BY <1>1, <1>5 DEF QueueServed
  <2> QED
    BY <1>1, <1>3, <1>5, <2>1, HelloWaiters
<1>6. ASSUME n \in Names, lookup_player_by_name(n, players, name) = {},
             name' = [name EXCEPT ![p] = n], NEW i \in lookup_dc_player(n), login_again(p, n, i)
      PROVE  LobbyMoves
  <2>1. /\ MatchInv /\ f \in Fds \cap Slots /\ p \in Structs /\ players[f] = p /\ fd[p] = f
        /\ conn[f] \in {"up", "eof"} /\ ps[p] = "JUST_CONNECTED" /\ n \in Names /\ p_hello(p, n)
        /\ lookup_player_by_name(n, players, name) = {}
        /\ i \in lookup_dc_player(n) /\ login_again(p, n, i)
    BY <1>1, <1>6
  <2>2. /\ players'[f] = dc_players[i] /\ players'[f] \in Structs \ {p}
        /\ fd[players'[f]] = -1 /\ name[players'[f]] = n /\ n # NewPlayer
        /\ players' \in [Slots -> Structs \cup {NoPlayer}]
        /\ fd' \in [Structs -> Slots \cup {-1}] /\ name' \in [Structs -> Names]
        /\ NotShared(players', name') /\ Named(name', ps)
        /\ FlagsWaitIn(queue, queue_key, players', name', ps)
        /\ \A g \in Slots \ {f} :
              players'[g] = players[g] /\ players[g] \notin {players'[f], p}
        /\ \A g \in Slots : players'[g] # NoPlayer => fd'[players'[g]] = g
        /\ \A q \in Structs : fd'[q] = IF q = players'[f] THEN f ELSE fd[q]
    BY <2>1, Returning
  <2>3. name'[players'[f]] = n
    BY <1>1, <1>6, <2>2 DEF QueueServed
  <2>4. WaitsIn(players', name', queue, queue_key) = Waiters
    <3>1. /\ MatchInv /\ f \in Slots /\ p \in Structs /\ players[f] = p /\ ps[p] = "JUST_CONNECTED"
          /\ n \in Names /\ lookup_player_by_name(n, players, name) = {}
          /\ name' = [name EXCEPT ![p] = n] /\ name'[players'[f]] = n
          /\ players' \in [Slots -> Structs \cup {NoPlayer}]
          /\ \A g \in Slots \ {f} : players'[g] = players[g]
      BY <1>1, <1>6, <2>2, <2>3
    <3> QED
      BY <3>1, HelloWaiters
  <2> DEFINE e == players'[f]
             V == Told(view, {fd[p]}, "lobby")
  <2>5. \/ UNCHANGED <<queueVars, gameVars>>
        \/ ps[e] = "QUEUE" /\ \E PL, F, N : /\ PL = players' /\ N = name'
                                            /\ add_to_queue(e, PL, F, N, V, "ok")
    <3>1. e = dc_players[i] /\ name' = [name EXCEPT ![p] = n]
      BY <1>6, <2>2
    <3>2. /\ players' = [players EXCEPT ![fd[p]] = dc_players[i]]
          /\ fd' = [fd EXCEPT ![dc_players[i]] = fd[p]]
      BY <1>6 DEF login_again
    <3> HIDE DEF e
    <3>3. \/ UNCHANGED <<queueVars, gameVars>>
          \/ ps[e] = "QUEUE" /\ add_to_queue(e, players', fd', name', V, "ok")
      BY <1>6, <3>1, <3>2 DEF login_again
    <3> QED
      BY <3>3
  <2>6. ASSUME ps[e] = "QUEUE", NEW F, add_to_queue(e, players', F, name', V, "ok")
        PROVE  LobbyMoves
    <3>1. e \in Structs
      BY <2>2
    <3> HIDE DEF e, V
    <3>2. TypeOK /\ KeysDistinct /\ AtMostOneWaiting
      BY DEF LobbyServed, KeptInv, MatchInv, MatchOK, RegInv, TypeInv
    <3>3. QueueStays \/ Waits(e, name') \/ Matched(e, players', name')
      BY <2>2, <2>6, <3>1, <3>2, AddToQueueMoves
    <3>4. players'[f] = e /\ ps[e] # "PLAY"
      BY <2>6 DEF e
    <3> QED
      BY <1>1, <2>2, <2>4, <3>1, <3>3, <3>4, JoinMoves
  <2> QED
    BY <1>3, <2>4, <2>5, <2>6
<1> QED
  BY <1>4, <1>5, <1>6 DEF p_hello, first_login, regVars

---------------------------------------------------------------------------
\* The handlers that bring nobody into the queue.

\* Flags are at most cleared and players at most removed: nobody new waits.
LEMMA NobodyJoins ==
    ASSUME UNCHANGED name, \A f \in Slots : players'[f] \in {players[f], NoPlayer},
           \A i \in Slots : queue'[i] => queue[i] /\ queue_key'[i] = queue_key[i]
    PROVE  Waiters' \subseteq Waiters
<1>1. ASSUME NEW q \in Structs, NEW f \in Slots, NEW i \in Slots,
             players'[f] = q, queue'[i], queue_key'[i] = name'[q]
      PROVE  players[f] = q /\ queue[i] /\ queue_key[i] = name[q]
  BY <1>1, SlotsAreInts
<1> QED
  BY <1>1 DEF Waiters, WaitsIn

LEMMA SameGamesMove ==
    ASSUME LobbyServed, MatchInv', Waiters' \subseteq Waiters, UNCHANGED games
    PROVE  LobbyMoves
BY FewerWait, SameGamesPlaying DEF LobbyMoves

\* Nobody moves in the queue, and the game of p ends, if at all.
LEMMA GameEndsMove ==
    ASSUME LobbyServed, MatchInv', Waiters' = Waiters, NEW p, NEW over \in SUBSET lookup_game(p),
           \A i \in GameSlots : games'[i] = IF i \in over THEN NoGame ELSE games[i]
    PROVE  LobbyMoves
<1>1. waiting' = waiting
  BY WaitingAfter, WaitingPlayers DEF LobbyServed, KeptInv, Waiters
<1>2. playing' = playing \/ \E g \in playing : playing' = playing \ {g}
  BY PlayingShrinks DEF LobbyServed, KeptInv
<1> QED
  BY <1>1, <1>2 DEF LobbyMoves

LEMMA QuietLobby ==
    ASSUME LobbyServed, MatchInv', UNCHANGED <<players, name, queue, queue_key, games>>
    PROVE  LobbyMoves
<1>1. Waiters' \subseteq Waiters
  BY NobodyJoins
<1> QED
  BY <1>1, SameGamesMove

LEMMA LeaveQueueLobby ==
    ASSUME LobbyServed, QueueRoom, MatchInv', NEW p \in Structs, p_leave_queue(p)
    PROVE  LobbyMoves
<1>1. UNCHANGED <<players, name, games>>
  BY DEF p_leave_queue, keepSession, regVars, gameVars
<1>2. TypeOK
  BY DEF LobbyServed, KeptInv, MatchInv, RegInv, TypeInv
<1>3. PICK id \in find_player_in_queue(name[p]) :
        /\ queue_key' = KeyStored(id, name[p])
        /\ queue' = [queue EXCEPT ![id] = FALSE]
  BY DEF p_leave_queue
<1>4. \A i \in Slots : queue'[i] => queue[i] /\ queue_key'[i] = queue_key[i]
  BY <1>2, <1>3 DEF KeyStored, TypeOK, QueueType
<1>5. Waiters' \subseteq Waiters
  BY <1>1, <1>4, NobodyJoins
<1> QED
  BY <1>1, <1>5, SameGamesMove

\* A move, a resignation and what the packets of a game do besides.
LEMMA PlayLobby ==
    ASSUME LobbyServed, MatchInv', NEW p \in Structs, NEW k, play_packet(p, k)
    PROVE  LobbyMoves
<1>1. UNCHANGED <<players, name, queue_key, queue>>
  BY DEF play_packet, keepSession, regVars, queueVars
<1>2. CASE UNCHANGED games
  BY <1>1, <1>2, QuietLobby
<1>3. ASSUME NEW i \in lookup_game(p), finish_game(i) PROVE LobbyMoves
  <2>1. \A j \in GameSlots : games'[j] = IF j \in {i} THEN NoGame ELSE games[j]
    BY <1>3 DEF finish_game, LobbyServed, KeptInv, MatchInv, RegInv, TypeInv, TypeOK, GameType
  <2>2. {i} \in SUBSET lookup_game(p)
    OBVIOUS
  <2>3. Waiters' = Waiters
    BY <1>1 DEF Waiters, WaitsIn
  <2> QED
    BY <2>1, <2>2, <2>3, GameEndsMove
<1> QED
  BY <1>2, <1>3 DEF play_packet, gameVars

LEMMA DisconnectLobby ==
    ASSUME LobbyServed, QueueRoom, MatchInv', NEW p \in Structs, NEW final, NEW socks, NEW inv,
           fd[p] >= 0 => players[fd[p]] \in {p, NoPlayer},
           disconnect(p, final, socks, inv)
    PROVE  LobbyMoves
<1> DEFINE over == IF final THEN lookup_game(p) ELSE {}
<1>0. MatchInv /\ TypeOK
  BY DEF LobbyServed, KeptInv, MatchInv, RegInv, TypeInv
<1>1. /\ over \in SUBSET lookup_game(p) /\ UNCHANGED name
      /\ games' = [i \in GameSlots |-> IF i \in over THEN NoGame ELSE games[i]]
      /\ \/ fd[p] < 0 /\ UNCHANGED <<players, queue_key, queue>>
         \/ /\ fd[p] >= 0 /\ players' = [players EXCEPT ![fd[p]] = NoPlayer]
            /\ \E id \in find_player_in_queue(name[p]) :
                  /\ queue_key' = KeyStored(id, name[p])
                  /\ queue' = [queue EXCEPT ![id] = FALSE]
  BY DEF disconnect, RemovedFromQueue, pman_handle_dc, regVars, queueVars
<1> HIDE DEF over
<1>2. CASE UNCHANGED <<players, queue_key, queue>>
  <2>1. Waiters' = Waiters
    BY <1>1, <1>2 DEF Waiters, WaitsIn
  <2> QED
    BY <1>1, <2>1, GameEndsMove
<1>3. ASSUME fd[p] >= 0, players' = [players EXCEPT ![fd[p]] = NoPlayer],
             NEW id \in find_player_in_queue(name[p]),
             queue_key' = KeyStored(id, name[p]), queue' = [queue EXCEPT ![id] = FALSE]
      PROVE  LobbyMoves
  <2>1. /\ \A f \in Slots : players'[f] = IF f = fd[p] THEN NoPlayer ELSE players[f]
        /\ \A i \in Slots : queue'[i] <=> i # id /\ queue[i]
        /\ \A i \in Slots \ {id} : queue_key'[i] = queue_key[i]
    BY <1>0, <1>3 DEF TypeOK, RegType, QueueType, KeyStored
  <2>2. Waiters' \subseteq Waiters
    BY <1>1, <2>1, NobodyJoins
  <2>3. CASE over = {}
    <3>1. UNCHANGED games
      BY <1>0, <1>1, <2>3 DEF TypeOK, GameType
    <3> QED
      BY <2>2, <3>1, SameGamesMove
  <2>4. ASSUME NEW k \in over PROVE LobbyMoves
    <3>1. k \in GameSlots /\ Involves(games[k], p)
      BY <1>1, <2>4 DEF lookup_game, Least
    <3>2. ps[p] = "PLAY"
      BY <1>0, <3>1, PlayersPlay DEF MatchInv, MatchOK
    <3>3. PICK g \in Slots : players[g] = p
      BY <1>3, <3>2 DEF LobbyServed, KeptInv, ReplacedIsNew, Registered
    <3>4. name[p] \in Names /\ id # -1 /\ p # NoPlayer
      BY <1>0, <1>3, SlotsAreInts DEF TypeOK, StructType, QueueRoom
    <3>5. ~queue[id]
      BY <1>0, <3>2, <3>3, <3>4, FlagOfName
    <3>6. ASSUME NEW q \in Waiters PROVE q \in Waiters'
      <4>1. PICK f \in Slots, i \in Slots : players[f] = q /\ queue[i] /\ queue_key[i] = name[q]
        BY DEF Waiters, WaitsIn
      <4>2. q \in Structs /\ ps[q] = "QUEUE"
        BY <1>0, Registry, WaiterWaits DEF QueueServed, Waiters, WaitsIn
      <4>3. f # fd[p] /\ i # id
        BY <1>3, <3>2, <3>5, <4>1, <4>2, SlotsAreInts
      <4> QED
        BY <1>1, <2>1, <4>1, <4>2, <4>3 DEF Waiters, WaitsIn
    <3>7. Waiters' = Waiters
      BY <2>2, <3>6
    <3> QED
      BY <1>1, <3>7, GameEndsMove
  <2> QED
    BY <2>3, <2>4
<1> QED
  BY <1>1, <1>2, <1>3

\* A new client has no name of his own, so no flag is his.
LEMMA NewClientLobby ==
    ASSUME LobbyServed, MatchInv', handle_new_client
    PROVE  LobbyMoves
<1>0. MatchInv /\ RegInv /\ TypeOK /\ QueueServed
  BY Registry DEF LobbyServed, KeptInv, MatchInv, RegInv, TypeInv
<1>1. UNCHANGED <<name, queue_key, queue, games>>
  BY DEF handle_new_client, queueVars, gameVars
<1>2. CASE UNCHANGED players
  BY <1>1, <1>2, QuietLobby
<1>3. ASSUME NEW f \in Slots, allocated < MaxStructs, players' = [players EXCEPT ![f] = allocated + 1]
      PROVE  LobbyMoves
  <2>1. PICK new \in Structs : new = allocated + 1 /\ new > allocated
    BY <1>0, <1>3, BoundAssumption DEF TypeOK, StructType, Structs
  <2>2. name[new] = NewPlayer
    BY <1>0, <2>1 DEF RegInv, RegOK, RegistryAllocated
  <2>3. \A i \in Slots : queue[i] => queue_key[i] # NewPlayer
    BY <1>0, WaiterWaits DEF QueueServed
  <2>4. \A g \in Slots : players'[g] = IF g = f THEN new ELSE players[g]
    BY <1>0, <1>3, <2>1 DEF TypeOK, RegType
  <2>5. Waiters' \subseteq Waiters
    BY <1>1, <2>2, <2>3, <2>4 DEF Waiters, WaitsIn
  <2> QED
    BY <1>1, <2>5, SameGamesMove
<1> QED
  BY <1>2, <1>3 DEF handle_new_client

LEMMA HandlePacketLobby ==
    ASSUME LobbyServed, QueueRoom, MatchInv', NEW f \in Fds \cap Slots, NEW p \in Structs,
           players[f] = p, fd[p] = f, conn[f] \in {"up", "eof"}, HandlePacket(p)
    PROVE  LobbyMoves
<1>1. fd[p] >= 0 /\ ~(fd[p] < 0) /\ ps[p] \in PlayerStates
  BY SlotsAreInts DEF LobbyServed, KeptInv, MatchInv, RegInv, TypeInv, TypeOK, StructType
<1>2. CASE UNCHANGED <<structVars, regVars, queueVars, gameVars>>
  BY <1>2, QuietLobby DEF structVars, regVars, queueVars, gameVars
<1>3. ASSUME NEW k \in packet_handlers(ps[p]),
             \/ k = "HELLO" /\ \E n \in Names \cup LongNames : p_hello(p, n)
             \/ k = "QUEUE" /\ p_queue(p)
             \/ k = "LEAVE_QUEUE" /\ p_leave_queue(p)
             \/ k \in PlayPackets /\ play_packet(p, k)
             \/ k = "KEEP_ALIVE" /\ p_keepalive(p)
      PROVE  LobbyMoves
  <2>1. CASE p_keepalive(p)
    BY <2>1, QuietLobby DEF p_keepalive, keepSession, regVars, queueVars, gameVars
  <2> QED
    BY <1>1, <1>3, <2>1, HandlersByState, HelloLobby, QueueLobby, LeaveQueueLobby, PlayLobby
<1> QED
  BY <1>1, <1>2, <1>3 DEF HandlePacket

LEMMA StepLobby ==
    ASSUME Regular, LobbyServed, QueueRoom, MatchInv', [Next]_vars
    PROVE  LobbyMoves
<1>0. RegInv /\ MatchInv
  BY DEF LobbyServed, KeptInv, MatchInv
<1>1. CASE UNCHANGED <<name, regVars, queueVars, gameVars>>
  BY <1>1, QuietLobby DEF regVars, queueVars, gameVars
<1>2. ASSUME NEW f \in Fds, read_packet(f) PROVE LobbyMoves
  <2>1. PICK p \in Owner(f) : HandlePacket(p)
    BY <1>2 DEF read_packet
  <2>2. f \in client_socks /\ conn[f] \in {"up", "eof"}
    BY <1>2 DEF read_packet
  <2>3. p \in Structs /\ f \in Slots /\ players[f] = p /\ fd[p] = f
    BY <1>0, <2>2, OwnerServed
  <2> QED
    BY <2>1, <2>2, <2>3, HandlePacketLobby
<1>3. ASSUME NEW f \in Fds, read_eof(f) PROVE LobbyMoves
  <2>1. PICK p \in Owner(f) : disconnect(p, FALSE, client_socks \ {f}, invalid_sends)
    BY <1>3 DEF read_eof
  <2>2. f \in client_socks
    BY <1>3 DEF read_eof
  <2>3. p \in Structs /\ players[fd[p]] = p
    BY <1>0, <2>2, OwnerServed
  <2> QED
    BY <2>1, <2>3, DisconnectLobby
<1>4. ASSUME invalid_data PROVE LobbyMoves
  <2> DEFINE inv == [invalid_sends EXCEPT ![player] = @ + 1]
  <2>1. player \in Structs /\ pc = "inval" /\ ServedStays
    BY <1>0, <1>4 DEF invalid_data, MatchInv, RegInv, TypeInv, ServingSomeone
  <2>2. CASE disconnect(player, TRUE, client_socks, inv)
    BY <2>1, <2>2, DisconnectLobby DEF ServedStays
  <2> QED
    BY <1>1, <1>4, <2>2 DEF invalid_data
<1>5. ASSUME NEW t \in Threads, keepalive(t) PROVE LobbyMoves
  <2>1. CASE UNCHANGED <<structVars, regVars, queueVars, gameVars>>
    BY <1>1, <2>1 DEF structVars
  <2>2. ASSUME thread[t].pc = "loop", NEW p \in Watched(t), NEW final \in BOOLEAN,
               disconnect(p, final, client_socks, invalid_sends)
        PROVE  LobbyMoves
    <3>1. p \in Structs /\ (fd[p] >= 0 => players[fd[p]] \in {p, NoPlayer})
      BY <1>0, <2>2, WatchedUnreplaced
    <3> QED
      BY <2>2, <3>1, DisconnectLobby
  <2> QED
    BY <1>1, <1>5, <2>1, <2>2 DEF keepalive, keepalive_start, keepalive_loop
<1>6. CASE (\E f \in Fds : peer_closes(f)) \/ tick \/ UNCHANGED vars
  BY <1>1, <1>6 DEF peer_closes, tick, vars, structVars
<1>7. ~read_next_packet /\ ~buffer_rest
  BY <1>0 DEF MatchInv, ServedStays, read_next_packet, buffer_rest
<1> QED
  BY <1>2, <1>3, <1>4, <1>5, <1>6, <1>7, NewClientLobby DEF Next, main

---------------------------------------------------------------------------
\* The refinement.

LEMMA LobbyStep ==
    ASSUME MatchInv, LobbyMoves
    PROVE  [L!Next]_(L!vars)
<1>1. \A q \in Structs : ps[q] # "PLAY" => q \notin L!Busy
  BY BusyPlay DEF L!Busy
<1>2. CASE UNCHANGED <<waiting, playing>>
  BY <1>2 DEF L!vars
<1>3. CASE waiting' = {} /\ UNCHANGED playing
  BY <1>3 DEF L!vars, L!Next, L!GiveUp
<1>4. ASSUME waiting = {}, UNCHANGED playing, NEW p \in Structs, ps[p] # "PLAY", waiting' = {p}
      PROVE  \E q \in Structs : L!Join(q)
  BY <1>1, <1>4 DEF L!Join
<1>5. ASSUME waiting' = {}, NEW p \in Structs \ waiting, NEW q \in waiting, ps[p] # "PLAY",
             playing' = playing \cup {{p, q}}
      PROVE  \E r \in Structs : L!Pair(r)
  BY <1>1, <1>5 DEF L!Pair
<1>6. ASSUME UNCHANGED waiting, NEW g \in playing, playing' = playing \ {g}
      PROVE  \E h \in playing : L!Finish(h)
  BY <1>6 DEF L!Finish
<1> QED
  BY <1>2, <1>3, <1>4, <1>5, <1>6 DEF LobbyMoves, L!Next

LEMMA InitLobby == Init => L!Init
<1> SUFFICES ASSUME Init PROVE waiting = {} /\ playing = {}
  BY DEF L!Init
<1>1. \A i \in Slots : ~queue[i]
  BY DEF Init
<1>2. \A i \in GameSlots : games[i] = NoGame
  BY DEF Init
<1> QED
  BY <1>1, <1>2 DEF waiting, playing

\* The server implements Lobby: whatever packets, disconnections, returns and time-outs come in
\* whatever order, a player waits alone until he is paired or gives up, and plays one game at a
\* time, as long as the tables have room.
THEOREM ServerImplementsLobby ==
    ASSUME Regular
    PROVE  Spec /\ []QueueRoom /\ []StoreRoom => LobbySpec
<1> DEFINE I == KeptInv /\ TypeInv /\ AtMostOneWaiting /\ FreeSlotIsFree
<1>1. Init => I
  BY InitKept, InitType, GameSlotZero DEF Init, AtMostOneWaiting, FreeSlotIsFree
<1>2. I /\ QueueRoom /\ StoreRoom /\ [Next]_vars => I' /\ [L!Next]_(L!vars)
  <2> SUFFICES ASSUME KeptInv, TypeInv, AtMostOneWaiting, FreeSlotIsFree,
                      QueueRoom, StoreRoom, [Next]_vars
               PROVE  I' /\ [L!Next]_(L!vars)
    OBVIOUS
  <2>1. KeptInv'
    BY StepKept
  <2>2. TypeInv' /\ AtMostOneWaiting' /\ FreeSlotIsFree'
    BY StepWaiting, StepFree DEF WaitInv, FreeInv
  <2>3. MatchInv /\ MatchInv' /\ LobbyServed
    BY <2>1 DEF KeptInv, LobbyServed
  <2>4. LobbyMoves
    BY <2>3, StepLobby
  <2>5. [L!Next]_(L!vars)
    BY <2>3, <2>4, LobbyStep
  <2> QED
    BY <2>1, <2>2, <2>5
<1>3. Init => L!Init
  BY InitLobby
<1> QED
  BY <1>1, <1>2, <1>3, PTL DEF Spec, LobbySpec, L!Spec

\* The same without a condition on the run, when fewer players connect than there are slots,
\* under no more names than there are keys.
THEOREM ServerImplementsLobbyWithFewClients ==
    ASSUME Regular, IsFiniteSet(Names), Cardinality(Names) <= MaxPlayers, MaxStructs < MaxPlayers
    PROVE  Spec => LobbySpec
BY RoomWithFewClients, ServerImplementsLobby, PTL
=============================================================================
