--------------------------- MODULE SessionProofs ---------------------------
(***************************************************************************)
(* Who waits and who plays, for every instance of ChessServer in which a   *)
(* read holds one packet and every descriptor is below the limit, as long  *)
(* as the tables have room.                                                *)
(***************************************************************************)
EXTENDS ChessServerProofs, FiniteSetTheorems

USE DEF NoPlayer, short_term_dc, long_term_dc

\* A read holds one packet, and handle_new_client creates a player for every client.
Regular == Pipelined = FALSE /\ LastFd < MaxPlayers

\* find_player_in_queue finds an index for every name.
QueueRoom == \A n \in Names : -1 \notin find_player_in_queue(n)

\* The table of keys lists a name once, and the cell before the flags is not set.
KeysDistinct  == \A i, j \in Slots : queue_key[i] # NoKey /\ queue_key[i] = queue_key[j] => i = j
NoFlagOutside == ~queue[-1]

\* Every flag in Q is that of somebody in PL, who waits; names of players are not shared.
FlagsWaitIn(Q, K, PL, N, S) ==
    \A i \in Slots : Q[i] =>
       \E f \in Slots : PL[f] # NoPlayer /\ N[PL[f]] = K[i] /\ S[PL[f]] = "QUEUE"
NotShared(PL, N) ==
    \A f, g \in Slots :
       PL[f] # NoPlayer /\ PL[g] # NoPlayer /\ N[PL[f]] = N[PL[g]] /\ N[PL[f]] # NewPlayer => f = g
Named(N, S) == \A p \in Structs : S[p] # "JUST_CONNECTED" => N[p] # NewPlayer

\* What add_to_queue does for p to the states and the games.
QueuedOrPaired(p, PL) ==
    \/ UNCHANGED games /\ ps' \in {ps, [ps EXCEPT ![p] = "QUEUE"]}
    \/ \E op \in Structs \ {p} :
          /\ ps[op] = "QUEUE" /\ \E f \in Slots : PL[f] = op
          /\ ps' = [ps EXCEPT ![p] = "PLAY", ![op] = "PLAY"]
          /\ \/ UNCHANGED games
             \/ \E i \in GameSlots : games' = [games EXCEPT ![i] = [white |-> p, black |-> op]]

\* Nobody logs in or is logged out, and those new to a game are in PL.
KeepsLogin == \A q \in Structs :
    ps'[q] = ps[q] \/ (ps[q] # "JUST_CONNECTED" /\ ps'[q] # "JUST_CONNECTED")
NewInGameFrom(PL) == \A i \in GameSlots, q \in Structs :
    Involves(games'[i], q) => Involves(games[i], q) \/ \E f \in Slots : PL[f] = q

---------------------------------------------------------------------------
\* The queue.

\* The index found is the one of the name, or a free one if the name has none.
LEMMA IndexOfName ==
    ASSUME NEW n \in Names, NEW id \in find_player_in_queue(n), id # -1
    PROVE  /\ id \in Slots
           /\ queue_key[id] = n \/ (queue_key[id] = NoKey /\ \A i \in Slots : queue_key[i] # n)
<1> DEFINE found == {i \in Slots : queue_key[i] = n}
<1>1. found \in SUBSET Nat
  BY SlotsAreInts
<1>2. Least(found) = {} => found = {}
  BY <1>1, LeastExists
<1>3. id \in Least(found) \/ (Least(found) = {} /\ id \in Least({i \in Slots : queue_key[i] = NoKey}))
  BY DEF find_player_in_queue
<1> QED
  BY <1>2, <1>3, LeastIsSubset DEF Least

\* The key of a name is stored at the index found for it, and nowhere else.
LEMMA KeyStoredOnce ==
    ASSUME KeysDistinct, NEW n \in Names, NEW id \in Slots,
           queue_key[id] = n \/ (queue_key[id] = NoKey /\ \A i \in Slots : queue_key[i] # n)
    PROVE  /\ KeyStored(id, n)[id] = n
           /\ \A i \in Slots \ {id} : KeyStored(id, n)[i] = queue_key[i] /\ queue_key[i] # n
           /\ \A i, j \in Slots :
                KeyStored(id, n)[i] # NoKey /\ KeyStored(id, n)[i] = KeyStored(id, n)[j] => i = j
<1>0. n # NoKey
  BY NameAssumption
<1>1. \A i \in Slots : KeyStored(id, n)[i] = IF i = id THEN n ELSE queue_key[i]
  BY DEF KeyStored
<1>2. \A i \in Slots \ {id} : queue_key[i] # n
  BY <1>0 DEF KeysDistinct
<1> HIDE <1>0
<1>3. \A i, j \in Slots :
         KeyStored(id, n)[i] # NoKey /\ KeyStored(id, n)[i] = KeyStored(id, n)[j] => i = j
  BY <1>1, <1>2 DEF KeysDistinct
<1> QED
  BY <1>1, <1>2, <1>3

LEMMA LookForOpponentEffect ==
    ASSUME TypeOK, NEW p \in Structs, NEW id \in Slots,
           NEW PL \in [Slots -> Structs \cup {NoPlayer}], NEW F, NEW N \in [Structs -> Names],
           NEW V, NEW rval,
           KeysDistinct, NoFlagOutside, NotShared(PL, N), Named(N, ps),
           FlagsWaitIn(queue, queue_key, PL, N, ps),
           queue_key[id] = N[p] \/ (queue_key[id] = NoKey /\ \A i \in Slots : queue_key[i] # N[p]),
           \E f \in Slots : PL[f] = p, ~queue[id],
           look_for_opponent(p, id, PL, F, N, V, rval)
    PROVE  /\ KeysDistinct' /\ NoFlagOutside'
           /\ FlagsWaitIn(queue', queue_key', PL, N, ps')
           /\ QueuedOrPaired(p, PL)
<1> DEFINE key      == KeyStored(id, N[p])
           there(i) == lookup_player_by_name(key[i], PL, N)
           match    == Least({i \in Flagged(id) : there(i) # {}})
           gone     == {i \in Flagged(id) : there(i) = {} /\ \A m \in match : i < m}
<1>1. /\ key[id] = N[p]
      /\ \A i \in Slots \ {id} : key[i] = queue_key[i] /\ queue_key[i] # N[p]
      /\ \A i, j \in Slots : key[i] # NoKey /\ key[i] = key[j] => i = j
  BY KeyStoredOnce
<1>2. queue_key' = [i \in Slots |-> IF i \in gone THEN NoKey ELSE key[i]]
  BY DEF look_for_opponent
<1>3. KeysDistinct'
  <2> HIDE DEF key, gone
  <2> QED
    BY <1>1, <1>2 DEF KeysDistinct
<1>4. DOMAIN queue = Slots \cup {-1} /\ -1 \notin Slots /\ id # -1
  BY SlotsAreInts DEF TypeOK, QueueType
\* Those flagged before have a name of their own.
<1>5. ASSUME NEW i \in Slots, queue[i]
      PROVE  i # id /\ \E f \in Slots : /\ PL[f] \in Structs \ {p} /\ N[PL[f]] = key[i]
                                        /\ ps[PL[f]] = "QUEUE" /\ N[PL[f]] # NewPlayer
  <2>1. PICK f \in Slots : PL[f] # NoPlayer /\ N[PL[f]] = queue_key[i] /\ ps[PL[f]] = "QUEUE"
    BY <1>5 DEF FlagsWaitIn
  <2>2. i # id /\ key[i] = queue_key[i] /\ queue_key[i] # N[p]
    BY <1>1, <1>5
  <2> QED
    BY <2>1, <2>2 DEF Named
<1>6. CASE /\ queue' = [i \in DOMAIN queue |-> i = id \/ (queue[i] /\ i \notin gone)]
           /\ ps' = [ps EXCEPT ![p] = "QUEUE"] /\ UNCHANGED gameVars
  <2>1. NoFlagOutside'
    <3>1. ~(-1 \in gone) /\ queue'[-1] = (-1 = id \/ (queue[-1] /\ -1 \notin gone))
      BY <1>4, <1>6 DEF Flagged
    <3> QED
      BY <1>4, <3>1 DEF NoFlagOutside
  <2>2. ASSUME NEW i \in Slots, queue'[i]
        PROVE  \E f \in Slots : PL[f] # NoPlayer /\ N[PL[f]] = queue_key'[i] /\ ps'[PL[f]] = "QUEUE"
    <3>1. queue'[i] = (i = id \/ (queue[i] /\ i \notin gone))
      BY <1>4, <1>6
    <3>2. i \notin gone
      BY <2>2, <3>1 DEF Flagged
    <3>3. queue_key'[i] = key[i]
      BY <1>2, <3>2
    <3>4. ps'[p] = "QUEUE" /\ \A q \in Structs \ {p} : ps'[q] = ps[q]
      BY <1>6 DEF TypeOK, StructType
    <3>5. CASE i = id
      BY <1>1, <3>3, <3>4, <3>5, SlotsAreInts
    <3>6. CASE queue[i]
      BY <1>5, <3>3, <3>4, <3>6, SlotsAreInts
    <3> QED
      BY <2>2, <3>1, <3>5, <3>6
  <2> QED
    BY <1>3, <1>6, <2>1, <2>2 DEF FlagsWaitIn, QueuedOrPaired, gameVars
<1>7. ASSUME NEW i \in match, NEW op \in there(i),
             queue' = [j \in DOMAIN queue |-> j # id /\ j # i /\ queue[j] /\ j \notin gone],
             \/ game_create(p, op, rval)
             \/ ps' = [ps EXCEPT ![p] = "QUEUE"] /\ UNCHANGED gameVars
      PROVE  /\ NoFlagOutside' /\ FlagsWaitIn(queue', queue_key', PL, N, ps')
             /\ QueuedOrPaired(p, PL)
  <2>1. i \in Slots /\ queue[i] /\ i # id
    BY LeastIsSubset DEF Flagged
  <2>2. op \in Structs /\ N[op] = key[i] /\ \E f \in Slots : PL[f] = op
    BY SlotsAreInts DEF lookup_player_by_name, Least
  <2>3. ps[op] = "QUEUE" /\ op # p
    <3>1. PICK f \in Slots : /\ PL[f] \in Structs \ {p} /\ N[PL[f]] = key[i]
                             /\ ps[PL[f]] = "QUEUE" /\ N[PL[f]] # NewPlayer
      BY <1>5, <2>1
    <3>2. PL[f] = op
      BY <2>2, <3>1, SlotsAreInts DEF NotShared
    <3> QED
      BY <3>1, <3>2
  <2>4. /\ \A q \in Structs \ {p, op} : ps'[q] = ps[q]
        /\ QueuedOrPaired(p, PL)
    <3>1. CASE ps' = [ps EXCEPT ![p] = "QUEUE"] /\ UNCHANGED gameVars
      BY <3>1 DEF QueuedOrPaired, gameVars, TypeOK, StructType
    <3>2. CASE game_create(p, op, rval)
      <4>1. ps' = [ps EXCEPT ![p] = "PLAY", ![op] = "PLAY"]
        BY <3>2 DEF game_create
      <4>2. UNCHANGED games \/ \E j \in GameSlots : games' = [games EXCEPT ![j] = [white |-> p, black |-> op]]
        <5>1. CASE free_game_index < 0
          BY <3>2, <5>1, GameSlotZero DEF game_create, gameVars, TypeOK, GameType
        <5>2. CASE free_game_index >= 0
          <6>1. free_game_index \in GameSlots
            BY <5>2 DEF TypeOK, GameType
          <6>2. ~(free_game_index < 0)
            BY <6>1, GameSlotZero
          <6>3. games' = [games EXCEPT ![free_game_index] = [white |-> p, black |-> op]]
            BY <3>2, <6>2 DEF game_create
          <6> QED
            BY <6>1, <6>3
        <5> QED
          BY <5>1, <5>2, GameSlotZero DEF TypeOK, GameType
      <4>3. \A q \in Structs \ {p, op} : ps'[q] = ps[q]
        BY <4>1 DEF TypeOK, StructType
      <4> HIDE DEF key, there, match, gone
      <4>4. QueuedOrPaired(p, PL)
        BY <2>2, <2>3, <4>1, <4>2 DEF QueuedOrPaired
      <4> QED
        BY <4>3, <4>4
    <3> QED
      BY <1>7, <3>1, <3>2
  <2>5. NoFlagOutside'
    BY <1>4, <1>7 DEF NoFlagOutside
  <2>6. ASSUME NEW j \in Slots, queue'[j]
        PROVE  \E f \in Slots : PL[f] # NoPlayer /\ N[PL[f]] = queue_key'[j] /\ ps'[PL[f]] = "QUEUE"
    <3>1. j # id /\ j # i /\ queue[j] /\ j \notin gone
      BY <1>4, <1>7, <2>6
    <3>2. queue_key'[j] = key[j]
      BY <1>2, <3>1
    <3>3. PICK f \in Slots : /\ PL[f] \in Structs \ {p} /\ N[PL[f]] = key[j]
                             /\ ps[PL[f]] = "QUEUE" /\ N[PL[f]] # NewPlayer
      BY <1>5, <3>1
    <3>4. key[j] # key[i]
      <4>1. N[PL[f]] \in Names
        BY <3>3
      <4> QED
        BY <1>1, <2>1, <3>1, <3>3, <4>1, NameAssumption
    <3>5. PL[f] # op
      BY <2>2, <3>3, <3>4
    <3> QED
      BY <2>4, <3>2, <3>3, <3>5, SlotsAreInts
  <2> QED
    BY <2>4, <2>5, <2>6 DEF FlagsWaitIn
<1>8. \/ /\ queue' = [i \in DOMAIN queue |-> i = id \/ (queue[i] /\ i \notin gone)]
         /\ ps' = [ps EXCEPT ![p] = "QUEUE"] /\ UNCHANGED gameVars
      \/ \E i \in match : \E op \in there(i) :
            /\ queue' = [j \in DOMAIN queue |-> j # id /\ j # i /\ queue[j] /\ j \notin gone]
            /\ \/ game_create(p, op, rval)
               \/ ps' = [ps EXCEPT ![p] = "QUEUE"] /\ UNCHANGED gameVars
  BY DEF look_for_opponent, gameVars
<1> QED
  BY <1>3, <1>6, <1>7, <1>8

LEMMA AddToQueueEffect ==
    ASSUME TypeOK, QueueRoom, NEW p \in Structs,
           NEW PL \in [Slots -> Structs \cup {NoPlayer}], NEW F, NEW N \in [Structs -> Names],
           NEW V, NEW rval,
           KeysDistinct, NoFlagOutside, NotShared(PL, N), Named(N, ps),
           FlagsWaitIn(queue, queue_key, PL, N, ps),
           \E f \in Slots : PL[f] = p,
           add_to_queue(p, PL, F, N, V, rval)
    PROVE  /\ KeysDistinct' /\ NoFlagOutside'
           /\ FlagsWaitIn(queue', queue_key', PL, N, ps')
           /\ QueuedOrPaired(p, PL)
<1>1. PICK id \in find_player_in_queue(N[p]) :
        \/ ~queue[id] /\ look_for_opponent(p, id, PL, F, N, V, rval)
        \/ queue_key' = KeyStored(id, N[p]) /\ UNCHANGED <<queue, ps, gameVars>>
  BY DEF add_to_queue
<1>2. N[p] \in Names /\ id # -1
  BY <1>1 DEF QueueRoom
<1>3. /\ id \in Slots
      /\ \/ queue_key[id] = N[p]
         \/ queue_key[id] = NoKey /\ \A i \in Slots : queue_key[i] # N[p]
  BY <1>1, <1>2, IndexOfName
<1>4. CASE ~queue[id] /\ look_for_opponent(p, id, PL, F, N, V, rval)
  BY <1>3, <1>4, LookForOpponentEffect
<1>5. CASE queue_key' = KeyStored(id, N[p]) /\ UNCHANGED <<queue, ps, gameVars>>
  <2>1. /\ \A i \in Slots \ {id} : queue_key'[i] = queue_key[i]
        /\ \A i, j \in Slots : queue_key'[i] # NoKey /\ queue_key'[i] = queue_key'[j] => i = j
    BY <1>2, <1>3, <1>5, KeyStoredOnce
  <2>2. queue[id] => queue_key'[id] = queue_key[id]
    <3>1. queue[id] => queue_key[id] \in Names
      BY <1>3 DEF FlagsWaitIn
    <3>2. queue[id] => queue_key[id] = N[p]
      BY <1>3, <3>1, NameAssumption
    <3> QED
      BY <1>2, <1>3, <1>5, <3>2, KeyStoredOnce
  <2>3. FlagsWaitIn(queue', queue_key', PL, N, ps')
    BY <1>5, <2>1, <2>2 DEF FlagsWaitIn
  <2> QED
    BY <1>5, <2>1, <2>3 DEF KeysDistinct, NoFlagOutside, QueuedOrPaired, gameVars
<1> QED
  BY <1>1, <1>4, <1>5

---------------------------------------------------------------------------
\* The invariant.  Whoever waits or plays has a name; a new client whose packets can be read has
\* none; the player at _inv_data has not been replaced; games share no players, who are in PLAY.

FlagsWait == FlagsWaitIn(queue, queue_key, players, name, ps)
NamedOnceLoggedIn == Named(name, ps)
NewIsUnnamed ==
    \A f \in Fds \cap Slots :
       /\ players[f] # NoPlayer /\ conn[f] \in {"up", "eof"}
       /\ ps[players[f]] = "JUST_CONNECTED"
       => name[players[f]] = NewPlayer
ServedStays ==
    /\ pc # "parse"
    /\ pc = "inval" /\ fd[player] >= 0 => players[fd[player]] \in {player, NoPlayer}
GamesApart ==
    \A i \in GameSlots : games[i] # NoGame =>
       /\ games[i].white \in Structs /\ games[i].black \in Structs
       /\ games[i].white # games[i].black
       /\ ps[games[i].white] = "PLAY" /\ ps[games[i].black] = "PLAY"
       /\ \A j \in GameSlots, q \in Structs :
            Involves(games[i], q) /\ Involves(games[j], q) => i = j

MatchOK  == KeysDistinct /\ NoFlagOutside /\ FlagsWait /\ NamedOnceLoggedIn /\ NewIsUnnamed /\ GamesApart
MatchInv == RegInv /\ MatchOK /\ ServedStays

LEMMA NotInNoGame == \A q \in Structs : ~Involves(NoGame, q)
BY SlotsAreInts DEF NoGame, Involves

\* A player of a game is in PLAY.
LEMMA PlayersPlay ==
    ASSUME GamesApart, NEW i \in GameSlots, NEW q \in Structs, Involves(games[i], q)
    PROVE  games[i] # NoGame /\ ps[q] = "PLAY"
BY NotInNoGame DEF GamesApart, Involves

\* Games only end, and nobody loses the state PLAY while his game goes on.
GamesEndAtMost ==
    /\ \A i \in GameSlots : games'[i] = games[i] \/ games'[i] = NoGame
    /\ \A q \in Structs : ps[q] = "PLAY" /\ ps'[q] # "PLAY" =>
         \A i \in GameSlots : Involves(games[i], q) => games'[i] = NoGame

LEMMA EndedGamesApart ==
    ASSUME GamesApart, GamesEndAtMost
    PROVE  GamesApart'
<1> SUFFICES ASSUME NEW i \in GameSlots, games'[i] # NoGame
             PROVE  /\ games'[i].white \in Structs /\ games'[i].black \in Structs
                    /\ games'[i].white # games'[i].black
                    /\ ps'[games'[i].white] = "PLAY" /\ ps'[games'[i].black] = "PLAY"
                    /\ \A j \in GameSlots, q \in Structs :
                         Involves(games'[i], q) /\ Involves(games'[j], q) => i = j
  BY DEF GamesApart, Involves
<1>1. games'[i] = games[i] /\ games[i] # NoGame
  BY DEF GamesEndAtMost
<1>2. \A j \in GameSlots, q \in Structs : Involves(games'[j], q) => Involves(games[j], q)
  BY NotInNoGame DEF GamesEndAtMost
<1>3. Involves(games[i], games[i].white) /\ Involves(games[i], games[i].black)
  BY DEF Involves
<1> QED
  BY <1>1, <1>2, <1>3 DEF GamesApart, GamesEndAtMost

\* A new game is between players who were in none.
LEMMA PairedGamesApart ==
    ASSUME GamesApart, TypeOK, NEW p \in Structs, ps[p] # "PLAY", NEW PL, QueuedOrPaired(p, PL)
    PROVE  GamesApart'
<1>1. CASE UNCHANGED games /\ ps' \in {ps, [ps EXCEPT ![p] = "QUEUE"]}
  <2>1. \A q \in Structs : ps[q] = "PLAY" => ps'[q] = "PLAY"
    BY <1>1 DEF TypeOK, StructType
  <2> QED
    BY <1>1, <2>1, EndedGamesApart DEF GamesEndAtMost
<1>2. ASSUME NEW op \in Structs \ {p}, ps[op] = "QUEUE",
             ps' = [ps EXCEPT ![p] = "PLAY", ![op] = "PLAY"]
      PROVE  /\ ps'[p] = "PLAY" /\ ps'[op] = "PLAY"
             /\ \A q \in Structs : ps[q] = "PLAY" => ps'[q] = "PLAY"
             /\ \A i \in GameSlots : ~Involves(games[i], p) /\ ~Involves(games[i], op)
  BY <1>2, PlayersPlay DEF TypeOK, StructType
<1>3. ASSUME NEW op \in Structs \ {p}, ps[op] = "QUEUE",
             ps' = [ps EXCEPT ![p] = "PLAY", ![op] = "PLAY"], UNCHANGED games
      PROVE  GamesApart'
  BY <1>2, <1>3, EndedGamesApart DEF GamesEndAtMost
<1>4. ASSUME NEW op \in Structs \ {p}, ps[op] = "QUEUE",
             ps' = [ps EXCEPT ![p] = "PLAY", ![op] = "PLAY"],
             NEW k \in GameSlots, games' = [games EXCEPT ![k] = [white |-> p, black |-> op]]
      PROVE  GamesApart'
  <2> DEFINE new == [white |-> p, black |-> op]
  <2>0. /\ ps'[p] = "PLAY" /\ ps'[op] = "PLAY"
        /\ \A q \in Structs : ps[q] = "PLAY" => ps'[q] = "PLAY"
        /\ \A i \in GameSlots : ~Involves(games[i], p) /\ ~Involves(games[i], op)
    BY <1>2, <1>4
  <2>1. new.white = p /\ new.black = op /\ \A q : Involves(new, q) => q \in {p, op}
    BY DEF Involves
  <2>2. games'[k] = new /\ \A i \in GameSlots \ {k} : games'[i] = games[i]
    BY <1>4 DEF TypeOK, GameType
  <2>3. \A i \in GameSlots \ {k} : ~Involves(games'[i], p) /\ ~Involves(games'[i], op)
    BY <2>0, <2>2
  <2> HIDE DEF new
  <2>4. ASSUME NEW i \in GameSlots, games'[i] # NoGame
        PROVE  /\ games'[i].white \in Structs /\ games'[i].black \in Structs
               /\ games'[i].white # games'[i].black
               /\ ps'[games'[i].white] = "PLAY" /\ ps'[games'[i].black] = "PLAY"
               /\ \A j \in GameSlots, q \in Structs :
                    Involves(games'[i], q) /\ Involves(games'[j], q) => i = j
    <3>1. CASE i = k
      BY <1>4, <2>0, <2>1, <2>2, <2>3, <3>1
    <3>2. CASE i # k
      <4>1. games'[i] = games[i] /\ games[i] # NoGame
        BY <2>2, <2>4, <3>2
      <4>2. \A q \in Structs : Involves(games'[i], q) /\ Involves(games'[k], q) => i = k
        BY <2>1, <2>2, <2>3, <3>2
      <4>3. \A j \in GameSlots, q \in Structs :
               Involves(games'[i], q) /\ Involves(games'[j], q) => i = j
        BY <2>2, <4>1, <4>2 DEF GamesApart
      <4> QED
        BY <2>0, <4>1, <4>3 DEF GamesApart
    <3> QED
      BY <3>1, <3>2
  <2> QED
    BY <2>4 DEF GamesApart, Involves
<1> QED
  BY <1>1, <1>3, <1>4 DEF QueuedOrPaired

LEMMA PairedFrom ==
    ASSUME TypeOK, NEW p \in Structs, ps[p] # "JUST_CONNECTED", NEW PL, \E f \in Slots : PL[f] = p,
           QueuedOrPaired(p, PL)
    PROVE  KeepsLogin /\ NewInGameFrom(PL)
<1>1. KeepsLogin
  BY DEF KeepsLogin, QueuedOrPaired, TypeOK, StructType
<1>2. CASE UNCHANGED games
  BY <1>1, <1>2 DEF NewInGameFrom
<1>3. ASSUME NEW op \in Structs, \E f \in Slots : PL[f] = op, NEW k \in GameSlots,
             games' = [games EXCEPT ![k] = [white |-> p, black |-> op]]
      PROVE  NewInGameFrom(PL)
  <2>1. \A i \in GameSlots : games'[i] = games[i] \/ games'[i] = [white |-> p, black |-> op]
    BY <1>3 DEF TypeOK, GameType
  <2>2. \A q : Involves([white |-> p, black |-> op], q) => q \in {p, op}
    BY DEF Involves
  <2> QED
    BY <1>3, <2>1, <2>2 DEF NewInGameFrom
<1> QED
  BY <1>1, <1>2, <1>3 DEF QueuedOrPaired

LEMMA EndedFrom ==
    ASSUME GamesEndAtMost, NEW PL
    PROVE  NewInGameFrom(PL)
BY NotInNoGame DEF GamesEndAtMost, NewInGameFrom

\* The names stay, nobody new is served, and whoever changes state has logged in before.
LEMMA SameNames ==
    ASSUME MatchInv, UNCHANGED name,
           \A f \in Fds \cap Slots :
              /\ players'[f] \in {players[f], NoPlayer}
              /\ conn'[f] \in {"up", "eof"} => conn[f] \in {"up", "eof"},
           KeepsLogin
    PROVE  NamedOnceLoggedIn' /\ NewIsUnnamed'
<1> USE DEF KeepsLogin
<1> USE DEF MatchInv, MatchOK
<1>1. NamedOnceLoggedIn'
  BY DEF NamedOnceLoggedIn, Named
<1>2. ASSUME NEW f \in Fds \cap Slots, players'[f] # NoPlayer, conn'[f] \in {"up", "eof"},
             ps'[players'[f]] = "JUST_CONNECTED"
      PROVE  name'[players'[f]] = NewPlayer
  <2>1. players'[f] = players[f] /\ conn[f] \in {"up", "eof"} /\ players[f] \in Structs
    BY <1>2 DEF RegInv, TypeInv, TypeOK, RegType
  <2> QED
    BY <1>2, <2>1 DEF NewIsUnnamed
<1> QED
  BY <1>1, <1>2 DEF NewIsUnnamed

\* Sends do not open sockets.
LEMMA LostOpensNothing ==
    ASSUME SockType, UNCHANGED conn \/ \E S : conn' = Lost(S)
    PROVE  \A f \in Fds : conn'[f] \in {"up", "eof"} => conn[f] = conn'[f]
BY DEF Lost, SockType

\* Flags are at most cleared, and those who wait are left alone.
LEMMA FlagsStay ==
    ASSUME MatchInv, queue'[-1] \in {queue[-1], FALSE},
           \A i \in Slots : queue'[i] => queue[i] /\ queue_key'[i] = queue_key[i],
           \A f \in Slots, i \in Slots :
              /\ players[f] # NoPlayer /\ ps[players[f]] = "QUEUE"
              /\ queue'[i] /\ queue_key[i] = name[players[f]]
              => /\ players'[f] = players[f] /\ name'[players[f]] = name[players[f]]
                 /\ ps'[players[f]] = "QUEUE"
    PROVE  NoFlagOutside' /\ FlagsWait'
<1>1. NoFlagOutside'
  BY DEF MatchInv, MatchOK, NoFlagOutside
<1>2. ASSUME NEW i \in Slots, queue'[i]
      PROVE  \E f \in Slots : /\ players'[f] # NoPlayer /\ name'[players'[f]] = queue_key'[i]
                              /\ ps'[players'[f]] = "QUEUE"
  <2>1. queue[i] /\ queue_key'[i] = queue_key[i]
    BY <1>2
  <2>2. PICK f \in Slots : /\ players[f] # NoPlayer /\ name[players[f]] = queue_key[i]
                           /\ ps[players[f]] = "QUEUE"
    BY <2>1 DEF MatchInv, MatchOK, FlagsWait, FlagsWaitIn
  <2> QED
    BY <1>2, <2>1, <2>2
<1> QED
  BY <1>1, <1>2 DEF FlagsWait, FlagsWaitIn

\* A flag at the index of a name is that of the registered player who has it.
LEMMA FlagOfName ==
    ASSUME MatchInv, NEW n \in Names, NEW id \in find_player_in_queue(n), id # -1, queue[id]
    PROVE  /\ queue_key[id] = n /\ n # NewPlayer
           /\ \A f \in Slots : players[f] # NoPlayer /\ name[players[f]] = n => ps[players[f]] = "QUEUE"
<1> USE DEF MatchInv, MatchOK, RegInv, TypeInv, TypeOK, RegOK
<1>1. /\ id \in Slots
      /\ queue_key[id] = n \/ (queue_key[id] = NoKey /\ \A i \in Slots : queue_key[i] # n)
  BY IndexOfName
<1>2. PICK g \in Slots : /\ players[g] # NoPlayer /\ name[players[g]] = queue_key[id]
                         /\ ps[players[g]] = "QUEUE"
  BY <1>1 DEF FlagsWait, FlagsWaitIn
<1>3. players[g] \in Structs /\ name[players[g]] \in Names /\ name[players[g]] # NewPlayer
  BY <1>2 DEF RegType, StructType, NamedOnceLoggedIn, Named
<1>4. queue_key[id] = n
  BY <1>1, <1>2, <1>3, NameAssumption
<1> QED
  BY <1>2, <1>3, <1>4 DEF NamesUnique

\* The game of p ends and its players are LOGGED_IN, if at all.
LEMMA EndedGame ==
    ASSUME MatchInv, NEW p \in Structs, NEW over \in SUBSET lookup_game(p), NEW q \in Structs,
           q \in UNION {PlayersOf(games[i]) : i \in over}
    PROVE  /\ ps[q] = "PLAY"
           /\ \A j \in GameSlots : Involves(games[j], q) => j \in over
<1> USE DEF MatchInv, MatchOK
<1>1. PICK i \in over : q \in PlayersOf(games[i])
  OBVIOUS
<1>2. i \in GameSlots /\ Involves(games[i], q)
  BY <1>1, LeastIsSubset DEF lookup_game, PlayersOf, Involves
<1>3. games[i] # NoGame /\ ps[q] = "PLAY"
  BY <1>2, PlayersPlay
<1> QED
  BY <1>2, <1>3 DEF GamesApart

LEMMA DisconnectMatch ==
    ASSUME MatchInv, QueueRoom, NEW p \in Structs, NEW final, NEW socks, NEW inv,
           fd[p] >= 0 => players[fd[p]] \in {p, NoPlayer},
           disconnect(p, final, socks, inv)
    PROVE  MatchOK' /\ KeepsLogin /\ GamesEndAtMost
<1> USE DEF MatchInv, MatchOK, RegInv, TypeInv, TypeOK, RegOK
<1> DEFINE over  == IF final THEN lookup_game(p) ELSE {}
           ended == UNION {PlayersOf(games[i]) : i \in over}
<1>0. over \in SUBSET lookup_game(p)
  OBVIOUS
<1>1. /\ UNCHANGED name
      /\ games' = [i \in GameSlots |-> IF i \in over THEN NoGame ELSE games[i]]
      /\ \/ /\ fd[p] < 0 /\ ps' = LoggedIn(ended)
            /\ UNCHANGED <<fd, regVars, queueVars, conn>>
         \/ /\ fd[p] >= 0 /\ RemovedFromQueue(p, LoggedIn(ended)) /\ pman_handle_dc(p, inv)
            /\ conn' = [conn EXCEPT ![fd[p]] = "closed"]
  BY DEF disconnect
<1> HIDE DEF over
<1>2. \A q \in Structs \cap ended :
         ps[q] = "PLAY" /\ \A j \in GameSlots : Involves(games[j], q) => games'[j] = NoGame
  BY <1>0, <1>1, EndedGame
<1> HIDE DEF ended
<1>3. \A q \in Structs : LoggedIn(ended)[q] = IF q \in ended THEN "LOGGED_IN" ELSE ps[q]
  BY DEF LoggedIn
<1>4. \A i \in GameSlots : games'[i] = games[i] \/ games'[i] = NoGame
  BY <1>1
<1>5. CASE /\ fd[p] < 0 /\ ps' = LoggedIn(ended)
           /\ UNCHANGED <<fd, regVars, queueVars, conn>>
  <2>1. \A q \in Structs : ps'[q] = IF q \in ended THEN "LOGGED_IN" ELSE ps[q]
    BY <1>3, <1>5
  <2>2. KeepsLogin /\ GamesEndAtMost /\ GamesApart'
    BY <1>2, <1>4, <2>1, EndedGamesApart DEF GamesEndAtMost, KeepsLogin
  <2>3. NamedOnceLoggedIn' /\ NewIsUnnamed'
    BY <1>1, <1>5, <2>2, SameNames DEF regVars
  <2>4. NoFlagOutside' /\ FlagsWait'
    <3>1. \A f \in Slots : players[f] # NoPlayer /\ ps[players[f]] = "QUEUE" => ps'[players[f]] = "QUEUE"
      BY <1>2, <2>1 DEF RegType
    <3> QED
      BY <1>1, <1>5, <3>1, FlagsStay DEF regVars, queueVars
  <2> QED
    BY <1>5, <2>2, <2>3, <2>4 DEF KeysDistinct, queueVars
<1>6. CASE /\ fd[p] >= 0 /\ RemovedFromQueue(p, LoggedIn(ended)) /\ pman_handle_dc(p, inv)
           /\ conn' = [conn EXCEPT ![fd[p]] = "closed"]
  <2>0. fd[p] \in Slots /\ name[p] \in Names
    BY <1>6 DEF StructType
  <2>1. players' = [players EXCEPT ![fd[p]] = NoPlayer]
    BY <1>6 DEF pman_handle_dc
  <2>2. PICK id \in find_player_in_queue(name[p]) :
           /\ queue_key' = KeyStored(id, name[p])
           /\ queue' = [queue EXCEPT ![id] = FALSE]
           /\ \/ ps' = LoggedIn(ended)
              \/ /\ queue[id] /\ Reaches(fd[p])
                 /\ ps' = [LoggedIn(ended) EXCEPT ![p] = "LOGGED_IN"]
    BY <1>6 DEF RemovedFromQueue
  <2>3. /\ id # -1 /\ id \in Slots
        /\ queue_key[id] = name[p] \/ (queue_key[id] = NoKey /\ \A i \in Slots : queue_key[i] # name[p])
    BY <2>0, <2>2, IndexOfName DEF QueueRoom
  \* p itself is set to LOGGED_IN only if it was in QUEUE.
  <2>4. /\ \A q \in Structs \ {p} : ps'[q] = IF q \in ended THEN "LOGGED_IN" ELSE ps[q]
        /\ \/ ps'[p] = IF p \in ended THEN "LOGGED_IN" ELSE ps[p]
           \/ ps'[p] = "LOGGED_IN" /\ ps[p] = "QUEUE"
    <3>1. CASE ps' = LoggedIn(ended)
      BY <1>3, <3>1
    <3>2. CASE /\ queue[id] /\ Reaches(fd[p])
               /\ ps' = [LoggedIn(ended) EXCEPT ![p] = "LOGGED_IN"]
      <4>1. LoggedIn(ended) \in [Structs -> PlayerStates]
        BY LoggedInType
      <4>2. players[fd[p]] = p
        BY <1>6, <2>0, <3>2 DEF Reaches, SocketsOK
      <4>3. ps[p] = "QUEUE"
        BY <2>0, <2>3, <3>2, <4>2, FlagOfName, SlotsAreInts
      <4> QED
        BY <1>3, <3>2, <4>1, <4>3
    <3> QED
      BY <2>2, <3>1, <3>2
  <2>5. GamesEndAtMost /\ GamesApart'
    BY <1>2, <1>4, <2>4, EndedGamesApart DEF GamesEndAtMost
  <2>6. KeepsLogin /\ NamedOnceLoggedIn' /\ NewIsUnnamed'
    <3>1. \A f \in Fds \cap Slots : players'[f] \in {players[f], NoPlayer}
      BY <2>0, <2>1 DEF RegType
    <3>2. \A f \in Fds : conn'[f] \in {"up", "eof"} => conn[f] \in {"up", "eof"}
      BY <1>6 DEF SockType
    <3>3. KeepsLogin
      BY <1>2, <2>4 DEF KeepsLogin
    <3> QED
      BY <1>1, <3>1, <3>2, <3>3, SameNames
  <2>7. /\ \A i \in Slots \ {id} : queue_key'[i] = queue_key[i] /\ queue_key[i] # name[p]
        /\ \A i, j \in Slots : queue_key'[i] # NoKey /\ queue_key'[i] = queue_key'[j] => i = j
    BY <2>0, <2>2, <2>3, KeyStoredOnce
  <2>8. NoFlagOutside' /\ FlagsWait'
    <3>1. /\ queue'[-1] = queue[-1]
          /\ \A i \in Slots : queue'[i] = (i # id /\ queue[i])
      BY <2>2, <2>3 DEF QueueType
    <3>2. ASSUME NEW f \in Slots, NEW i \in Slots,
                 players[f] # NoPlayer, ps[players[f]] = "QUEUE",
                 queue'[i], queue_key[i] = name[players[f]]
          PROVE  /\ players'[f] = players[f] /\ name'[players[f]] = name[players[f]]
                 /\ ps'[players[f]] = "QUEUE"
      <4>1. players[f] # p /\ players[f] \in Structs
        BY <2>7, <3>1, <3>2 DEF RegType
      <4>2. f # fd[p]
        BY <1>6, <3>2, <4>1
      <4> QED
        BY <1>1, <1>2, <2>1, <2>4, <3>2, <4>1, <4>2 DEF RegType
    <3> QED
      BY <2>7, <3>1, <3>2, FlagsStay
  <2> QED
    BY <2>5, <2>6, <2>7, <2>8 DEF KeysDistinct
<1> QED
  BY <1>1, <1>5, <1>6

---------------------------------------------------------------------------
\* The handlers.

\* In a regular server a readable descriptor belongs to the player registered under it.
LEMMA OwnerServed ==
    ASSUME Regular, RegInv, NEW f \in Fds, f \in client_socks, NEW p \in Owner(f)
    PROVE  p \in Structs /\ p <= allocated /\ f \in Slots /\ players[f] = p /\ fd[p] = f
<1>1. f \in Slots
  BY LimitAssumption, BoundAssumption DEF Regular, Fds, Slots
<1>2. players[f] # NoPlayer
  BY <1>1 DEF RegInv, RegOK, SocketsOK
<1> QED
  BY <1>1, <1>2, OwnerRegistered DEF RegInv, RegOK, RegistryOK

\* A HELLO of p under f, after which e (p itself, or the one he returns as) has the name n.
LEMMA HelloNames ==
    ASSUME MatchInv, RegOK', NEW f \in Fds \cap Slots, NEW p \in Structs, players[f] = p,
           ps[p] = "JUST_CONNECTED", NEW n \in Names, n # NewPlayer, NEW e \in Structs,
           name' = [name EXCEPT ![p] = n], players' = [players EXCEPT ![f] = e], name'[e] = n,
           ps'[e] # "JUST_CONNECTED" \/ conn'[f] \notin {"up", "eof"},
           \A q \in Structs \ {e} :
              ps'[q] = ps[q] \/ (ps[q] # "JUST_CONNECTED" /\ ps'[q] # "JUST_CONNECTED"),
           \A g \in Fds : conn'[g] \in {"up", "eof"} => conn[g] \in {"up", "eof"}
    PROVE  NamedOnceLoggedIn' /\ NewIsUnnamed'
<1> USE DEF MatchInv, MatchOK, RegInv, TypeInv, TypeOK, RegOK
<1>1. \A q \in Structs : name'[q] = IF q = p THEN n ELSE name[q]
  BY DEF StructType
<1>2. NamedOnceLoggedIn'
  BY <1>1 DEF NamedOnceLoggedIn, Named
<1>3. ASSUME NEW g \in Fds \cap Slots, players'[g] # NoPlayer, conn'[g] \in {"up", "eof"},
             ps'[players'[g]] = "JUST_CONNECTED"
      PROVE  name'[players'[g]] = NewPlayer
  <2>1. players'[f] = e
    BY DEF RegType
  <2>2. g # f
    BY <1>3, <2>1
  <2>3. players'[g] = players[g] /\ players[g] \in Structs /\ players[g] # p
    BY <1>3, <2>2 DEF RegType, RegistryOK
  <2>4. players[g] # e
    BY <1>3, <2>1, <2>2, <2>3 DEF RegistryOK
  <2> QED
    BY <1>1, <1>3, <2>3, <2>4 DEF NewIsUnnamed
<1> QED
  BY <1>2, <1>3 DEF NewIsUnnamed

\* The flags of those who wait survive it.
LEMMA HelloFlags ==
    ASSUME MatchInv, NEW f \in Slots, NEW p \in Structs, players[f] = p,
           ps[p] = "JUST_CONNECTED", NEW n \in Names, NEW e \in Structs, NEW S,
           \A q \in Structs : ps[q] = "QUEUE" => S[q] = "QUEUE" \/ q = e,
           \A g \in Slots : players[g] # e \/ e = p
    PROVE  FlagsWaitIn(queue, queue_key, [players EXCEPT ![f] = e], [name EXCEPT ![p] = n], S)
<1> USE DEF MatchInv, MatchOK, RegInv, TypeInv, TypeOK, RegOK
<1> DEFINE PL == [players EXCEPT ![f] = e]
           N  == [name EXCEPT ![p] = n]
<1>1. ASSUME NEW i \in Slots, queue[i]
      PROVE  \E g \in Slots : PL[g] # NoPlayer /\ N[PL[g]] = queue_key[i] /\ S[PL[g]] = "QUEUE"
  <2>1. PICK g \in Slots : players[g] # NoPlayer /\ name[players[g]] = queue_key[i]
                           /\ ps[players[g]] = "QUEUE"
    BY <1>1 DEF FlagsWait, FlagsWaitIn
  <2>2. players[g] \in Structs /\ players[g] # p /\ g # f
    BY <2>1 DEF RegType
  <2>3. PL[g] = players[g] /\ N[PL[g]] = name[players[g]]
    BY <2>2 DEF RegType, StructType
  <2>4. players[g] # e
    BY <2>2
  <2> QED
    BY <2>1, <2>2, <2>3, <2>4
<1> QED
  BY <1>1 DEF FlagsWaitIn

LEMMA HelloMatch ==
    ASSUME MatchInv, QueueRoom, NEW f \in Fds \cap Slots, NEW p \in Structs,
           players[f] = p, fd[p] = f, conn[f] \in {"up", "eof"}, ps[p] = "JUST_CONNECTED",
           NEW n \in Names \cup LongNames, p_hello(p, n)
    PROVE  MatchOK'
<1> USE DEF MatchInv, MatchOK, RegInv, TypeInv, TypeOK, RegOK
<1>0. p <= allocated /\ fd[p] >= 0 /\ f \in Nat /\ p # NoPlayer
  BY SlotsAreInts DEF RegistryAllocated
<1>1. RegOK'
  BY <1>0, HelloRegistry
<1>2. name[p] = NewPlayer
  BY <1>0 DEF NewIsUnnamed
<1>3. CASE UNCHANGED <<ps, name, regVars, queueVars, gameVars, conn>>
  BY <1>3 DEF KeysDistinct, NoFlagOutside, FlagsWait, FlagsWaitIn, NamedOnceLoggedIn, Named,
              NewIsUnnamed, GamesApart, Involves, regVars, queueVars, gameVars
<1>4. CASE /\ n \in Names /\ lookup_player_by_name(n, players, name) = {}
           /\ name' = [name EXCEPT ![p] = n]
           /\ \/ /\ Fails(fd[p]) /\ conn' = Lost({fd[p]})
                 /\ UNCHANGED <<ps, regVars, queueVars, gameVars>>
              \/ first_login(p, n)
              \/ \E i \in lookup_dc_player(n) : login_again(p, n, i)
  <2>1. \A g \in Slots : players[g] # NoPlayer => name[players[g]] # n
    <3> DEFINE S == {g \in Slots : players[g] # NoPlayer /\ name[players[g]] = n}
    <3>1. Least(S) = {}
      BY <1>4 DEF lookup_player_by_name
    <3>2. S = {}
      BY <3>1, LeastExists, SlotsAreInts
    <3> QED
      BY <3>2
  <2>2. n # NewPlayer
    BY <1>0, <1>2, <2>1
  <2>3. \A q \in Structs : name'[q] = IF q = p THEN n ELSE name[q]
    BY <1>4 DEF StructType
  \* p logs in as himself, or is not told that he has.
  <2>4. CASE /\ UNCHANGED <<players, queueVars, games>>
             /\ \/ ps' = [ps EXCEPT ![p] = "LOGGED_IN"] /\ UNCHANGED conn
                \/ UNCHANGED ps /\ Fails(fd[p]) /\ conn' = Lost({fd[p]})
    <3>1. [players EXCEPT ![f] = p] = players /\ name'[p] = n
      BY <2>3 DEF RegType
    <3>2. \A q \in Structs \ {p} : ps'[q] = ps[q]
      BY <2>4 DEF StructType
    <3>3. ps'[p] # "JUST_CONNECTED" \/ conn'[f] \notin {"up", "eof"}
      BY <2>4 DEF StructType, Fails, Lost
    <3>4. \A g \in Fds : conn'[g] \in {"up", "eof"} => conn[g] \in {"up", "eof"}
      BY <2>4 DEF Lost
    <3>5. NamedOnceLoggedIn' /\ NewIsUnnamed'
      <4>1. players' = players /\ n \in Names /\ name' = [name EXCEPT ![p] = n]
        BY <1>4, <2>4
      <4>2. \A q \in Structs \ {p} :
               ps'[q] = ps[q] \/ (ps[q] # "JUST_CONNECTED" /\ ps'[q] # "JUST_CONNECTED")
        BY <3>2
      <4>3. PICK e \in Structs : e = p
        OBVIOUS
      <4>4. /\ players' = [players EXCEPT ![f] = e] /\ name'[e] = n
            /\ ps'[e] # "JUST_CONNECTED" \/ conn'[f] \notin {"up", "eof"}
        <5> HIDE DEF MatchInv, MatchOK, RegInv, TypeInv, TypeOK, RegOK
        <5> QED
          BY <3>1, <3>3, <4>1, <4>3
      <4>5. \A q \in Structs \ {e} :
               ps'[q] = ps[q] \/ (ps[q] # "JUST_CONNECTED" /\ ps'[q] # "JUST_CONNECTED")
        BY <4>2, <4>3
      <4> HIDE DEF MatchInv, MatchOK, RegInv, TypeInv, TypeOK, RegOK
      <4> QED
        BY <1>1, <2>2, <3>4, <4>1, <4>4, <4>5, HelloNames
    <3>6. \A q \in Structs : ps[q] = "QUEUE" => ps'[q] = "QUEUE" \/ q = p
      BY <3>2
    <3>7. FlagsWaitIn(queue, queue_key, [players EXCEPT ![f] = p], [name EXCEPT ![p] = n], ps')
      BY <1>4, <3>6, HelloFlags
    <3>8. FlagsWait'
      BY <1>4, <2>4, <3>1, <3>7 DEF FlagsWait, queueVars
    <3>9. GamesApart'
      BY <2>4, <3>2, EndedGamesApart DEF GamesEndAtMost
    <3> QED
      BY <2>4, <3>5, <3>8, <3>9 DEF KeysDistinct, NoFlagOutside, queueVars
  <2>5. ASSUME NEW i \in lookup_dc_player(n), login_again(p, n, i)
        PROVE  MatchOK'
    <3> DEFINE e  == dc_players[i]
               F  == [fd EXCEPT ![e] = fd[p]]
               PL == [players EXCEPT ![fd[p]] = e]
               N  == [name EXCEPT ![p] = n]
               V  == Told(view, {fd[p]}, "lobby")
    <3>1. i \in Slots /\ e \in Structs /\ name[e] = n /\ fd[e] = -1 /\ e # p
      BY <1>0, <1>2, <2>2 DEF lookup_dc_player, Least, RegType, RegistryOK
    <3>2. players' = PL /\ name' = N /\ PL = [players EXCEPT ![f] = e]
      BY <1>4, <2>5 DEF login_again
    <3>3. \A g \in Slots : players[g] # e
      BY <3>1, SlotsAreInts DEF RegistryOK
    <3>4. name'[e] = n
      BY <2>3, <3>1
    <3>5. \A g \in Fds : conn'[g] \in {"up", "eof"} => conn[g] \in {"up", "eof"}
      <4>1. UNCHANGED conn \/ \E S : conn' = Lost(S)
        BY <2>5, AddToQueueConn DEF login_again
      <4> QED
        BY <4>1, LostOpensNothing
    <3>6. \/ UNCHANGED <<ps, queueVars, games>> /\ ps[e] = "PLAY"
          \/ ps[e] = "QUEUE" /\ add_to_queue(e, PL, F, N, V, "ok")
          \/ /\ ps' = [ps EXCEPT ![e] = "LOGGED_IN"] /\ ps[e] # "QUEUE" /\ UnfinishedGame(e) = {}
             /\ UNCHANGED <<queueVars, games>>
      BY <2>5 DEF login_again, UnfinishedGame, gameVars
    <3> HIDE DEF e, F, PL, N, V
    \* e does not join the queue.
    <3>7. CASE /\ UNCHANGED <<queueVars, games>> /\ ps[e] # "QUEUE"
               /\ ps'[e] # "JUST_CONNECTED" /\ \A q \in Structs \ {e} : ps'[q] = ps[q]
               /\ ps[e] = "PLAY" /\ ps'[e] # "PLAY" => lookup_game(e) = {}
      <4>1. NamedOnceLoggedIn' /\ NewIsUnnamed'
        <5>1. n \in Names /\ name' = [name EXCEPT ![p] = n] /\ players' = [players EXCEPT ![f] = e]
          BY <1>4, <3>2
        <5>2. \A q \in Structs \ {e} :
                 ps'[q] = ps[q] \/ (ps[q] # "JUST_CONNECTED" /\ ps'[q] # "JUST_CONNECTED")
          BY <3>7
        <5> HIDE DEF MatchInv, MatchOK, RegInv, TypeInv, TypeOK, RegOK
        <5> QED
          BY <1>1, <2>2, <3>1, <3>4, <3>5, <3>7, <5>1, <5>2, HelloNames
      <4>2. FlagsWaitIn(queue, queue_key, PL, N, ps')
        <5>1. \A q \in Structs : ps[q] = "QUEUE" => ps'[q] = "QUEUE" \/ q = e
          BY <3>7
        <5> QED
          BY <1>4, <3>1, <3>2, <3>3, <5>1, HelloFlags DEF N
      <4>3. FlagsWait'
        BY <3>2, <3>7, <4>2 DEF FlagsWait, queueVars
      <4>4. lookup_game(e) = {} => \A j \in GameSlots : ~Involves(games[j], e)
        <5> DEFINE S == {j \in GameSlots : games[j] # NoGame /\ Involves(games[j], e)}
        <5>1. S \in SUBSET Nat
          BY GameSlotZero
        <5>2. lookup_game(e) = {} => S = {}
          BY <5>1, LeastExists DEF lookup_game
        <5> QED
          BY <3>1, <5>2, NotInNoGame
      <4>5. GamesApart'
        BY <3>1, <3>7, <4>4, EndedGamesApart DEF GamesEndAtMost
      <4> QED
        BY <3>7, <4>1, <4>3, <4>5 DEF KeysDistinct, NoFlagOutside, queueVars
    <3>8. CASE ps[e] = "QUEUE" /\ add_to_queue(e, PL, F, N, V, "ok")
      <4>1. PL \in [Slots -> Structs \cup {NoPlayer}] /\ N \in [Structs -> Names]
        BY <1>4, <3>1 DEF PL, N, RegType, StructType
      <4>2. NotShared(PL, N)
        BY <1>1, <3>2 DEF NotShared, NamesUnique
      <4>3. Named(N, ps)
        BY <2>2, <2>3, <3>2 DEF NamedOnceLoggedIn, Named
      <4>4. FlagsWaitIn(queue, queue_key, PL, N, ps)
        BY <1>4, <3>1, <3>2, <3>3, HelloFlags DEF N
      <4>5. \E g \in Slots : PL[g] = e
        BY <3>2, <4>1 DEF RegType
      <4>6. /\ KeysDistinct' /\ NoFlagOutside'
            /\ FlagsWaitIn(queue', queue_key', PL, N, ps')
            /\ QueuedOrPaired(e, PL)
        BY <3>1, <3>8, <4>1, <4>2, <4>3, <4>4, <4>5, AddToQueueEffect
      <4>7. GamesApart'
        BY <3>1, <3>8, <4>6, PairedGamesApart
      <4>8. \A q \in Structs : ps'[q] = ps[q] \/ (ps[q] # "JUST_CONNECTED" /\ ps'[q] # "JUST_CONNECTED")
        BY <3>1, <3>8, <4>6 DEF QueuedOrPaired, StructType
      <4>9. NamedOnceLoggedIn' /\ NewIsUnnamed'
        <5>1. n \in Names /\ name' = [name EXCEPT ![p] = n] /\ players' = [players EXCEPT ![f] = e]
          BY <1>4, <3>2
        <5>2. ps'[e] # "JUST_CONNECTED"
          BY <3>1, <3>8, <4>8
        <5> HIDE DEF MatchInv, MatchOK, RegInv, TypeInv, TypeOK, RegOK
        <5> QED
          BY <1>1, <2>2, <3>1, <3>4, <3>5, <4>8, <5>1, <5>2, HelloNames
      <4> QED
        BY <3>2, <4>6, <4>7, <4>9 DEF FlagsWait
    <3>9. \/ ps[e] = "QUEUE"
          \/ /\ ps'[e] # "JUST_CONNECTED"
             /\ ps' = [ps EXCEPT ![e] = "LOGGED_IN"]
                => \A q \in Structs \ {e} : ps'[q] = ps[q]
      BY <3>1, <3>6 DEF StructType
    <3> QED
      BY <3>1, <3>6, <3>7, <3>8, <3>9 DEF UnfinishedGame
  <2>6. CASE first_login(p, n)
    BY <2>4, <2>6 DEF first_login, regVars, gameVars
  <2>7. CASE Fails(fd[p]) /\ conn' = Lost({fd[p]}) /\ UNCHANGED <<ps, regVars, queueVars, gameVars>>
    BY <2>4, <2>7 DEF regVars, gameVars
  <2> QED
    BY <1>4, <2>5, <2>6, <2>7
<1> QED
  BY <1>3, <1>4 DEF p_hello

\* p under f logs in under the name n of the player e stored at i: the registry as e finds it.
LEMMA Returning ==
    ASSUME MatchInv, NEW f \in Fds \cap Slots, NEW p \in Structs, players[f] = p, fd[p] = f,
           conn[f] \in {"up", "eof"}, ps[p] = "JUST_CONNECTED", NEW n \in Names, p_hello(p, n),
           lookup_player_by_name(n, players, name) = {},
           NEW i \in lookup_dc_player(n), login_again(p, n, i)
    PROVE  /\ players'[f] = dc_players[i] /\ players'[f] \in Structs \ {p}
           /\ fd[players'[f]] = -1 /\ name[players'[f]] = n /\ n # NewPlayer
           /\ players' \in [Slots -> Structs \cup {NoPlayer}]
           /\ fd' \in [Structs -> Slots \cup {-1}] /\ name' \in [Structs -> Names]
           /\ NotShared(players', name') /\ Named(name', ps)
           /\ FlagsWaitIn(queue, queue_key, players', name', ps)
           /\ \A g \in Slots \ {f} :
                 players'[g] = players[g] /\ players[g] \notin {players'[f], p}
           /\ \A g \in Slots : players'[g] # NoPlayer => fd'[players'[g]] = g
           /\ \A q \in Structs : fd'[q] = IF q = players'[f] THEN f ELSE fd[q]
<1> USE DEF MatchInv, MatchOK, RegInv, TypeInv, TypeOK, RegOK
<1>0. p <= allocated /\ fd[p] >= 0 /\ f \in Nat /\ p # NoPlayer
  BY SlotsAreInts DEF RegistryAllocated
<1>1. RegOK'
  BY <1>0, HelloRegistry
<1>2. name[p] = NewPlayer
  BY <1>0 DEF NewIsUnnamed
<1>3. n # NewPlayer
  <2> DEFINE S == {g \in Slots : players[g] # NoPlayer /\ name[players[g]] = n}
  <2>1. S = {}
    <3>1. Least(S) = {}
      BY DEF lookup_player_by_name
    <3> QED
      BY <3>1, LeastExists, SlotsAreInts
  <2> QED
    BY <1>0, <1>2, <2>1
<1> DEFINE e  == dc_players[i]
           PL == [players EXCEPT ![f] = e]
           N  == [name EXCEPT ![p] = n]
<1>4. i \in Slots /\ e \in Structs \ {p} /\ name[e] = n /\ fd[e] = -1
  BY <1>0, <1>2, <1>3 DEF lookup_dc_player, Least, RegType, RegistryOK
<1>5. players' = PL /\ fd' = [fd EXCEPT ![e] = f] /\ name' = N
  BY NameAssumption DEF login_again, p_hello
<1>6. \A g \in Slots : players[g] # e
  BY <1>4, SlotsAreInts DEF RegistryOK
<1>7. FlagsWaitIn(queue, queue_key, PL, N, ps)
  BY <1>4, <1>6, HelloFlags
<1>8. FlagsWaitIn(queue, queue_key, players', name', ps)
  BY <1>5, <1>7
<1> HIDE DEF e
<1>9. /\ players' \in [Slots -> Structs \cup {NoPlayer}]
      /\ fd' \in [Structs -> Slots \cup {-1}] /\ name' \in [Structs -> Names]
  BY <1>4, <1>5 DEF RegType, StructType
<1>10. /\ players'[f] = e
       /\ \A g \in Slots \ {f} : players'[g] = players[g] /\ players[g] \notin {e, p}
  BY <1>0, <1>5, <1>6 DEF RegType, RegistryOK
<1>11. \A q \in Structs : fd'[q] = IF q = e THEN f ELSE fd[q]
  BY <1>5 DEF StructType
<1>12. \A g \in Slots : players'[g] # NoPlayer => fd'[players'[g]] = g
  <2>1. ASSUME NEW g \in Slots \ {f}, players'[g] # NoPlayer PROVE fd'[players'[g]] = g
    BY <1>9, <1>10, <1>11, <2>1 DEF RegistryOK
  <2> QED
    BY <1>4, <1>10, <1>11, <2>1
<1>13. NotShared(players', name')
  BY <1>1 DEF NotShared, NamesUnique
<1>14. Named(name', ps)
  BY <1>3, <1>5 DEF NamedOnceLoggedIn, Named, StructType
<1> QED
  BY <1>3, <1>4, <1>8, <1>9, <1>10, <1>11, <1>12, <1>13, <1>14 DEF e

LEMMA QueueMatch ==
    ASSUME MatchInv, QueueRoom, NEW f \in Fds \cap Slots, NEW p \in Structs,
           players[f] = p, ps[p] = "LOGGED_IN", p_queue(p)
    PROVE  MatchOK' /\ KeepsLogin /\ NewInGameFrom(players)
<1> USE DEF MatchInv, MatchOK, RegInv, TypeInv, TypeOK, RegOK
<1>1. /\ UNCHANGED <<players, name>>
      /\ add_to_queue(p, players, fd, name, view, "invalid")
  BY DEF p_queue, keepSession, regVars
<1>2. NotShared(players, name) /\ \E g \in Slots : players[g] = p
  BY DEF NamesUnique, NotShared
<1>3. players \in [Slots -> Structs \cup {NoPlayer}] /\ name \in [Structs -> Names]
  BY DEF RegType, StructType
<1>4. /\ KeysDistinct' /\ NoFlagOutside'
      /\ FlagsWaitIn(queue', queue_key', players, name, ps')
      /\ QueuedOrPaired(p, players)
  BY <1>1, <1>2, <1>3, AddToQueueEffect DEF FlagsWait, NamedOnceLoggedIn
<1>5. KeepsLogin /\ NewInGameFrom(players)
  BY <1>2, <1>4, PairedFrom
<1>6. \A g \in Fds : conn'[g] \in {"up", "eof"} => conn[g] \in {"up", "eof"}
  <2>1. UNCHANGED conn \/ \E S : conn' = Lost(S)
    BY <1>1, AddToQueueConn
  <2> QED
    BY <2>1, LostOpensNothing
<1>7. NamedOnceLoggedIn' /\ NewIsUnnamed'
  <2>1. \A g \in Fds \cap Slots : /\ players'[g] \in {players[g], NoPlayer}
                                  /\ conn'[g] \in {"up", "eof"} => conn[g] \in {"up", "eof"}
    BY <1>1, <1>6
  <2> HIDE DEF MatchInv, MatchOK, RegInv, TypeInv, TypeOK, RegOK
  <2> QED
    BY <1>1, <1>5, <2>1, SameNames
<1>8. GamesApart'
  BY <1>4, PairedGamesApart
<1> QED
  BY <1>1, <1>4, <1>5, <1>7, <1>8 DEF FlagsWait

LEMMA LeaveQueueMatch ==
    ASSUME MatchInv, QueueRoom, NEW f \in Fds \cap Slots, NEW p \in Structs,
           players[f] = p, ps[p] = "QUEUE", p_leave_queue(p)
    PROVE  MatchOK' /\ KeepsLogin /\ NewInGameFrom(players)
<1> USE DEF MatchInv, MatchOK, RegInv, TypeInv, TypeOK, RegOK
<1>1. UNCHANGED <<players, name, games>>
  BY DEF p_leave_queue, keepSession, regVars, gameVars
<1>2. PICK id \in find_player_in_queue(name[p]) :
        /\ queue_key' = KeyStored(id, name[p])
        /\ queue' = [queue EXCEPT ![id] = FALSE]
        /\ ps' = ps \/ ps' = [ps EXCEPT ![p] = "LOGGED_IN"]
        /\ UNCHANGED conn \/ \E S : conn' = Lost(S)
  BY DEF p_leave_queue
<1>3. /\ id # -1 /\ id \in Slots /\ name[p] \in Names
      /\ queue_key[id] = name[p] \/ (queue_key[id] = NoKey /\ \A i \in Slots : queue_key[i] # name[p])
  <2>1. name[p] \in Names
    BY DEF StructType
  <2> QED
    BY <1>2, <2>1, IndexOfName DEF QueueRoom
<1>4. \A q \in Structs \ {p} : ps'[q] = ps[q]
  BY <1>2 DEF StructType
<1>5. ps'[p] \in {"QUEUE", "LOGGED_IN"}
  BY <1>2 DEF StructType
<1>6. KeepsLogin /\ NamedOnceLoggedIn' /\ NewIsUnnamed'
  <2>1. \A g \in Fds : conn'[g] \in {"up", "eof"} => conn[g] \in {"up", "eof"}
    BY <1>2, LostOpensNothing
  <2>2. \A g \in Fds \cap Slots : /\ players'[g] \in {players[g], NoPlayer}
                                  /\ conn'[g] \in {"up", "eof"} => conn[g] \in {"up", "eof"}
    BY <1>1, <2>1
  <2>3. KeepsLogin
    BY <1>4, <1>5 DEF KeepsLogin
  <2> HIDE DEF MatchInv, MatchOK, RegInv, TypeInv, TypeOK, RegOK
  <2> QED
    BY <1>1, <2>2, <2>3, SameNames
<1>7. GamesApart' /\ NewInGameFrom(players)
  BY <1>1, <1>4, EndedGamesApart, EndedFrom DEF GamesEndAtMost
<1>8. /\ \A i \in Slots \ {id} : queue_key'[i] = queue_key[i] /\ queue_key[i] # name[p]
      /\ \A i, j \in Slots : queue_key'[i] # NoKey /\ queue_key'[i] = queue_key'[j] => i = j
  BY <1>2, <1>3, KeyStoredOnce
<1>9. NoFlagOutside' /\ FlagsWait'
  <2>1. /\ queue'[-1] = queue[-1]
        /\ \A i \in Slots : queue'[i] = (i # id /\ queue[i])
    BY <1>2, <1>3 DEF QueueType
  <2>2. \A g \in Slots, i \in Slots :
           /\ players[g] # NoPlayer /\ ps[players[g]] = "QUEUE"
           /\ queue'[i] /\ queue_key[i] = name[players[g]]
           => /\ players'[g] = players[g] /\ name'[players[g]] = name[players[g]]
              /\ ps'[players[g]] = "QUEUE"
    <3>1. \A g \in Slots : players[g] # NoPlayer => players[g] \in Structs
      BY DEF RegType
    <3>2. players' = players /\ name' = name
      BY <1>1
    <3> HIDE DEF MatchInv, MatchOK, RegInv, TypeInv, TypeOK, RegOK
    <3> QED
      BY <1>4, <1>8, <2>1, <3>1, <3>2
  <2> QED
    BY <1>8, <2>1, <2>2, FlagsStay
<1> QED
  BY <1>6, <1>7, <1>8, <1>9 DEF KeysDistinct

LEMMA PlayMatch ==
    ASSUME MatchInv, NEW p \in Structs, NEW k, play_packet(p, k)
    PROVE  MatchOK' /\ KeepsLogin /\ NewInGameFrom(players)
<1> USE DEF MatchInv, MatchOK, RegInv, TypeInv, TypeOK, RegOK
<1>1. UNCHANGED <<players, name, queue_key, queue, conn>>
  BY DEF play_packet, finish_game, keepSession, regVars, queueVars
<1>2. PICK over \in SUBSET lookup_game(p) :
        /\ games' = [i \in GameSlots |-> IF i \in over THEN NoGame ELSE games[i]]
        /\ ps' = LoggedIn(UNION {PlayersOf(games[i]) : i \in over})
  <2>1. CASE UNCHANGED <<ps, games>>
    <3>1. games = [i \in GameSlots |-> IF i \in {} THEN NoGame ELSE games[i]]
      BY DEF GameType
    <3>2. ps = LoggedIn({})
      BY DEF StructType, LoggedIn
    <3>3. UNION {PlayersOf(games[i]) : i \in {}} = {}
      OBVIOUS
    <3> QED
      BY <2>1, <3>1, <3>2, <3>3
  <2>2. ASSUME NEW i \in lookup_game(p), finish_game(i)
        PROVE  \E over \in SUBSET lookup_game(p) :
                 /\ games' = [j \in GameSlots |-> IF j \in over THEN NoGame ELSE games[j]]
                 /\ ps' = LoggedIn(UNION {PlayersOf(games[j]) : j \in over})
    <3>1. i \in GameSlots
      BY DEF lookup_game, Least
    <3>2. UNION {PlayersOf(games[j]) : j \in {i}} = PlayersOf(games[i])
      OBVIOUS
    <3>3. games' = [j \in GameSlots |-> IF j \in {i} THEN NoGame ELSE games[j]]
      BY <2>2, <3>1 DEF finish_game, GameType
    <3>4. ps' = LoggedIn(UNION {PlayersOf(games[j]) : j \in {i}})
      BY <2>2, <3>2 DEF finish_game
    <3> QED
      BY <3>3, <3>4
  <2> QED
    BY <2>1, <2>2 DEF play_packet, gameVars
<1> DEFINE ended == UNION {PlayersOf(games[i]) : i \in over}
<1>3. \A q \in Structs \cap ended :
         ps[q] = "PLAY" /\ \A j \in GameSlots : Involves(games[j], q) => games'[j] = NoGame
  BY <1>2, EndedGame
<1> HIDE DEF ended
<1>4. \A q \in Structs : ps'[q] = IF q \in ended THEN "LOGGED_IN" ELSE ps[q]
  BY <1>2 DEF LoggedIn, ended
<1>5. GamesApart' /\ NewInGameFrom(players)
  BY <1>2, <1>3, <1>4, EndedGamesApart, EndedFrom DEF GamesEndAtMost
<1>6. KeepsLogin /\ NamedOnceLoggedIn' /\ NewIsUnnamed'
  BY <1>1, <1>3, <1>4, SameNames DEF KeepsLogin
<1>7. NoFlagOutside' /\ FlagsWait'
  <2>1. \A g \in Slots : players[g] # NoPlayer /\ ps[players[g]] = "QUEUE" => ps'[players[g]] = "QUEUE"
    BY <1>3, <1>4 DEF RegType
  <2> QED
    BY <1>1, <2>1, FlagsStay
<1> QED
  BY <1>1, <1>5, <1>6, <1>7 DEF KeysDistinct

\* Which handler a packet is given to.
LEMMA HandlersByState ==
    ASSUME NEW s \in PlayerStates, NEW k \in packet_handlers(s)
    PROVE  /\ k = "HELLO" => s = "JUST_CONNECTED"
           /\ k = "QUEUE" => s = "LOGGED_IN"
           /\ k = "LEAVE_QUEUE" => s = "QUEUE"
           /\ k \in PlayPackets => s = "PLAY"
BY DEF packet_handlers, PlayerStates, PlayPackets

\* Only HELLO moves players, and it is never invalid.
LEMMA WhereHandlersReturn ==
    ASSUME Regular, NEW p, HandlePacket(p), pc = "select"
    PROVE  /\ pc' \in {"select", "inval"}
           /\ pc' = "inval" => UNCHANGED <<players, fd>>
<1>1. /\ \A r : Return(r) => pc' \in {"select", "inval"}
      /\ Return("ok") => pc' = "select"
  BY DEF Return, Regular
<1>2. ASSUME NEW q, NEW PL, NEW F, NEW N, NEW V, NEW r, add_to_queue(q, PL, F, N, V, r)
      PROVE  pc' \in {"select", "inval"} /\ (r = "ok" => pc' = "select")
  <2>1. \A op : game_create(q, op, r) => Return(r) \/ Return("ok")
    BY DEF game_create
  <2>2. Return(r) \/ Return("ok")
    BY <1>2, <2>1 DEF add_to_queue, look_for_opponent
  <2> QED
    BY <1>1, <2>2
<1>3. \A n : p_hello(p, n) => pc' = "select"
  BY <1>1, <1>2 DEF p_hello, first_login, login_again
<1>4. p_queue(p) => pc' \in {"select", "inval"} /\ UNCHANGED <<players, fd>>
  BY <1>2 DEF p_queue, keepSession, regVars
<1>5. p_leave_queue(p) => pc' \in {"select", "inval"} /\ UNCHANGED <<players, fd>>
  BY <1>1 DEF p_leave_queue, keepSession, regVars
<1>6. \A k : play_packet(p, k) => pc' \in {"select", "inval"} /\ UNCHANGED <<players, fd>>
  BY <1>1 DEF play_packet, keepSession, regVars
<1>7. p_keepalive(p) => pc' \in {"select", "inval"} /\ UNCHANGED <<players, fd>>
  BY <1>1 DEF p_keepalive, keepSession, regVars
<1> QED
  BY <1>1, <1>3, <1>4, <1>5, <1>6, <1>7 DEF HandlePacket, structVars, regVars

\* A step that leaves names, states, queue and games alone, and adds no reader.
LEMMA QuietMatch ==
    ASSUME MatchInv, UNCHANGED <<name, ps, players, queueVars, games>>,
           \A f \in Fds : conn'[f] \in {"up", "eof"} => conn[f] \in {"up", "eof"}
    PROVE  MatchOK'
<1>1. NamedOnceLoggedIn' /\ NewIsUnnamed'
  <2>1. \A f \in Fds \cap Slots : /\ players'[f] \in {players[f], NoPlayer}
                                  /\ conn'[f] \in {"up", "eof"} => conn[f] \in {"up", "eof"}
    OBVIOUS
  <2> QED
    BY <2>1, SameNames DEF KeepsLogin
<1> QED
  BY <1>1 DEF MatchInv, MatchOK, KeysDistinct, NoFlagOutside, FlagsWait, FlagsWaitIn,
              GamesApart, Involves, queueVars

LEMMA HandlePacketMatch ==
    ASSUME MatchInv, QueueRoom, NEW f \in Fds \cap Slots, NEW p \in Structs,
           players[f] = p, fd[p] = f, conn[f] \in {"up", "eof"}, HandlePacket(p)
    PROVE  MatchOK'
<1>1. fd[p] >= 0 /\ ~(fd[p] < 0) /\ ps[p] \in PlayerStates
  BY SlotsAreInts DEF MatchInv, RegInv, TypeInv, TypeOK, StructType
<1>2. CASE UNCHANGED <<structVars, regVars, queueVars, gameVars, sockVars>>
  BY <1>2, QuietMatch DEF structVars, regVars, gameVars, sockVars
<1>3. ASSUME NEW k \in packet_handlers(ps[p]),
             \/ k = "HELLO" /\ \E n \in Names \cup LongNames : p_hello(p, n)
             \/ k = "QUEUE" /\ p_queue(p)
             \/ k = "LEAVE_QUEUE" /\ p_leave_queue(p)
             \/ k \in PlayPackets /\ play_packet(p, k)
             \/ k = "KEEP_ALIVE" /\ p_keepalive(p)
      PROVE  MatchOK'
  <2>1. CASE p_keepalive(p)
    BY <2>1, QuietMatch DEF p_keepalive, keepSession, regVars, gameVars
  <2> QED
    BY <1>1, <1>3, <2>1, HandlersByState, HelloMatch, QueueMatch, LeaveQueueMatch, PlayMatch
<1> QED
  BY <1>1, <1>2, <1>3 DEF HandlePacket

\* A new client has no name, and nothing waits under his descriptor.
LEMMA NewClientMatch ==
    ASSUME MatchInv, handle_new_client
    PROVE  MatchOK'
<1> USE DEF MatchInv, MatchOK, RegInv, TypeInv, TypeOK, RegOK
<1>1. UNCHANGED <<ps, name, queue_key, queue, games>>
  BY DEF handle_new_client, queueVars, gameVars
<1>2. PICK f \in Fds :
        /\ conn[f] = "closed" /\ conn' = [conn EXCEPT ![f] = "up"]
        /\ \/ UNCHANGED players /\ f \notin Slots
           \/ UNCHANGED players /\ players[f] # NoPlayer /\ f \in Slots
           \/ /\ f \in Slots /\ allocated < MaxStructs
              /\ players' = [players EXCEPT ![f] = allocated + 1]
  BY DEF handle_new_client, Least
<1>3. f \in Slots => players[f] = NoPlayer
  BY <1>2 DEF SocketsOK
<1>4. CASE UNCHANGED players /\ f \notin Slots
  <2>1. NewIsUnnamed'
    BY <1>1, <1>2, <1>4 DEF NewIsUnnamed, SockType
  <2> QED
    BY <1>1, <1>4, <2>1 DEF KeysDistinct, NoFlagOutside, FlagsWait, FlagsWaitIn,
                            NamedOnceLoggedIn, Named, GamesApart, Involves
<1>5. CASE /\ f \in Slots /\ allocated < MaxStructs
           /\ players' = [players EXCEPT ![f] = allocated + 1]
  <2>1. allocated + 1 \in Structs /\ allocated + 1 > allocated
    BY <1>5, BoundAssumption DEF StructType, Structs
  <2>2. name[allocated + 1] = NewPlayer
    BY <2>1 DEF RegistryAllocated
  <2>3. players'[f] = allocated + 1 /\ \A g \in Slots \ {f} : players'[g] = players[g]
    BY <1>5 DEF RegType
  <2>4. NewIsUnnamed'
    BY <1>1, <1>2, <2>2, <2>3 DEF NewIsUnnamed, SockType
  <2>5. FlagsWait'
    BY <1>1, <1>3, <1>5, <2>3 DEF FlagsWait, FlagsWaitIn
  <2> QED
    BY <1>1, <2>4, <2>5 DEF KeysDistinct, NoFlagOutside, NamedOnceLoggedIn, Named,
                            GamesApart, Involves
<1> QED
  BY <1>2, <1>3, <1>4, <1>5

LEMMA MainStepMatch ==
    ASSUME Regular, MatchInv, QueueRoom, main
    PROVE  MatchOK' /\ ServedStays'
<1> USE DEF MatchInv
<1>1. CASE handle_new_client
  <2>1. UNCHANGED pc /\ pc = "select"
    BY <1>1 DEF handle_new_client
  <2> QED
    BY <1>1, <2>1, NewClientMatch DEF ServedStays
<1>2. ASSUME NEW f \in Fds, read_packet(f)
      PROVE  MatchOK' /\ ServedStays'
  <2>1. PICK p \in Owner(f) : player' = p /\ HandlePacket(p)
    BY <1>2 DEF read_packet
  <2>2. pc = "select" /\ f \in client_socks /\ conn[f] \in {"up", "eof"}
    BY <1>2 DEF read_packet
  <2>3. p \in Structs /\ f \in Slots /\ players[f] = p /\ fd[p] = f
    BY <2>2, OwnerServed
  <2>4. /\ pc' \in {"select", "inval"}
        /\ pc' = "inval" => UNCHANGED <<players, fd>>
    BY <2>1, <2>2, WhereHandlersReturn
  <2> QED
    BY <2>1, <2>2, <2>3, <2>4, HandlePacketMatch DEF ServedStays
<1>3. ~read_next_packet /\ ~buffer_rest
  BY DEF ServedStays, read_next_packet, buffer_rest
<1>4. ASSUME NEW f \in Fds, read_eof(f)
      PROVE  MatchOK' /\ ServedStays'
  <2>1. PICK p \in Owner(f) : disconnect(p, FALSE, client_socks \ {f}, invalid_sends)
    BY <1>4 DEF read_eof
  <2>2. pc' = "select" /\ f \in client_socks
    BY <1>4 DEF read_eof
  <2>3. p \in Structs /\ players[fd[p]] = p
    BY <2>2, OwnerServed
  <2> QED
    BY <2>1, <2>2, <2>3, DisconnectMatch DEF ServedStays
<1>5. CASE invalid_data
  <2> DEFINE inv == [invalid_sends EXCEPT ![player] = @ + 1]
  <2>1. player \in Structs /\ pc = "inval"
    BY <1>5 DEF invalid_data, RegInv, TypeInv, ServingSomeone
  <2>2. pc' = "select"
    BY <1>5 DEF invalid_data, Return, Regular
  <2>3. CASE UNCHANGED <<ps, name, regVars, queueVars, gameVars, sockVars>>
    BY <2>2, <2>3, QuietMatch DEF ServedStays, regVars, gameVars, sockVars
  <2>4. CASE disconnect(player, TRUE, client_socks, inv)
    BY <2>1, <2>2, <2>4, DisconnectMatch DEF ServedStays
  <2> QED
    BY <1>5, <2>3, <2>4 DEF invalid_data
<1> QED
  BY <1>1, <1>2, <1>3, <1>4, <1>5 DEF main

\* A keepalive thread disconnects who is registered, or who is no longer.
LEMMA WatchedUnreplaced ==
    ASSUME RegInv, NEW t \in Threads, thread[t].pc = "loop", NEW p \in Watched(t)
    PROVE  p \in Structs /\ (fd[p] >= 0 => players[fd[p]] \in {p, NoPlayer})
<1> USE DEF RegInv, TypeInv, TypeOK, RegOK
<1>1. thread[t].p \in Structs
  BY DEF WatchingSomeone
<1>2. CASE lookup_player_by_fd(fd[thread[t].p], players) = {}
  <2>1. p = thread[t].p
    BY <1>2 DEF Watched
  <2>2. fd[p] >= 0 => fd[p] \in Slots
    BY <1>1, <2>1 DEF StructType
  <2> QED
    BY <1>1, <1>2, <2>1, <2>2 DEF lookup_player_by_fd
<1>3. CASE lookup_player_by_fd(fd[thread[t].p], players) # {}
  <2>1. p \in lookup_player_by_fd(fd[thread[t].p], players)
    BY <1>3 DEF Watched
  <2>2. p \in Structs /\ fd[thread[t].p] \in Slots /\ players[fd[thread[t].p]] = p
    BY <2>1, LookupByFd DEF RegType
  <2>3. p # NoPlayer
    BY <2>2, SlotsAreInts
  <2> QED
    BY <2>2, <2>3 DEF RegistryOK
<1> QED
  BY <1>2, <1>3

\* What a disconnection by another thread leaves of the registry.
LEMMA DisconnectRemoves ==
    ASSUME TypeOK, NEW p \in Structs, NEW final, NEW socks, NEW inv,
           disconnect(p, final, socks, inv)
    PROVE  /\ \A f \in Slots : players'[f] \in {players[f], NoPlayer}
           /\ \A q \in Structs : fd'[q] \in {fd[q], -1}
BY DEF disconnect, pman_handle_dc, regVars, TypeOK, RegType, StructType

LEMMA KeepaliveStepMatch ==
    ASSUME MatchInv, QueueRoom, NEW t \in Threads, keepalive(t)
    PROVE  MatchOK' /\ ServedStays'
<1> USE DEF MatchInv
<1>0. UNCHANGED <<pc, player>>
  BY DEF keepalive, keepalive_start, keepalive_loop, mainVars
<1>1. CASE UNCHANGED <<ps, fd, name, regVars, queueVars, gameVars, sockVars>>
  BY <1>0, <1>1, QuietMatch DEF ServedStays, regVars, gameVars, sockVars
<1>2. ASSUME thread[t].pc = "loop", NEW p \in Watched(t), NEW final \in BOOLEAN,
             disconnect(p, final, client_socks, invalid_sends)
      PROVE  MatchOK' /\ ServedStays'
  <2>1. p \in Structs /\ (fd[p] >= 0 => players[fd[p]] \in {p, NoPlayer})
    BY <1>2, WatchedUnreplaced
  <2>2. ServedStays'
    <3>1. SUFFICES ASSUME pc = "inval", fd'[player] >= 0
                   PROVE  players'[fd'[player]] \in {player, NoPlayer}
      BY <1>0 DEF ServedStays
    <3>2. player \in Structs
      BY <3>1 DEF RegInv, TypeInv, ServingSomeone
    <3>3. /\ \A f \in Slots : players'[f] \in {players[f], NoPlayer}
          /\ fd'[player] \in {fd[player], -1}
      BY <1>2, <2>1, <3>2, DisconnectRemoves DEF RegInv, TypeInv
    <3>4. fd'[player] = fd[player] /\ fd[player] \in Slots
      BY <3>1, <3>2, <3>3 DEF RegInv, TypeInv, TypeOK, StructType
    <3> QED
      BY <3>1, <3>3, <3>4 DEF ServedStays
  <2> QED
    BY <1>2, <2>1, <2>2, DisconnectMatch
<1> QED
  BY <1>1, <1>2 DEF keepalive, keepalive_start, keepalive_loop, structVars

LEMMA InitMatch == Init => MatchInv
<1> SUFFICES ASSUME Init PROVE MatchOK /\ ServedStays
  BY InitRegistry DEF MatchInv
<1>1. KeysDistinct /\ NoFlagOutside
  BY DEF Init, KeysDistinct, NoFlagOutside
<1>2. FlagsWait /\ NamedOnceLoggedIn /\ NewIsUnnamed
  BY DEF Init, FlagsWait, FlagsWaitIn, NamedOnceLoggedIn, Named, NewIsUnnamed
<1>3. GamesApart /\ ServedStays
  BY DEF Init, GamesApart, ServedStays
<1> QED
  BY <1>1, <1>2, <1>3 DEF MatchOK

LEMMA StepMatch ==
    ASSUME Regular
    PROVE  MatchInv /\ QueueRoom /\ [Next]_vars => MatchInv'
<1> SUFFICES ASSUME MatchInv, QueueRoom, [Next]_vars PROVE MatchOK' /\ ServedStays'
  BY StepRegistry DEF MatchInv
<1>1. CASE \E f \in Fds : peer_closes(f)
  <2>1. \A f \in Fds : conn'[f] \in {"up", "eof"} => conn[f] \in {"up", "eof"}
    BY <1>1 DEF peer_closes, MatchInv, RegInv, TypeInv, TypeOK, SockType
  <2> QED
    BY <1>1, <2>1, QuietMatch
       DEF peer_closes, mainVars, structVars, regVars, gameVars, MatchInv, ServedStays
<1>2. CASE tick
  BY <1>2, QuietMatch DEF tick, mainVars, regVars, gameVars, sockVars, MatchInv, ServedStays
<1>3. CASE UNCHANGED vars
  BY <1>3, QuietMatch
     DEF vars, mainVars, structVars, regVars, gameVars, sockVars, MatchInv, ServedStays
<1> QED
  BY <1>1, <1>2, <1>3, MainStepMatch, KeepaliveStepMatch DEF Next

\* A set flag belongs to a connected player in QUEUE, whoever matches, leaves the queue, leaves
\* or is timed out, as long as the table of keys has room for another name.
THEOREM FlaggedIsWaitingCorrect ==
    ASSUME Regular
    PROVE  Spec /\ []QueueRoom => []FlaggedIsWaiting
<1>1. ASSUME MatchInv PROVE FlaggedIsWaiting
  <2>1. SUFFICES ASSUME NEW i \in Slots, queue[i]
                 PROVE  \E p \in lookup_player_by_name(queue_key[i], players, name) : ps[p] = "QUEUE"
    BY DEF FlaggedIsWaiting
  <2> DEFINE S == {g \in Slots : players[g] # NoPlayer /\ name[players[g]] = queue_key[i]}
  <2>2. PICK f \in S : ps[players[f]] = "QUEUE"
    BY <1>1, <2>1 DEF MatchInv, MatchOK, FlagsWait, FlagsWaitIn
  <2>3. players[f] \in Structs
    BY <1>1 DEF MatchInv, RegInv, TypeInv, TypeOK, RegType
  <2>4. name[players[f]] # NewPlayer
    BY <1>1, <2>2, <2>3 DEF MatchInv, MatchOK, NamedOnceLoggedIn, Named
  <2>5. S = {f}
    BY <1>1, <2>4 DEF MatchInv, RegInv, RegOK, NamesUnique
  <2>6. f \in Least(S)
    BY <2>5, SlotsAreInts DEF Least
  <2> QED
    BY <2>2, <2>6 DEF lookup_player_by_name
<1>2. MatchInv /\ QueueRoom /\ [Next]_vars => MatchInv'
  BY StepMatch
<1> QED
  BY <1>1, <1>2, InitMatch, PTL DEF Spec

\* With no more names than there are keys, the table of keys always has room.
LEMMA RoomForNames ==
    ASSUME IsFiniteSet(Names), Cardinality(Names) <= MaxPlayers, KeysDistinct, QueueType
    PROVE  QueueRoom
<1>1. SUFFICES ASSUME NEW n \in Names, -1 \in find_player_in_queue(n) PROVE FALSE
  BY DEF QueueRoom
<1> DEFINE free == {i \in Slots : queue_key[i] = NoKey}
           mine == {i \in Slots : queue_key[i] = n}
<1>2. Least(free) = {} /\ Least(mine) = {}
  BY <1>1, SlotsAreInts DEF find_player_in_queue, Least
<1>3. free = {} /\ mine = {}
  BY <1>2, SlotsAreInts, LeastExists
<1>4. \A i \in Slots : queue_key[i] \in Names \ {n}
  BY <1>3 DEF QueueType
<1>5. /\ IsFiniteSet(Names \ {n}) /\ Cardinality(Names \ {n}) = Cardinality(Names) - 1
  BY FS_RemoveElement
<1>6. IsFiniteSet(Slots) /\ Cardinality(Slots) = MaxPlayers
  BY LimitAssumption, FS_Interval DEF Slots
<1>7. queue_key \in [Slots -> Names \ {n}]
  BY <1>4 DEF QueueType
<1>8. Cardinality(Names \ {n}) < Cardinality(Slots)
  <2>1. Cardinality(Names) \in Nat
    BY FS_CardinalityType
  <2> QED
    BY <1>5, <1>6, <2>1, LimitAssumption
<1>9. PICK i, j \in Slots : i # j /\ queue_key[i] = queue_key[j]
  BY <1>5, <1>6, <1>7, <1>8, FS_PigeonHole
<1> QED
  BY <1>4, <1>9, NameAssumption DEF KeysDistinct

\* The same without a condition on the run, when at most as many names are used as there
\* are keys.
THEOREM FlaggedIsWaitingWithFewNames ==
    ASSUME Regular, IsFiniteSet(Names), Cardinality(Names) <= MaxPlayers
    PROVE  Spec => []FlaggedIsWaiting
<1>1. MatchInv => QueueRoom
  BY RoomForNames DEF MatchInv, MatchOK, RegInv, TypeInv, TypeOK
<1>2. MatchInv /\ [Next]_vars => MatchInv'
  BY <1>1, StepMatch
<1>3. Spec => []MatchInv
  BY <1>2, InitMatch, PTL DEF Spec
<1> QED
  BY <1>1, <1>3, FlaggedIsWaitingCorrect, PTL

---------------------------------------------------------------------------
\* Who is kept.  A player of a game is registered or stored, as long as dc_players has room; a
\* struct that is neither and has a descriptor never logged in: p_hello has replaced it.

StoreRoom == \E i \in Slots : dc_players[i] = NoPlayer
Known(p)  == Registered(p) \/ Stored(p)

PlayersKept     == \A i \in GameSlots, q \in Structs : Involves(games[i], q) => Known(q)
ReplacedIsNew   == \A q \in Structs : fd[q] >= 0 /\ ~Registered(q) => ps[q] = "JUST_CONNECTED"

KeptInv == MatchInv /\ PlayersKept /\ ReplacedIsNew

\* With fewer players than slots, dc_players always has room.
LEMMA RoomForPlayers ==
    ASSUME MaxStructs < MaxPlayers, RegInv
    PROVE  StoreRoom
<1> USE DEF RegInv, TypeInv, TypeOK, RegOK
<1>1. SUFFICES ASSUME \A i \in Slots : dc_players[i] # NoPlayer PROVE FALSE
  BY DEF StoreRoom
<1>2. dc_players \in [Slots -> Structs]
  BY <1>1 DEF RegType
<1>3. IsFiniteSet(Slots) /\ Cardinality(Slots) = MaxPlayers
  BY LimitAssumption, FS_Interval DEF Slots
<1>4. IsFiniteSet(Structs) /\ Cardinality(Structs) = MaxStructs
  BY BoundAssumption, FS_Interval DEF Structs
<1>5. PICK i, j \in Slots : i # j /\ dc_players[i] = dc_players[j]
  BY <1>2, <1>3, <1>4, FS_PigeonHole
<1> QED
  BY <1>1, <1>5 DEF RegistryOK

\* Both tables have room for as long as fewer players have connected than slots exist, under no
\* more names than there are keys: what the theorems here and in the modules above assume of a
\* run then holds of every run.
THEOREM RoomWithFewClients ==
    ASSUME Regular, IsFiniteSet(Names), Cardinality(Names) <= MaxPlayers, MaxStructs < MaxPlayers
    PROVE  Spec => []QueueRoom /\ []StoreRoom
<1>1. MatchInv => QueueRoom /\ StoreRoom
  BY RoomForNames, RoomForPlayers DEF MatchInv, MatchOK, RegInv, TypeInv, TypeOK
<1>2. MatchInv /\ [Next]_vars => MatchInv'
  BY <1>1, StepMatch
<1> QED
  BY <1>1, <1>2, InitMatch, PTL DEF Spec

\* A registered player is not stored, and has a descriptor.
LEMMA KnownOnce ==
    ASSUME RegInv, NEW q \in Structs
    PROVE  /\ Registered(q) => fd[q] \in Slots /\ players[fd[q]] = q /\ ~Stored(q)
           /\ Stored(q) => fd[q] = -1
BY SlotsAreInts DEF RegInv, RegOK, RegistryOK, Registered, Stored

LEMMA SameKept ==
    ASSUME KeptInv, UNCHANGED <<players, dc_players, fd>>, KeepsLogin, NewInGameFrom(players)
    PROVE  PlayersKept' /\ ReplacedIsNew'
<1>1. \A q : (Registered(q)' <=> Registered(q)) /\ (Known(q)' <=> Known(q))
  BY DEF Known, Registered, Stored
<1>2. PlayersKept'
  BY <1>1 DEF KeptInv, PlayersKept, NewInGameFrom, Known, Registered
<1>3. ReplacedIsNew'
  BY <1>1 DEF KeptInv, ReplacedIsNew, KeepsLogin
<1> QED
  BY <1>2, <1>3

\* What a disconnection does to the registry when a slot is free.
LEMMA DisconnectStores ==
    ASSUME RegInv, StoreRoom, NEW p \in Structs, NEW final, NEW socks, NEW inv,
           fd[p] >= 0 => players[fd[p]] \in {p, NoPlayer},
           disconnect(p, final, socks, inv)
    PROVE  /\ \A q \in Structs : Known(q)' <=> Known(q) \/ (q = p /\ fd[p] >= 0)
           /\ \A q \in Structs : Registered(q)' <=> Registered(q) /\ q # p
           /\ fd' = [fd EXCEPT ![p] = -1]
           /\ UNCHANGED name
<1> USE DEF RegInv, TypeInv, TypeOK, RegOK
<1>0. UNCHANGED name
  BY DEF disconnect
<1>1. CASE fd[p] < 0
  <2>1. fd[p] = -1 /\ ~(fd[p] >= 0)
    <3>1. fd[p] \in Nat \/ fd[p] = -1
      BY SlotsAreInts DEF StructType
    <3>2. ~(fd[p] >= 0)
      BY <1>1, HasFdOrNot
    <3>3. \A n \in Nat : n >= 0
      OBVIOUS
    <3> QED
      BY <3>1, <3>2, <3>3
  <2>2. UNCHANGED <<players, dc_players, fd>>
    BY <2>1 DEF disconnect, regVars
  <2>3. fd' = [fd EXCEPT ![p] = -1]
    BY <2>1, <2>2 DEF StructType
  <2>4. \A f \in Slots : players[f] # p
    BY <2>1, SlotsAreInts DEF RegistryOK
  <2>5. \A q \in Structs : (Registered(q)' <=> Registered(q)) /\ (Known(q)' <=> Known(q))
    BY <2>2 DEF Known, Registered, Stored
  <2>6. ~Registered(p)
    BY <2>4 DEF Registered
  <2> QED
    BY <1>0, <2>1, <2>3, <2>5, <2>6
<1>2. CASE fd[p] >= 0
  <2>1. ~(fd[p] < 0) /\ fd[p] \in Slots
    BY <1>2, HasFdOrNot DEF StructType
  <2>2. pman_handle_dc(p, inv)
    BY <2>1 DEF disconnect
  <2>3. Least({i \in Slots : dc_players[i] = NoPlayer}) # {}
    BY SlotsAreInts, LeastExists DEF StoreRoom
  <2>4. PICK i \in Slots : /\ dc_players[i] = NoPlayer
                           /\ dc_players' = [dc_players EXCEPT ![i] = p]
                           /\ fd' = [fd EXCEPT ![p] = -1]
                           /\ players' = [players EXCEPT ![fd[p]] = NoPlayer]
    BY <2>2, <2>3 DEF pman_handle_dc, Least
  <2>5. ASSUME NEW q \in Structs PROVE Stored(q)' <=> Stored(q) \/ q = p
    <3>1. q # NoPlayer /\ \A j \in Slots : dc_players'[j] = IF j = i THEN p ELSE dc_players[j]
      BY <2>4, SlotsAreInts DEF RegType
    <3> QED
      BY <2>4, <3>1 DEF Stored
  <2>6. ASSUME NEW q \in Structs PROVE Registered(q)' <=> Registered(q) /\ q # p
    <3>1. q # NoPlayer /\ \A f \in Slots : players'[f] = IF f = fd[p] THEN NoPlayer ELSE players[f]
      BY <2>1, <2>4, SlotsAreInts DEF RegType
    <3>2. players[fd[p]] \in {p, NoPlayer}
      BY <1>2
    <3>3. Registered(p) => players[fd[p]] = p
      BY KnownOnce
    <3>4. \A f \in Slots : players[f] = p => f = fd[p]
      BY SlotsAreInts DEF RegistryOK
    <3> QED
      BY <3>1, <3>2, <3>4 DEF Registered
  <2> QED
    BY <1>0, <1>2, <2>4, <2>5, <2>6 DEF Known
<1> QED
  BY <1>1, <1>2, HasFdOrNot

LEMMA DisconnectKept ==
    ASSUME KeptInv, QueueRoom, StoreRoom, NEW p \in Structs, NEW final, NEW socks, NEW inv,
           fd[p] >= 0 => players[fd[p]] \in {p, NoPlayer},
           disconnect(p, final, socks, inv)
    PROVE  PlayersKept' /\ ReplacedIsNew'
<1>1. /\ \A q \in Structs : Known(q)' <=> Known(q) \/ (q = p /\ fd[p] >= 0)
      /\ \A q \in Structs : Registered(q)' <=> Registered(q) /\ q # p
      /\ fd' = [fd EXCEPT ![p] = -1]
  BY DisconnectStores DEF KeptInv, MatchInv
<1>2. KeepsLogin /\ GamesEndAtMost
  BY DisconnectMatch DEF KeptInv
<1>3. PlayersKept'
  BY <1>1, <1>2, NotInNoGame DEF KeptInv, PlayersKept, GamesEndAtMost
<1>4. ~(-1 >= 0)
  OBVIOUS
<1>5. ReplacedIsNew'
  BY <1>1, <1>2, <1>4 DEF KeptInv, ReplacedIsNew, KeepsLogin, MatchInv, RegInv, TypeInv, TypeOK, StructType
<1> QED
  BY <1>3, <1>5

\* A player whose login was answered has the name alone, among those registered or stored.
NamesHeldOnce == \A q, r \in Structs :
    /\ Known(q) /\ Known(r) /\ name[q] = name[r]
    /\ ps[q] # "JUST_CONNECTED" /\ ps[r] # "JUST_CONNECTED"
    => q = r

LEMMA SameHeld ==
    ASSUME NamesHeldOnce, KeepsLogin, UNCHANGED name,
           \A q \in Structs : Known(q)' => Known(q) \/ ps[q] = "JUST_CONNECTED"
    PROVE  NamesHeldOnce'
BY DEF NamesHeldOnce, KeepsLogin

\* p under f is replaced by the player e stored at i.
LEMMA ReplacedKnown ==
    ASSUME RegInv, NEW f \in Slots, NEW p \in Structs, players[f] = p, NEW i \in Slots,
           NEW e \in Structs, dc_players[i] = e, e # p,
           \A g \in Slots : players'[g] = IF g = f THEN e ELSE players[g],
           \A j \in Slots : dc_players'[j] = IF j = i THEN NoPlayer ELSE dc_players[j]
    PROVE  /\ \A q \in Structs : Known(q)' <=> Known(q) /\ q # p
           /\ \A q \in Structs : Registered(q)' <=> q # p /\ (Registered(q) \/ q = e)
<1> USE DEF RegInv, TypeInv, TypeOK, RegOK
<1>1. /\ \A g \in Slots : players'[g] = IF g = f THEN e ELSE players[g]
      /\ \A j \in Slots : dc_players'[j] = IF j = i THEN NoPlayer ELSE dc_players[j]
  OBVIOUS
<1>2. \A g \in Slots : players[g] = p => g = f
  BY SlotsAreInts DEF RegistryOK
<1>3. \A j \in Slots : dc_players[j] = e => j = i
  BY SlotsAreInts DEF RegistryOK
<1>4. \A j \in Slots : dc_players[j] # p
  BY SlotsAreInts DEF RegistryOK
<1>5. ASSUME NEW q \in Structs
      PROVE  Registered(q)' <=> q # p /\ (Registered(q) \/ q = e)
  BY <1>1, <1>2 DEF Registered
<1>6. ASSUME NEW q \in Structs
      PROVE  Stored(q)' <=> Stored(q) /\ q # e
  <2>1. q # NoPlayer
    BY SlotsAreInts
  <2> QED
    BY <1>1, <1>3, <2>1 DEF Stored
<1>7. Stored(e) /\ ~Stored(p)
  BY <1>4 DEF Stored
<1> QED
  BY <1>5, <1>6, <1>7 DEF Known

LEMMA HelloKept ==
    ASSUME KeptInv, QueueRoom, NEW f \in Fds \cap Slots, NEW p \in Structs,
           players[f] = p, fd[p] = f, conn[f] \in {"up", "eof"}, ps[p] = "JUST_CONNECTED",
           NEW n \in Names \cup LongNames, p_hello(p, n)
    PROVE  /\ PlayersKept' /\ ReplacedIsNew'
           /\ LoginsAnswered /\ NamesHeldOnce => NamesHeldOnce'
<1> USE DEF KeptInv, MatchInv, RegInv, TypeInv, TypeOK
<1>1. CASE UNCHANGED <<ps, name, fd, regVars, gameVars>>
  <2>1. KeepsLogin /\ NewInGameFrom(players) /\ UNCHANGED <<players, dc_players, fd, name>>
    BY <1>1 DEF KeepsLogin, NewInGameFrom, regVars, gameVars
  <2>2. \A q \in Structs : Known(q)' <=> Known(q)
    BY <2>1 DEF Known, Registered, Stored
  <2> QED
    BY <2>1, <2>2, SameKept, SameHeld
<1>2. CASE /\ n \in Names /\ lookup_player_by_name(n, players, name) = {}
           /\ name' = [name EXCEPT ![p] = n]
           /\ \/ UNCHANGED <<fd, ps, regVars, gameVars>>
              \/ lookup_dc_player(n) = {} /\ first_login(p, n)
              \/ \E i \in lookup_dc_player(n) : login_again(p, n, i)
  <2>1. \A g \in Slots : players[g] # NoPlayer => name[players[g]] # n
    <3> DEFINE S == {g \in Slots : players[g] # NoPlayer /\ name[players[g]] = n}
    <3>1. Least(S) = {}
      BY <1>2 DEF lookup_player_by_name
    <3>2. S = {}
      BY <3>1, LeastExists, SlotsAreInts
    <3> QED
      BY <3>2
  <2>2. \A q \in Structs : name'[q] = IF q = p THEN n ELSE name[q]
    BY <1>2 DEF StructType
  <2>3. n # NewPlayer /\ p # NoPlayer
    <3>1. name[p] = NewPlayer /\ p # NoPlayer
      BY SlotsAreInts DEF MatchOK, NewIsUnnamed
    <3> QED
      BY <2>1, <3>1
  <2>4. ASSUME UNCHANGED <<players, dc_players, fd, games>>,
               \A q \in Structs \ {p} : ps'[q] = ps[q],
               ps' = ps \/ lookup_dc_player(n) = {}
        PROVE  /\ PlayersKept' /\ ReplacedIsNew'
               /\ LoginsAnswered /\ NamesHeldOnce => NamesHeldOnce'
    <3>1. \A q : (Registered(q)' <=> Registered(q)) /\ (Known(q)' <=> Known(q))
      BY <2>4 DEF Known, Registered, Stored
    <3>2. Registered(p) /\ Known(p)
      BY DEF Registered, Known
    <3>3. PlayersKept' /\ ReplacedIsNew'
      BY <2>4, <3>1, <3>2 DEF PlayersKept, ReplacedIsNew
    <3>4. CASE ps' = ps
      <4>1. NamesHeldOnce => NamesHeldOnce'
        BY <2>2, <3>1, <3>4 DEF NamesHeldOnce
      <4> QED
        BY <3>3, <4>1
    <3>5. CASE lookup_dc_player(n) = {}
      <4> DEFINE S == {j \in Slots : dc_players[j] # NoPlayer /\ name[dc_players[j]] = n}
      <4>1. S = {}
        BY <3>5, LeastExists, SlotsAreInts DEF lookup_dc_player
      <4>2. \A q \in Structs : Known(q) => name[q] # n
        BY <2>1, <4>1, SlotsAreInts DEF Known, Registered, Stored
      <4>3. NamesHeldOnce => NamesHeldOnce'
        BY <2>2, <2>4, <3>1, <4>2 DEF NamesHeldOnce
      <4> QED
        BY <3>3, <4>3
    <3> QED
      BY <2>4, <3>4, <3>5
  <2>5. ASSUME NEW i \in lookup_dc_player(n), login_again(p, n, i)
        PROVE  /\ PlayersKept' /\ ReplacedIsNew'
               /\ LoginsAnswered /\ NamesHeldOnce => NamesHeldOnce'
    <3> DEFINE e  == dc_players[i]
               F  == [fd EXCEPT ![e] = fd[p]]
               PL == [players EXCEPT ![fd[p]] = e]
               N  == [name EXCEPT ![p] = n]
               V  == Told(view, {fd[p]}, "lobby")
    <3>1. i \in Slots /\ e \in Structs /\ name[e] = n /\ fd[e] = -1 /\ e # p
      <4>1. name[p] # n
        BY <2>1, <2>3
      <4>2. i \in Slots /\ dc_players[i] # NoPlayer /\ name[e] = n
        BY DEF lookup_dc_player, Least
      <4> QED
        BY <4>1, <4>2 DEF RegType, RegistryOK, RegOK
    <3>2. /\ fd' = F /\ players' = PL /\ PL = [players EXCEPT ![f] = e]
          /\ dc_players' = [dc_players EXCEPT ![i] = NoPlayer]
          /\ F = [fd EXCEPT ![e] = f]
      BY <2>5 DEF login_again
    <3>3. /\ \A q \in Structs : Known(q)' <=> Known(q) /\ q # p
          /\ \A q \in Structs : Registered(q)' <=> q # p /\ (Registered(q) \/ q = e)
      <4>1. /\ \A g \in Slots : players'[g] = IF g = f THEN e ELSE players[g]
            /\ \A j \in Slots : dc_players'[j] = IF j = i THEN NoPlayer ELSE dc_players[j]
        BY <3>1, <3>2 DEF RegType
      <4>2. dc_players[i] = e
        OBVIOUS
      <4> HIDE DEF e, F, PL, N, V, RegInv, TypeInv, TypeOK
      <4> QED
        BY <3>1, <4>1, <4>2, ReplacedKnown
    <3>4. \/ UNCHANGED <<ps, games>>
          \/ ps[e] = "QUEUE" /\ add_to_queue(e, PL, F, N, V, "ok")
          \/ ps' = [ps EXCEPT ![e] = "LOGGED_IN"] /\ UNCHANGED games
      BY <2>5 DEF login_again, gameVars
    <3>5. PL \in [Slots -> Structs \cup {NoPlayer}] /\ N \in [Structs -> Names]
      BY <1>2, <3>1 DEF RegType, StructType
    <3>6. \E g \in Slots : PL[g] = e
      BY <3>2, <3>5 DEF RegType
    <3> HIDE DEF e, F, PL, N, V
    \* Nobody but e changes to another state than before his login, and e was logged in.
    <3>7. /\ \A q \in Structs \ {e} :
                ps'[q] = ps[q] \/ (ps[q] # "JUST_CONNECTED" /\ ps'[q] # "JUST_CONNECTED")
          /\ NewInGameFrom(PL)
      <4>1. CASE ps[e] = "QUEUE" /\ add_to_queue(e, PL, F, N, V, "ok")
        <5>1. QueuedOrPaired(e, PL)
          <6>1. NotShared(PL, N) /\ Named(N, ps) /\ FlagsWaitIn(queue, queue_key, PL, N, ps)
            <7>1. RegOK'
              <8>1. p <= allocated /\ fd[p] >= 0
                BY SlotsAreInts DEF RegOK, RegistryAllocated
              <8> QED
                BY <8>1, HelloRegistry
            <7>2. NotShared(PL, N)
              BY <1>2, <3>2, <7>1 DEF NotShared, RegOK, NamesUnique, N
            <7>3. Named(N, ps)
              BY <1>2, <2>2, <2>3 DEF MatchOK, NamedOnceLoggedIn, Named, N
            <7>4. \A g \in Slots : players[g] # e
              BY <3>1, SlotsAreInts DEF RegOK, RegistryOK
            <7>5. FlagsWaitIn(queue, queue_key, PL, N, ps)
              BY <1>2, <3>1, <3>2, <7>4, HelloFlags DEF N
            <7> QED
              BY <7>2, <7>3, <7>5
          <6> QED
            BY <3>1, <3>5, <3>6, <4>1, <6>1, AddToQueueEffect DEF MatchOK
        <5>2. KeepsLogin /\ NewInGameFrom(PL)
          BY <3>1, <3>6, <4>1, <5>1, PairedFrom
        <5> QED
          BY <5>2 DEF KeepsLogin
      <4>2. CASE UNCHANGED games /\ (UNCHANGED ps \/ ps' = [ps EXCEPT ![e] = "LOGGED_IN"])
        BY <4>2 DEF NewInGameFrom, StructType
      <4> QED
        BY <3>4, <4>1, <4>2
    <3>8. \A i1 \in GameSlots : ~Involves(games[i1], p)
      BY PlayersPlay DEF MatchOK
    <3>9. PlayersKept'
      <4>1. ASSUME NEW j \in GameSlots, NEW q \in Structs, Involves(games'[j], q)
            PROVE  Known(q)'
        <5>1. CASE Involves(games[j], q)
          BY <3>3, <3>8, <5>1 DEF PlayersKept
        <5>2. CASE \E g \in Slots : PL[g] = q
          BY <3>2, <5>2 DEF Known, Registered
        <5> QED
          BY <3>7, <4>1, <5>1, <5>2 DEF NewInGameFrom
      <4> QED
        BY <4>1 DEF PlayersKept, Known, Registered, Stored
    <3>10. ReplacedIsNew'
      <4>1. ASSUME NEW q \in Structs, fd'[q] >= 0, ~Registered(q)'
            PROVE  ps'[q] = "JUST_CONNECTED"
        <5>1. q # e
          BY <3>1, <3>3, <4>1
        <5>2. fd'[q] = fd[q]
          BY <3>2, <5>1 DEF StructType
        <5>3. q = p \/ ~Registered(q)
          BY <3>3, <4>1
        <5>4. ps[q] = "JUST_CONNECTED"
          BY <4>1, <5>2, <5>3 DEF ReplacedIsNew
        <5> QED
          BY <3>7, <5>1, <5>4
      <4> QED
        BY <4>1 DEF ReplacedIsNew, Registered
    <3>11. ASSUME LoginsAnswered, NamesHeldOnce PROVE NamesHeldOnce'
      <4>1. Known(e)
        BY <3>1 DEF Known, Stored, e
      <4>2. ps[e] # "JUST_CONNECTED"
        BY <2>3, <3>1, <3>11, <4>1 DEF LoginsAnswered, Known
      <4>3. \A q \in Structs : ps'[q] # "JUST_CONNECTED" => ps[q] # "JUST_CONNECTED"
        BY <3>7, <4>2
      <4>4. \A q \in Structs : Known(q)' => Known(q) /\ name'[q] = name[q]
        BY <2>2, <3>3
      <4> QED
        BY <3>11, <4>3, <4>4 DEF NamesHeldOnce
    <3> QED
      BY <3>9, <3>10, <3>11
  <2>6. CASE lookup_dc_player(n) = {} /\ first_login(p, n)
    <3>1. /\ UNCHANGED <<players, dc_players, fd, games>>
          /\ \A q \in Structs \ {p} : ps'[q] = ps[q]
      BY <2>6 DEF first_login, regVars, gameVars, StructType
    <3> QED
      BY <2>4, <2>6, <3>1
  <2>7. CASE UNCHANGED <<fd, ps, regVars, gameVars>>
    BY <2>4, <2>7 DEF regVars, gameVars
  <2> QED
    BY <1>2, <2>5, <2>6, <2>7
<1> QED
  BY <1>1, <1>2 DEF p_hello

LEMMA QuietKept ==
    ASSUME KeptInv, UNCHANGED <<players, dc_players, fd, name>>, KeepsLogin, NewInGameFrom(players)
    PROVE  PlayersKept' /\ ReplacedIsNew' /\ (NamesHeldOnce => NamesHeldOnce')
<1>1. \A q \in Structs : Known(q)' <=> Known(q)
  BY DEF Known, Registered, Stored
<1> QED
  BY <1>1, SameKept, SameHeld

LEMMA DisconnectHeld ==
    ASSUME KeptInv, QueueRoom, StoreRoom, NEW p \in Structs, NEW final, NEW socks, NEW inv,
           fd[p] >= 0 => players[fd[p]] \in {p, NoPlayer},
           disconnect(p, final, socks, inv)
    PROVE  PlayersKept' /\ ReplacedIsNew' /\ (NamesHeldOnce => NamesHeldOnce')
<1>1. /\ \A q \in Structs : Known(q)' <=> Known(q) \/ (q = p /\ fd[p] >= 0)
      /\ UNCHANGED name
  BY DisconnectStores DEF KeptInv, MatchInv
<1>2. KeepsLogin
  BY DisconnectMatch DEF KeptInv
<1>3. \A q \in Structs : Known(q)' => Known(q) \/ ps[q] = "JUST_CONNECTED"
  BY <1>1 DEF KeptInv, ReplacedIsNew, Known
<1> QED
  BY <1>1, <1>2, <1>3, SameHeld, DisconnectKept

LEMMA HandlePacketKept ==
    ASSUME KeptInv, QueueRoom, NEW f \in Fds \cap Slots, NEW p \in Structs,
           players[f] = p, fd[p] = f, conn[f] \in {"up", "eof"}, HandlePacket(p)
    PROVE  /\ PlayersKept' /\ ReplacedIsNew'
           /\ LoginsAnswered /\ NamesHeldOnce => NamesHeldOnce'
<1>1. fd[p] >= 0 /\ ~(fd[p] < 0) /\ ps[p] \in PlayerStates
  BY SlotsAreInts DEF KeptInv, MatchInv, RegInv, TypeInv, TypeOK, StructType
<1>2. CASE UNCHANGED <<players, dc_players, fd, name, ps, games>>
  BY <1>2, QuietKept DEF KeepsLogin, NewInGameFrom
<1>3. ASSUME NEW k \in packet_handlers(ps[p]),
             \/ k = "HELLO" /\ \E n \in Names \cup LongNames : p_hello(p, n)
             \/ k = "QUEUE" /\ p_queue(p)
             \/ k = "LEAVE_QUEUE" /\ p_leave_queue(p)
             \/ k \in PlayPackets /\ play_packet(p, k)
             \/ k = "KEEP_ALIVE" /\ p_keepalive(p)
      PROVE  /\ PlayersKept' /\ ReplacedIsNew'
             /\ LoginsAnswered /\ NamesHeldOnce => NamesHeldOnce'
  <2>1. CASE p_keepalive(p)
    BY <1>2, <2>1 DEF p_keepalive, keepSession, regVars, gameVars
  <2>2. CASE k = "QUEUE" /\ p_queue(p)
    BY <1>1, <1>3, <2>2, HandlersByState, QueueMatch, QuietKept
       DEF p_queue, keepSession, regVars, KeptInv
  <2>3. CASE k = "LEAVE_QUEUE" /\ p_leave_queue(p)
    BY <1>1, <1>3, <2>3, HandlersByState, LeaveQueueMatch, QuietKept
       DEF p_leave_queue, keepSession, regVars, KeptInv
  <2>4. CASE play_packet(p, k)
    BY <2>4, PlayMatch, QuietKept DEF play_packet, keepSession, regVars, KeptInv
  <2> QED
    BY <1>1, <1>3, <2>1, <2>2, <2>3, <2>4, HandlersByState, HelloKept
<1> QED
  BY <1>1, <1>2, <1>3 DEF HandlePacket, structVars, regVars, gameVars

\* A new client is not in a game, and has not logged in.
LEMMA NewClientKept ==
    ASSUME KeptInv, handle_new_client
    PROVE  PlayersKept' /\ ReplacedIsNew' /\ (NamesHeldOnce => NamesHeldOnce')
<1> USE DEF KeptInv, MatchInv, RegInv, TypeInv, TypeOK, RegOK
<1>1. UNCHANGED <<dc_players, ps, name, games>>
  BY DEF handle_new_client, gameVars
<1>2. CASE UNCHANGED <<players, fd>>
  BY <1>1, <1>2, QuietKept DEF KeepsLogin, NewInGameFrom
<1>3. ASSUME NEW f \in Slots, players[f] = NoPlayer, allocated < MaxStructs,
             players' = [players EXCEPT ![f] = allocated + 1],
             fd' = [fd EXCEPT ![allocated + 1] = f]
      PROVE  PlayersKept' /\ ReplacedIsNew' /\ (NamesHeldOnce => NamesHeldOnce')
  <2>1. PICK new \in Structs : new = allocated + 1 /\ new > allocated
    BY <1>3, BoundAssumption DEF StructType, Structs
  <2>2. ps[new] = "JUST_CONNECTED"
    BY <2>1 DEF RegistryAllocated, MatchOK, NamedOnceLoggedIn, Named
  <2>3. \A g \in Slots : players'[g] = IF g = f THEN new ELSE players[g]
    BY <1>3, <2>1 DEF RegType
  <2>4. \A q \in Structs : fd'[q] = IF q = new THEN f ELSE fd[q]
    BY <1>3, <2>1 DEF StructType
  <2>5. \A q \in Structs : Registered(q)' <=> Registered(q) \/ q = new
    BY <1>3, <2>3, SlotsAreInts DEF Registered
  <2>6. \A q \in Structs : Known(q)' <=> Known(q) \/ q = new
    BY <1>1, <2>5 DEF Known, Stored
  <2>7. PlayersKept'
    BY <1>1, <2>6 DEF PlayersKept
  <2>8. ReplacedIsNew'
    BY <1>1, <2>4, <2>5 DEF ReplacedIsNew
  <2>9. NamesHeldOnce => NamesHeldOnce'
    BY <1>1, <2>2, <2>6, SameHeld DEF KeepsLogin
  <2> QED
    BY <2>7, <2>8, <2>9
<1>4. \/ UNCHANGED <<players, fd>>
      \/ \E f \in Slots : /\ players[f] = NoPlayer /\ allocated < MaxStructs
                          /\ players' = [players EXCEPT ![f] = allocated + 1]
                          /\ fd' = [fd EXCEPT ![allocated + 1] = f]
  BY DEF handle_new_client
<1> QED
  BY <1>2, <1>3, <1>4

LEMMA StepKept ==
    ASSUME Regular, KeptInv, QueueRoom, StoreRoom, [Next]_vars
    PROVE  KeptInv' /\ (LoginsAnswered /\ NamesHeldOnce => NamesHeldOnce')
<1> DEFINE Goal == /\ PlayersKept' /\ ReplacedIsNew'
                   /\ LoginsAnswered /\ NamesHeldOnce => NamesHeldOnce'
<1> SUFFICES Goal
  BY StepMatch DEF KeptInv
<1>0. RegInv /\ TypeOK
  BY DEF KeptInv, MatchInv, RegInv, TypeInv
<1>1. CASE handle_new_client
  BY <1>1, NewClientKept
<1>2. ASSUME NEW f \in Fds, read_packet(f) PROVE Goal
  <2>1. PICK p \in Owner(f) : HandlePacket(p)
    BY <1>2 DEF read_packet
  <2>2. f \in client_socks /\ conn[f] \in {"up", "eof"}
    BY <1>2 DEF read_packet
  <2>3. p \in Structs /\ f \in Slots /\ players[f] = p /\ fd[p] = f
    BY <1>0, <2>2, OwnerServed
  <2> QED
    BY <2>1, <2>2, <2>3, HandlePacketKept
<1>3. ASSUME NEW f \in Fds, read_eof(f) PROVE Goal
  <2>1. PICK p \in Owner(f) : disconnect(p, FALSE, client_socks \ {f}, invalid_sends)
    BY <1>3 DEF read_eof
  <2>2. f \in client_socks
    BY <1>3 DEF read_eof
  <2>3. p \in Structs /\ players[fd[p]] = p
    BY <1>0, <2>2, OwnerServed
  <2> QED
    BY <2>1, <2>3, DisconnectHeld
<1>4. CASE invalid_data
  <2> DEFINE inv == [invalid_sends EXCEPT ![player] = @ + 1]
  <2>1. player \in Structs /\ pc = "inval" /\ ServedStays
    BY <1>4 DEF invalid_data, KeptInv, MatchInv, RegInv, TypeInv, ServingSomeone
  <2>2. CASE UNCHANGED <<ps, fd, name, regVars, gameVars>>
    BY <2>2, QuietKept DEF regVars, gameVars, KeepsLogin, NewInGameFrom
  <2>3. CASE disconnect(player, TRUE, client_socks, inv)
    BY <2>1, <2>3, DisconnectHeld DEF ServedStays
  <2> QED
    BY <1>4, <2>2, <2>3 DEF invalid_data
<1>5. ASSUME NEW t \in Threads, keepalive(t) PROVE Goal
  <2>1. CASE UNCHANGED <<ps, fd, name, regVars, gameVars>>
    BY <2>1, QuietKept DEF regVars, gameVars, KeepsLogin, NewInGameFrom
  <2>2. ASSUME thread[t].pc = "loop", NEW p \in Watched(t), NEW final \in BOOLEAN,
               disconnect(p, final, client_socks, invalid_sends)
        PROVE  Goal
    <3>1. p \in Structs /\ (fd[p] >= 0 => players[fd[p]] \in {p, NoPlayer})
      BY <1>0, <2>2, WatchedUnreplaced
    <3> QED
      BY <2>2, <3>1, DisconnectHeld
  <2> QED
    BY <1>5, <2>1, <2>2 DEF keepalive, keepalive_start, keepalive_loop, structVars
<1>6. CASE (\E f \in Fds : peer_closes(f)) \/ tick \/ UNCHANGED vars
  BY <1>6, QuietKept DEF peer_closes, tick, vars, structVars, regVars, gameVars,
                         KeepsLogin, NewInGameFrom
<1>7. ~read_next_packet /\ ~buffer_rest
  BY DEF KeptInv, MatchInv, ServedStays, read_next_packet, buffer_rest
<1> QED
  BY <1>1, <1>2, <1>3, <1>4, <1>5, <1>6, <1>7 DEF Next, main

LEMMA InitKept == Init => KeptInv /\ NamesHeldOnce
BY InitMatch, NotInNoGame DEF Init, KeptInv, PlayersKept, ReplacedIsNew, NamesHeldOnce

\* A player is in at most one game and never against itself; both players of a game are in
\* PLAY and are connected or stored for their return, as long as the tables have room.
THEOREM GamesCorrect ==
    ASSUME Regular
    PROVE  Spec /\ []QueueRoom /\ []StoreRoom => []GamesOK
<1>1. ASSUME KeptInv PROVE GamesOK
  <2> USE DEF KeptInv, MatchInv, MatchOK
  <2>1. \A i \in GameSlots : \A q \in PlayersOf(games[i]) : Involves(games[i], q)
    BY DEF PlayersOf, Involves
  <2>2. ASSUME NEW i \in GameSlots, NEW j \in GameSlots, i # j, games[i] # NoGame,
               NEW q \in PlayersOf(games[i]) \cap PlayersOf(games[j])
        PROVE  q = NoPlayer
    <3>1. q \in Structs
      BY <1>1, <2>2 DEF GamesApart, PlayersOf
    <3> QED
      BY <1>1, <2>1, <2>2, <3>1 DEF GamesApart
  <2>3. ASSUME NEW i \in GameSlots, games[i] # NoGame
        PROVE  /\ games[i].white # games[i].black
               /\ \A q \in PlayersOf(games[i]) :
                    q # NoPlayer /\ ps[q] = "PLAY" /\ (Registered(q) \/ Stored(q))
    BY <1>1, <2>1, <2>3, SlotsAreInts DEF GamesApart, PlayersOf, PlayersKept, Known
  <2> QED
    BY <2>2, <2>3 DEF GamesOK
<1>2. KeptInv /\ QueueRoom /\ StoreRoom /\ [Next]_vars => KeptInv'
  <2>1. Regular
    OBVIOUS
  <2> QED
    BY <2>1, StepKept
<1>3. Init => KeptInv
  BY InitKept
<1> QED
  BY <1>1, <1>2, <1>3, PTL DEF Spec

\* A player away from a game is the one whom the next login under his name finds, as long as
\* the tables have room and every login of a player who is kept was answered.
THEOREM AwayCanReturnCorrect ==
    ASSUME Regular
    PROVE  Spec /\ []QueueRoom /\ []StoreRoom /\ []LoginsAnswered => []AwayCanReturn
<1>1. ASSUME KeptInv, NamesHeldOnce, LoginsAnswered PROVE AwayCanReturn
  <2> USE DEF KeptInv, MatchInv, MatchOK, RegInv, TypeInv, TypeOK, RegOK
  <2>1. SUFFICES ASSUME NEW p \in Structs, InGame(p), ~Registered(p)
                 PROVE  \E i \in lookup_dc_player(name[p]) : dc_players[i] = p
    BY DEF AwayCanReturn
  <2>2. PICK k \in GameSlots : Involves(games[k], p)
    BY <2>1 DEF InGame, lookup_game, Least
  <2>3. ps[p] = "PLAY" /\ Stored(p)
    BY <1>1, <2>1, <2>2, PlayersPlay DEF PlayersKept, Known
  <2>4. PICK i \in Slots : dc_players[i] = p
    BY <2>3 DEF Stored
  <2>5. name[p] # NewPlayer
    BY <1>1, <2>3 DEF NamedOnceLoggedIn, Named
  <2> DEFINE S == {j \in Slots : dc_players[j] # NoPlayer /\ name[dc_players[j]] = name[p]}
  <2>6. ASSUME NEW j \in S PROVE j = i
    <3>1. PICK q \in Structs : q = dc_players[j] /\ name[q] = name[p] /\ j \in Slots
      BY <1>1 DEF RegType
    <3>2. Stored(q)
      BY <3>1 DEF Stored
    <3>3. ps[q] # "JUST_CONNECTED"
      BY <1>1, <2>5, <3>1, <3>2 DEF LoginsAnswered
    <3>4. q = p
      BY <1>1, <2>3, <3>1, <3>2, <3>3 DEF NamesHeldOnce, Known
    <3> QED
      BY <1>1, <2>4, <3>1, <3>4, SlotsAreInts DEF RegistryOK
  <2>7. i \in S
    BY <2>4, SlotsAreInts
  <2>8. i \in Least(S)
    BY <2>6, <2>7, SlotsAreInts DEF Least
  <2> QED
    BY <2>4, <2>8 DEF lookup_dc_player
<1>2. KeptInv /\ NamesHeldOnce /\ QueueRoom /\ StoreRoom /\ LoginsAnswered /\ [Next]_vars
         => KeptInv' /\ NamesHeldOnce'
  <2>1. Regular
    OBVIOUS
  <2> QED
    BY <2>1, StepKept
<1>3. Init => KeptInv /\ NamesHeldOnce
  BY InitKept
<1> QED
  BY <1>1, <1>2, <1>3, PTL DEF Spec
=============================================================================
