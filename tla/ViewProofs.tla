----------------------------- MODULE ViewProofs -----------------------------
(***************************************************************************)
(* What the clients of ChessServer believe: theorems on the last state     *)
(* each of them was told of, under the hypotheses of SessionProofs.        *)
(***************************************************************************)
EXTENDS SessionProofs

USE DEF NoPlayer, short_term_dc, long_term_dc

---------------------------------------------------------------------------
\* The player who leaves, and who is told.

\* Only a disconnection takes the descriptor from a player.
LEMMA FdTakenByDisconnect ==
    ASSUME RegInv, [Next]_vars, NEW p \in Structs, fd[p] # -1, fd'[p] = -1
    PROVE  \E final, socks, inv : final \in BOOLEAN /\ disconnect(p, final, socks, inv)
<1> USE DEF RegInv, TypeInv, TypeOK
<1>1. ASSUME NEW q \in Structs, HandlePacket(q)
      PROVE  fd'[p] # -1
  <2>1. CASE UNCHANGED fd
    BY <2>1
  <2>2. ASSUME NEW n, fd[q] >= 0, p_hello(q, n) PROVE fd'[p] # -1
    <3>1. UNCHANGED fd \/ \E e \in DOMAIN fd \cup {NoPlayer} : fd' = [fd EXCEPT ![e] = fd[q]]
      <4>1. ASSUME NEW i \in lookup_dc_player(n), login_again(q, n, i)
            PROVE  \E e \in DOMAIN fd \cup {NoPlayer} : fd' = [fd EXCEPT ![e] = fd[q]]
        BY <4>1 DEF login_again, lookup_dc_player, Least, RegType, StructType
      <4> QED
        BY <2>2, <4>1 DEF p_hello, first_login
    <3>2. fd[q] # -1
      BY <2>2
    <3>3. CASE UNCHANGED fd
      BY <3>3
    <3>4. ASSUME NEW e \in DOMAIN fd \cup {NoPlayer}, fd' = [fd EXCEPT ![e] = fd[q]]
          PROVE  fd'[p] # -1
      BY <3>2, <3>4 DEF StructType
    <3> QED
      BY <3>1, <3>3, <3>4
  <2> QED
    BY <1>1, <2>1, <2>2 DEF HandlePacket, structVars, p_queue, p_leave_queue, play_packet,
                      p_keepalive, keepSession
<1>2. ASSUME NEW q, NEW final \in BOOLEAN, NEW socks, NEW inv, disconnect(q, final, socks, inv)
      PROVE  \E fin, so, iv : fin \in BOOLEAN /\ disconnect(p, fin, so, iv)
  <2>1. UNCHANGED fd \/ fd' = [fd EXCEPT ![q] = -1]
    BY <1>2 DEF disconnect, pman_handle_dc
  <2>2. fd'[p] # fd[p]
    BY DEF StructType
  <2>3. p = q
    BY <2>1, <2>2 DEF StructType
  <2> QED
    BY <1>2, <2>3
<1>3. CASE handle_new_client
  <2>1. UNCHANGED fd \/ \E f \in Slots : fd' = [fd EXCEPT ![allocated + 1] = f]
    BY <1>3 DEF handle_new_client, Least
  <2> QED
    BY <2>1, SlotsAreInts DEF StructType
<1>4. ASSUME NEW f \in Fds, read_packet(f) \/ read_eof(f)
      PROVE  \E fin, so, iv : fin \in BOOLEAN /\ disconnect(p, fin, so, iv)
  <2>1. \A q \in Owner(f) : q \in Structs
    BY OwnerRegistered
  <2> QED
    BY <1>1, <1>2, <1>4, <2>1 DEF read_packet, read_eof
<1>5. CASE read_next_packet
  BY <1>1, <1>5 DEF read_next_packet, ServingSomeone
<1>6. CASE invalid_data
  BY <1>2, <1>6 DEF invalid_data
<1>7. ASSUME NEW t \in Threads, keepalive(t)
      PROVE  \E fin, so, iv : fin \in BOOLEAN /\ disconnect(p, fin, so, iv)
  BY <1>2, <1>7 DEF keepalive, keepalive_start, keepalive_loop, structVars
<1>8. ~buffer_rest /\ ~tick /\ ~(\E f \in Fds : peer_closes(f)) /\ ~UNCHANGED vars
  BY DEF buffer_rest, tick, peer_closes, vars, structVars
<1> QED
  BY <1>3, <1>4, <1>5, <1>6, <1>7, <1>8 DEF Next, main

\* A descriptor told v has not been told something else.
LEMMA ToldOne ==
    ASSUME NEW V, NEW F, NEW v, NEW f \in Fds
    PROVE  /\ f \in F => Told(V, F, v)[f] \in {v, "none"}
           /\ f \notin F => Told(V, F, v)[f] = V[f]
           /\ Told(V, F, v)[f] \in {v, V[f]}
BY DEF Told

LEMMA DisconnectTells ==
    ASSUME RegInv, NEW p \in Structs, NEW final \in BOOLEAN, NEW socks, NEW inv,
           disconnect(p, final, socks, inv),
           fd[p] \in 0 .. MaxGames - 1, NEW f \in Fds \cap Slots, NEW i \in lookup_game(p),
           players[f] # NoPlayer, Opponent(games[i], p) = players[f], f # fd[p]
    PROVE  view'[f] # "play"
<1> DEFINE over  == IF final THEN lookup_game(p) ELSE {}
           ended == UNION {PlayersOf(games[j]) : j \in over}
           G     == [j \in GameSlots |-> IF j \in over THEN NoGame ELSE games[j]]
           told  == Told(view, FdsOf(ended), "lobby")
<1>1. fd[p] >= 0 /\ ~(fd[p] < 0) /\ fd[p] < MaxGames
  BY GameSlotZero
<1>2. view' = [Told(told, Informed(p, G), "play_alone") EXCEPT ![fd[p]] = "none"]
  BY <1>1 DEF disconnect
<1>3. i \in GameSlots /\ games[i] # NoGame /\ Involves(games[i], p)
  BY DEF lookup_game, Least
<1>4. PICK q \in Structs : q = players[f] /\ fd[q] = f
  BY DEF RegInv, TypeInv, TypeOK, RegType, RegOK, RegistryOK
<1>5. q \in PlayersOf(games[i])
  BY <1>4 DEF Opponent, PlayersOf
<1>6. view'[f] = Told(told, Informed(p, G), "play_alone")[f]
  BY <1>2 DEF Told
<1>7. CASE final
  <2>1. q \in ended
    BY <1>5, <1>7
  <2>2. f \in FdsOf(ended)
    <3> HIDE DEF ended
    <3> QED
      BY <1>4, <2>1 DEF FdsOf
  <2>3. told[f] \in {"lobby", "none"}
    BY <2>2, ToldOne
  <2> HIDE DEF told, G
  <2> QED
    BY <1>6, <2>3, ToldOne
<1>8. CASE ~final
  <2>1. G[i] = games[i]
    BY <1>3, <1>8
  <2> HIDE DEF G, told
  <2>2. q \in {Opponent(G[j], p) : j \in {k \in GameSlots : G[k] # NoGame /\ Involves(G[k], p)}}
    BY <1>3, <1>4, <2>1
  <2>3. f \in Informed(p, G)
    BY <1>1, <1>4, <2>2 DEF Informed, FdsOf
  <2> QED
    BY <1>6, <2>3, ToldOne
<1> QED
  BY <1>7, <1>8

\* The opponent of a player who leaves is told, when the leaver's descriptor is below the
\* number of games, however he left, and whatever else runs.
THEOREM OpponentToldCorrect == Spec => OpponentTold
<1> DEFINE Told1 == \A p \in Structs, f \in Fds \cap Slots :
         /\ fd[p] \in 0 .. MaxGames - 1 /\ fd'[p] = -1
         /\ conn[f] = "up" /\ conn'[f] = "up"
         /\ \E i \in lookup_game(p) : Opponent(games[i], p) = players[f]
         => view'[f] # "play"
<1>1. RegInv /\ [Next]_vars => Told1
  <2> SUFFICES ASSUME RegInv, [Next]_vars, NEW p \in Structs, NEW f \in Fds \cap Slots,
                      fd[p] \in 0 .. MaxGames - 1, fd'[p] = -1,
                      conn[f] = "up", conn'[f] = "up",
                      NEW i \in lookup_game(p), Opponent(games[i], p) = players[f]
               PROVE  view'[f] # "play"
    OBVIOUS
  <2>1. fd[p] # -1 /\ fd[p] >= 0 /\ ~(fd[p] < 0)
    BY GameSlotZero
  <2>2. PICK final, socks, inv : final \in BOOLEAN /\ disconnect(p, final, socks, inv)
    BY <2>1, FdTakenByDisconnect
  <2>3. conn' = [conn EXCEPT ![fd[p]] = "closed"]
    BY <2>1, <2>2 DEF disconnect
  <2>4. f # fd[p]
    BY <2>3 DEF RegInv, TypeInv, TypeOK, SockType
  <2>5. players[f] # NoPlayer
    BY DEF RegInv, RegOK, SocketsOK
  <2> QED
    BY <2>2, <2>4, <2>5, DisconnectTells
<1>2. Spec => []RegInv
  BY InitRegistry, StepRegistry, PTL DEF Spec
<1>3. RegInv /\ [Next]_vars => [Told1]_vars
  BY <1>1
<1> QED
  BY <1>2, <1>3, PTL DEF Spec, OpponentTold
---------------------------------------------------------------------------
\* The player who comes back.

\* Who has been told nothing is who has no connection.
ViewOpen == \A f \in Fds : view[f] = "none" <=> conn[f] = "closed"

LEMMA ToldOpensNothing ==
    ASSUME NEW V, NEW F, NEW v, v # "none", NEW f \in Fds
    PROVE  Told(V, F, v)[f] = "none" <=> V[f] = "none"
BY DEF Told

LEMMA AddToQueueOpens ==
    ASSUME NEW p, NEW PL, NEW F, NEW N, NEW V, NEW rval, add_to_queue(p, PL, F, N, V, rval)
    PROVE  \A f \in Fds : view'[f] = "none" <=> V[f] = "none"
<1>1. view' = V \/ \E S : \E v \in {"queue", "play"} : view' = Told(V, S, v)
  BY DEF add_to_queue, look_for_opponent
<1> QED
  BY <1>1, ToldOpensNothing

LEMMA HelloOpens ==
    ASSUME NEW p, NEW n, p_hello(p, n)
    PROVE  \A f \in Fds : view'[f] = "none" <=> view[f] = "none"
<1>1. CASE UNCHANGED view
  BY <1>1
<1>2. CASE first_login(p, n)
  BY <1>2, ToldOpensNothing DEF first_login
<1>3. ASSUME NEW i, login_again(p, n, i)
      PROVE  \A f \in Fds : view'[f] = "none" <=> view[f] = "none"
  <2> DEFINE V == Told(view, {fd[p]}, "lobby")
  <2>1. \A f \in Fds : V[f] = "none" <=> view[f] = "none"
    BY ToldOpensNothing
  <2>2. ASSUME NEW PL, NEW F, NEW N, add_to_queue(dc_players[i], PL, F, N, V, "ok")
        PROVE  \A f \in Fds : view'[f] = "none" <=> V[f] = "none"
    BY <2>2, AddToQueueOpens
  <2>3. ASSUME NEW S, view' = Told(V, S, "play")
        PROVE  \A f \in Fds : view'[f] = "none" <=> V[f] = "none"
    BY <2>3, ToldOpensNothing
  <2>4. \/ \E S : view' = Told(V, S, "play")
        \/ \E PL, F, N : add_to_queue(dc_players[i], PL, F, N, V, "ok")
        \/ view' = V
    BY <1>3 DEF login_again
  <2> HIDE DEF V
  <2> QED
    BY <2>1, <2>2, <2>3, <2>4
<1> QED
  BY <1>1, <1>2, <1>3 DEF p_hello

LEMMA HandlerOpens ==
    ASSUME NEW p, HandlePacket(p)
    PROVE  \A f \in Fds : view'[f] = "none" <=> view[f] = "none"
<1>1. CASE UNCHANGED view
  BY <1>1
<1>2. ASSUME NEW n, p_hello(p, n) PROVE \A f \in Fds : view'[f] = "none" <=> view[f] = "none"
  BY <1>2, HelloOpens
<1>3. CASE p_queue(p)
  BY <1>3, AddToQueueOpens DEF p_queue
<1>4. CASE p_leave_queue(p)
  BY <1>4, ToldOpensNothing DEF p_leave_queue
<1>5. ASSUME NEW k, play_packet(p, k)
      PROVE  \A f \in Fds : view'[f] = "none" <=> view[f] = "none"
  BY <1>5, ToldOpensNothing DEF play_packet, finish_game
<1> QED
  BY <1>1, <1>2, <1>3, <1>4, <1>5 DEF HandlePacket, sockVars, p_keepalive

LEMMA HelloOrSame ==
    ASSUME NEW p, HandlePacket(p)
    PROVE  \/ UNCHANGED <<fd, name, players, dc_players, client_socks>>
           \/ fd[p] >= 0 /\ \E n \in Names \cup LongNames : p_hello(p, n)
BY DEF HandlePacket, p_queue, p_leave_queue, play_packet, p_keepalive, keepSession,
       structVars, regVars, sockVars


LEMMA HandlerConn ==
    ASSUME RegInv, NEW p, HandlePacket(p)
    PROVE  \A f \in Fds : conn'[f] = "closed" <=> conn[f] = "closed"
<1> DEFINE Lossy == UNCHANGED conn \/ \E S : conn' = Lost(S)
<1>1. ASSUME NEW n, p_hello(p, n) PROVE Lossy
  <2>1. ASSUME NEW i, login_again(p, n, i) PROVE Lossy
    <3>1. \/ UNCHANGED conn
          \/ \E PL, F, N, V : add_to_queue(dc_players[i], PL, F, N, V, "ok")
      BY <2>1 DEF login_again
    <3> QED
      BY <3>1, AddToQueueConn
  <2> QED
    BY <1>1, <2>1 DEF p_hello, first_login
<1>2. ASSUME p_queue(p) PROVE Lossy
  BY <1>2, AddToQueueConn DEF p_queue
<1>3. ASSUME p_leave_queue(p) PROVE Lossy
  BY <1>3 DEF p_leave_queue
<1>4. ASSUME NEW k, play_packet(p, k) PROVE Lossy
  BY <1>4 DEF play_packet, finish_game
<1> HIDE DEF Lossy
<1>5. Lossy
  <2>1. UNCHANGED conn => Lossy
    BY DEF Lossy
  <2> QED
    BY <1>1, <1>2, <1>3, <1>4, <2>1 DEF HandlePacket, p_keepalive, sockVars
<1> USE DEF Lossy
<1> QED
  BY <1>5 DEF Lost, RegInv, TypeInv, TypeOK, SockType

LEMMA DisconnectOpens ==
    ASSUME RegInv, ViewOpen, NEW p \in Structs, NEW final, NEW socks, NEW inv,
           disconnect(p, final, socks, inv)
    PROVE  ViewOpen'
<1> USE DEF RegInv, TypeInv, TypeOK, SockType
<1> DEFINE over  == IF final THEN lookup_game(p) ELSE {}
           ended == UNION {PlayersOf(games[i]) : i \in over}
           G     == [i \in GameSlots |-> IF i \in over THEN NoGame ELSE games[i]]
           told  == Told(view, FdsOf(ended), "lobby")
           all   == Told(told, Informed(p, G), "play_alone")
<1>1. \A f \in Fds : told[f] = "none" <=> conn[f] = "closed"
  BY ToldOpensNothing DEF ViewOpen
<1>2. \A f \in Fds : all[f] = "none" <=> conn[f] = "closed"
  <2> HIDE DEF told
  <2> QED
    BY <1>1, ToldOpensNothing
<1>3. \/ view' = told /\ UNCHANGED conn
      \/ view' = [all EXCEPT ![fd[p]] = "none"] /\ conn' = [conn EXCEPT ![fd[p]] = "closed"]
  BY DEF disconnect
<1>4. DOMAIN all = Fds
  BY DEF Told
<1> HIDE DEF told, all
<1> QED
  BY <1>1, <1>2, <1>3, <1>4 DEF ViewOpen

LEMMA StepOpens ==
    ASSUME RegInv, ViewOpen, [Next]_vars
    PROVE  ViewOpen'
<1> USE DEF RegInv, TypeInv, TypeOK
<1>1. ASSUME NEW p, HandlePacket(p) PROVE ViewOpen'
  BY <1>1, HandlerConn, HandlerOpens DEF ViewOpen
<1>2. CASE UNCHANGED sockVars
  BY <1>2 DEF ViewOpen, sockVars
<1>3. CASE handle_new_client
  <2>1. PICK f \in Fds : /\ conn' = [conn EXCEPT ![f] = "up"]
                         /\ view' = [view EXCEPT ![f] = "connected"]
    BY <1>3 DEF handle_new_client, Least
  <2> QED
    BY <2>1 DEF ViewOpen, SockType
<1>4. ASSUME NEW f \in Fds, read_packet(f) PROVE ViewOpen'
  BY <1>1, <1>4 DEF read_packet
<1>5. ASSUME NEW f \in Fds, read_eof(f) PROVE ViewOpen'
  BY <1>5, OwnerRegistered, DisconnectOpens DEF read_eof
<1>6. CASE read_next_packet
  BY <1>1, <1>6 DEF read_next_packet
<1>7. CASE invalid_data
  BY <1>2, <1>7, DisconnectOpens DEF invalid_data, ServingSomeone
<1>8. ASSUME NEW t \in Threads, keepalive(t) PROVE ViewOpen'
  <2>1. ASSUME NEW p \in Watched(t), NEW final, disconnect(p, final, client_socks, invalid_sends),
               thread[t].pc = "loop"
        PROVE  ViewOpen'
    BY <2>1, WatchedUnreplaced, DisconnectOpens
  <2> QED
    BY <1>2, <1>8, <2>1 DEF keepalive, keepalive_start, keepalive_loop
<1>9. ASSUME NEW f \in Fds, peer_closes(f) PROVE ViewOpen'
  BY <1>9 DEF peer_closes, ViewOpen, SockType
<1> QED
  BY <1>2, <1>3, <1>4, <1>5, <1>6, <1>7, <1>8, <1>9
     DEF Next, main, buffer_rest, tick, vars

\* Logging in again under the name of a player of a game brings that game back.
LEMMA LoginResumes ==
    ASSUME MatchInv, ViewOpen, NEW q \in Structs, fd[q] >= 0, NEW n \in Names \cup LongNames,
           p_hello(q, n), NEW p \in Structs, fd[p] = -1, fd'[p] # -1, InGame(p)
    PROVE  /\ games' = games /\ ps'[p] = "PLAY" /\ name'[p] = name[p]
           /\ players'[fd'[p]] = p /\ view'[fd'[p]] = "play"
<1> USE DEF MatchInv, MatchOK, RegInv, TypeInv, TypeOK, RegOK
<1>1. fd[q] \in Slots /\ q # p
  BY SlotsAreInts DEF StructType
<1>2. PICK k \in GameSlots : Involves(games[k], p)
  BY DEF InGame, lookup_game, Least
<1>3. ps[p] = "PLAY" /\ lookup_game(p) # {}
  BY <1>2, PlayersPlay DEF InGame
<1>4. /\ name' = [name EXCEPT ![q] = n] /\ Reaches(fd[q])
      /\ \E i \in lookup_dc_player(n) : login_again(q, n, i)
  <2>1. ~UNCHANGED fd
    OBVIOUS
  <2> QED
    BY <2>1 DEF p_hello, first_login
<1>5. PICK i \in lookup_dc_player(n) : login_again(q, n, i)
  BY <1>4
<1> DEFINE e == dc_players[i]
           F == [fd EXCEPT ![e] = fd[q]]
           V == Told(view, {fd[q]}, "lobby")
<1>6. e \in Structs /\ fd' = F /\ players' = [players EXCEPT ![fd[q]] = e]
  BY <1>5 DEF login_again, lookup_dc_player, Least, RegType
<1>7. e = p /\ fd'[p] = fd[q]
  BY <1>6 DEF StructType
<1>8. name'[p] = name[p] /\ players'[fd'[p]] = p
  BY <1>1, <1>4, <1>6, <1>7 DEF StructType, RegType
<1>9. UnfinishedGame(p) = lookup_game(p) /\ UnfinishedGame(p) # {}
  BY <1>3 DEF UnfinishedGame
<1>10. PICK g \in UnfinishedGame(p) :
          /\ \/ view' = Told(V, ToldOfReturn(g, p, F), "play")
             \/ view' = Told(V, {fd[q]}, "play")
          /\ UNCHANGED <<ps, games>>
  <2>1. ps[e] # "QUEUE" /\ ~(UnfinishedGame(e) = {})
    BY <1>3, <1>7, <1>9
  <2> HIDE <1>7, <1>9
  <2>2. \E g \in UnfinishedGame(e) :
          /\ \/ view' = Told(V, ToldOfReturn(g, e, F), "play")
             \/ view' = Told(V, {fd[q]}, "play")
          /\ UNCHANGED <<ps, games>>
    BY <1>5, <2>1 DEF login_again, gameVars
  <2> QED
    BY <1>7, <2>2
<1>11. fd[q] \in ToldOfReturn(g, p, F)
  <2>1. Involves(games[g], p) /\ F[p] = fd[q]
    BY <1>6, <1>7, <1>9, <1>10 DEF lookup_game, Least
  <2> HIDE DEF F
  <2> QED
    BY <2>1 DEF ToldOfReturn, PlayersOf, Involves
<1>12. fd[q] \in Fds /\ view[fd[q]] # "none"
  BY <1>4 DEF Reaches, ViewOpen
<1>13. V[fd[q]] # "none"
  BY <1>12, ToldOpensNothing
<1>14. view'[fd[q]] = "play"
  <2> HIDE DEF V, F
  <2>1. \E S : fd[q] \in S /\ view' = Told(V, S, "play")
    BY <1>10, <1>11
  <2> QED
    BY <1>12, <1>13, <2>1 DEF Told
<1> QED
  BY <1>3, <1>7, <1>8, <1>10, <1>14

LEMMA ReturnStep ==
    ASSUME MatchInv, ViewOpen, [Next]_vars, NEW p \in Structs,
           fd[p] = -1, fd'[p] # -1, InGame(p)
    PROVE  /\ games' = games /\ ps'[p] = "PLAY" /\ name'[p] = name[p]
           /\ players'[fd'[p]] = p /\ view'[fd'[p]] = "play"
<1> DEFINE Resumed == /\ games' = games /\ ps'[p] = "PLAY" /\ name'[p] = name[p]
                      /\ players'[fd'[p]] = p /\ view'[fd'[p]] = "play"
<1>1. ~UNCHANGED fd /\ RegInv
  BY DEF MatchInv
<1>2. ASSUME NEW q \in Structs, HandlePacket(q) PROVE Resumed
  BY <1>1, <1>2, HelloOrSame, LoginResumes
<1>3. ASSUME NEW q \in Structs, NEW final, NEW socks, NEW inv, disconnect(q, final, socks, inv)
      PROVE  FALSE
  <2>1. fd'[p] \in {fd[p], -1}
    BY <1>1, <1>3, DisconnectRemoves DEF RegInv, TypeInv
  <2> QED
    BY <2>1
<1>4. ~handle_new_client
  <2>1. PICK k \in GameSlots : Involves(games[k], p)
    BY DEF InGame, lookup_game, Least
  <2>2. name[p] # NewPlayer
    BY <2>1, PlayersPlay DEF MatchInv, MatchOK, NamedOnceLoggedIn, Named
  <2>3. p # allocated + 1
    BY <2>2 DEF MatchInv, RegInv, RegOK, RegistryAllocated, TypeInv, TypeOK, StructType
  <2>4. ASSUME handle_new_client PROVE UNCHANGED fd \/ \E f : fd' = [fd EXCEPT ![allocated + 1] = f]
    BY <2>4 DEF handle_new_client
  <2> QED
    BY <2>3, <2>4 DEF MatchInv, RegInv, TypeInv, TypeOK, StructType
<1> HIDE DEF Resumed
<1>5. ASSUME NEW f \in Fds, read_packet(f) \/ read_eof(f) PROVE Resumed
  BY <1>1, <1>2, <1>3, <1>5, OwnerRegistered DEF read_packet, read_eof
<1>6. ASSUME read_next_packet PROVE Resumed
  <2>1. player \in Structs
    BY <1>1, <1>6 DEF read_next_packet, RegInv, TypeInv, ServingSomeone
  <2> QED
    BY <1>2, <1>6, <2>1 DEF read_next_packet
<1>7. ASSUME invalid_data PROVE Resumed
  BY <1>1, <1>3, <1>7 DEF invalid_data, RegInv, TypeInv, ServingSomeone
<1>8. ASSUME NEW t \in Threads, keepalive(t) PROVE Resumed
  <2>1. thread[t].pc = "loop" => \A q \in Watched(t) : q \in Structs
    BY <1>1, WatchedUnreplaced
  <2> QED
    BY <1>1, <1>3, <1>8, <2>1 DEF keepalive, keepalive_start, keepalive_loop, structVars
<1>9. ~buffer_rest /\ ~tick /\ ~(\E f \in Fds : peer_closes(f)) /\ ~UNCHANGED vars
  <2>1. UNCHANGED structVars => UNCHANGED fd
    BY DEF structVars
  <2> QED
    BY <1>1, <2>1 DEF buffer_rest, tick, peer_closes, vars
<1>10. Resumed
  BY <1>4, <1>5, <1>6, <1>7, <1>8, <1>9 DEF Next, main
<1> QED
  BY <1>10 DEF Resumed

LEMMA InitOpens == Init => ViewOpen
BY DEF Init, ViewOpen

\* A player who connects again under the name he left with gets his unfinished game back as he
\* left it, under the new descriptor, as long as the table of keys has room for another name.
THEOREM ReturnResumesGameCorrect ==
    ASSUME Regular
    PROVE  Spec /\ []QueueRoom => ReturnResumesGame
<1> DEFINE Resumes == \A p \in Structs : fd[p] = -1 /\ fd'[p] # -1 /\ InGame(p) =>
                         /\ games' = games /\ ps'[p] = "PLAY" /\ name'[p] = name[p]
                         /\ players'[fd'[p]] = p /\ view'[fd'[p]] = "play"
<1>1. MatchInv /\ ViewOpen /\ [Next]_vars => [Resumes]_vars
  BY ReturnStep
<1>2. MatchInv /\ ViewOpen /\ QueueRoom /\ [Next]_vars => MatchInv' /\ ViewOpen'
  <2>1. Regular
    OBVIOUS
  <2> QED
    BY <2>1, StepMatch, StepOpens DEF MatchInv
<1>3. Init => MatchInv /\ ViewOpen
  BY InitMatch, InitOpens
<1> QED
  BY <1>1, <1>2, <1>3, PTL DEF Spec, ReturnResumesGame

---------------------------------------------------------------------------
\* What a client is told and the state the server holds for it.

Fits(v, s) ==
    /\ v = "connected" => s = "JUST_CONNECTED"
    /\ v = "lobby" => s = "LOGGED_IN"
    /\ v = "queue" => s = "QUEUE"
    /\ v = "play" => s \in {"PLAY", "QUEUE"}
    /\ v = "play_alone" => s = "PLAY"

\* Every client that is there is one of the players PL.
AgreesIn(V, PL, S, C) ==
    \A f \in Fds \cap Slots : C[f] = "up" => PL[f] # NoPlayer /\ Fits(V[f], S[PL[f]])

Agreement == AgreesIn(view, players, ps, conn)

LEMMA LostNotUp ==
    ASSUME NEW F, NEW f \in Fds, Lost(F)[f] = "up"
    PROVE  conn[f] = "up"
BY DEF Lost

\* The flag at the index of a name is that of the one of PL who has it.
LEMMA FlagOwner ==
    ASSUME NEW PL \in [Slots -> Structs \cup {NoPlayer}], NEW N \in [Structs -> Names],
           NotShared(PL, N), Named(N, ps), FlagsWaitIn(queue, queue_key, PL, N, ps),
           NEW f \in Slots, PL[f] # NoPlayer,
           NEW id \in find_player_in_queue(N[PL[f]]), id # -1, queue[id]
    PROVE  ps[PL[f]] = "QUEUE"
<1>1. PL[f] \in Structs /\ N[PL[f]] \in Names
  OBVIOUS
<1>2. /\ id \in Slots
      /\ \/ queue_key[id] = N[PL[f]]
         \/ queue_key[id] = NoKey /\ \A i \in Slots : queue_key[i] # N[PL[f]]
  BY <1>1, IndexOfName
<1>3. PICK g \in Slots : PL[g] # NoPlayer /\ N[PL[g]] = queue_key[id] /\ ps[PL[g]] = "QUEUE"
  BY <1>2 DEF FlagsWaitIn
<1>4. PL[g] \in Structs /\ N[PL[g]] \in Names /\ N[PL[g]] # NewPlayer
  BY <1>3 DEF Named
<1>5. N[PL[g]] = N[PL[f]]
  BY <1>2, <1>3, <1>4, NameAssumption
<1> QED
  BY <1>3, <1>4, <1>5 DEF NotShared

\* p joins the queue: who is told what he is told gets the state that goes with it.
LEMMA LookForOpponentAgrees ==
    ASSUME TypeOK, NEW p \in Structs, NEW id, NEW PL \in [Slots -> Structs \cup {NoPlayer}],
           NEW F \in [Structs -> Slots \cup {-1}], NEW N \in [Structs -> Names], NEW V, NEW rval,
           NEW f \in Slots, PL[f] = p, \A g \in Slots : PL[g] # NoPlayer => F[PL[g]] = g,
           \A g \in (Fds \cap Slots) \ {f} :
              conn[g] = "up" => PL[g] # NoPlayer /\ Fits(V[g], ps[PL[g]]),
           look_for_opponent(p, id, PL, F, N, V, rval)
    PROVE  AgreesIn(view', PL, ps', conn')
<1> DEFINE key      == KeyStored(id, N[p])
           there(i) == lookup_player_by_name(key[i], PL, N)
           match    == Least({i \in Flagged(id) : there(i) # {}})
<1>1. p # NoPlayer /\ F[p] = f /\ PL[f] = p
  BY SlotsAreInts
<1>2. \A g \in Slots \ {f} : PL[g] # NoPlayer => PL[g] \in Structs \ {p}
  BY <1>1
\* Everybody but p and who is matched with him is left as he was.
<1>3. ASSUME NEW S \in SUBSET Fds, NEW v, view' = Told(V, S, v),
             conn' = conn \/ \E T : conn' = Lost(T),
             \A g \in Fds \cap Slots : conn[g] = "up" /\ PL[g] # NoPlayer =>
                \/ g \in S /\ Fits(v, ps'[PL[g]])
                \/ g # f /\ g \notin S /\ ps'[PL[g]] = ps[PL[g]]
      PROVE  AgreesIn(view', PL, ps', conn')
  <2> SUFFICES ASSUME NEW g \in Fds \cap Slots, conn'[g] = "up"
               PROVE  PL[g] # NoPlayer /\ Fits(view'[g], ps'[PL[g]])
    BY DEF AgreesIn
  <2>1. conn[g] = "up"
    BY <1>3, LostNotUp
  <2>2. PL[g] # NoPlayer
    BY <1>1, <2>1
  <2>3. /\ g \in S => Fits(v, ps'[PL[g]])
        /\ g \notin S => Fits(V[g], ps'[PL[g]])
    BY <1>3, <2>1, <2>2
  <2>4. Fits(Told(V, S, v)[g], ps'[PL[g]])
    BY <2>3 DEF Told, Fits
  <2> QED
    BY <1>3, <2>2, <2>4
<1> USE DEF TypeOK, StructType
<1>4. CASE /\ ps' = [ps EXCEPT ![p] = "QUEUE"] /\ view' = Told(V, {F[p]}, "queue")
           /\ conn' = conn \/ \E T : conn' = Lost(T)
  <2>1. Told(V, {F[p]}, "queue") = Told(V, {f} \cap Fds, "queue")
    BY <1>1 DEF Told
  <2>2. \A g \in Fds \cap Slots : conn[g] = "up" /\ PL[g] # NoPlayer =>
           \/ g \in {f} \cap Fds /\ Fits("queue", ps'[PL[g]])
           \/ g # f /\ g \notin {f} \cap Fds /\ ps'[PL[g]] = ps[PL[g]]
    BY <1>1, <1>2, <1>4 DEF Fits
  <2> QED
    BY <1>3, <1>4, <2>1, <2>2
<1>5. CASE /\ ps' = [ps EXCEPT ![p] = "QUEUE"] /\ view' = Told(V, {F[p]}, "play")
           /\ \E T : conn' = Lost(T)
  <2>1. Told(V, {F[p]}, "play") = Told(V, {f} \cap Fds, "play")
    BY <1>1 DEF Told
  <2>2. \A g \in Fds \cap Slots : conn[g] = "up" /\ PL[g] # NoPlayer =>
           \/ g \in {f} \cap Fds /\ Fits("play", ps'[PL[g]])
           \/ g # f /\ g \notin {f} \cap Fds /\ ps'[PL[g]] = ps[PL[g]]
    BY <1>1, <1>2, <1>5 DEF Fits
  <2> QED
    BY <1>3, <1>5, <2>1, <2>2
<1>6. ASSUME NEW i \in match, NEW op \in there(i), view' = Told(V, {F[p], F[op]}, "play"),
             UNCHANGED conn, ps' = [ps EXCEPT ![p] = "PLAY", ![op] = "PLAY"]
      PROVE  AgreesIn(view', PL, ps', conn')
  <2>1. PICK h \in Slots : PL[h] = op /\ op \in Structs
    BY <1>6, LookupByName DEF lookup_player_by_name, Least
  <2>2. F[op] = h
    BY <2>1, SlotsAreInts
  <2>3. Told(V, {F[p], F[op]}, "play") = Told(V, {f, h} \cap Fds, "play")
    BY <1>1, <2>2 DEF Told
  <2>4. \A q \in Structs : ps'[q] = IF q \in {p, op} THEN "PLAY" ELSE ps[q]
    BY <1>6, <2>1
  <2>5. \A g \in Slots \ {f, h} : PL[g] # NoPlayer => PL[g] \in Structs \ {p, op}
    BY <1>2, <2>1, <2>2
  <2>6. \A g \in Fds \cap Slots : conn[g] = "up" /\ PL[g] # NoPlayer =>
           \/ g \in {f, h} \cap Fds /\ Fits("play", ps'[PL[g]])
           \/ g # f /\ g \notin {f, h} \cap Fds /\ ps'[PL[g]] = ps[PL[g]]
    BY <1>1, <2>1, <2>4, <2>5 DEF Fits
  <2> QED
    BY <1>3, <1>6, <2>3, <2>6
<1> QED
  BY <1>4, <1>5, <1>6 DEF look_for_opponent, game_create

LEMMA AddToQueueAgrees ==
    ASSUME TypeOK, QueueRoom, NEW p \in Structs, NEW PL \in [Slots -> Structs \cup {NoPlayer}],
           NEW F \in [Structs -> Slots \cup {-1}], NEW N \in [Structs -> Names], NEW V, NEW rval,
           NotShared(PL, N), Named(N, ps), FlagsWaitIn(queue, queue_key, PL, N, ps),
           NEW f \in Slots, PL[f] = p, \A g \in Slots : PL[g] # NoPlayer => F[PL[g]] = g,
           \A g \in (Fds \cap Slots) \ {f} :
              conn[g] = "up" => PL[g] # NoPlayer /\ Fits(V[g], ps[PL[g]]),
           add_to_queue(p, PL, F, N, V, rval)
    PROVE  AgreesIn(view', PL, ps', conn')
<1>1. p # NoPlayer /\ F[p] = f /\ PL[f] = p
  BY SlotsAreInts
<1>2. PICK id \in find_player_in_queue(N[p]) :
        \/ /\ Fails(F[p]) /\ conn' = Lost({F[p]}) /\ view' = V /\ UNCHANGED ps
        \/ /\ queue[id] /\ view' = Told(V, {F[p]}, "queue") /\ UNCHANGED <<ps, conn>>
        \/ look_for_opponent(p, id, PL, F, N, V, rval)
  BY DEF add_to_queue
<1>3. CASE /\ Fails(F[p]) /\ conn' = Lost({F[p]}) /\ view' = V /\ UNCHANGED ps
  <2> SUFFICES ASSUME NEW g \in Fds \cap Slots, conn'[g] = "up"
               PROVE  PL[g] # NoPlayer /\ Fits(view'[g], ps'[PL[g]])
    BY DEF AgreesIn
  <2>1. conn[g] = "up"
    BY <1>3, LostNotUp
  <2>2. g # f
    BY <1>1, <1>3, <2>1 DEF Fails
  <2> QED
    BY <1>3, <2>1, <2>2
<1>4. CASE /\ queue[id] /\ view' = Told(V, {F[p]}, "queue") /\ UNCHANGED <<ps, conn>>
  <2>1. id # -1
    BY <1>2 DEF QueueRoom
  <2>2. ps[p] = "QUEUE"
    BY <1>1, <1>2, <1>4, <2>1, FlagOwner
  <2> SUFFICES ASSUME NEW g \in Fds \cap Slots, conn'[g] = "up"
               PROVE  PL[g] # NoPlayer /\ Fits(view'[g], ps'[PL[g]])
    BY DEF AgreesIn
  <2>3. CASE g = f
    BY <1>1, <1>4, <2>2, <2>3 DEF Told, Fits
  <2>4. CASE g # f
    BY <1>1, <1>4, <2>4 DEF Told
  <2> QED
    BY <2>3, <2>4
<1>5. CASE look_for_opponent(p, id, PL, F, N, V, rval)
  BY <1>5, LookForOpponentAgrees
<1> QED
  BY <1>2, <1>3, <1>4, <1>5

\* The descriptors of the players of a game are those they are registered under.
LEMMA PlayerAtFd ==
    ASSUME KeptInv, NEW i \in GameSlots, NEW q \in Structs, Involves(games[i], q), fd[q] \in Fds
    PROVE  fd[q] \in Slots /\ players[fd[q]] = q
<1>1. fd[q] # -1
  BY BoundAssumption DEF Fds
<1> QED
  BY <1>1, KnownOnce DEF KeptInv, MatchInv, PlayersKept, Known

\* The game of p ends, and its players are told that they are in the lobby.
LEMMA EndedTold ==
    ASSUME KeptInv, NEW p \in Structs, NEW over \in SUBSET lookup_game(p), NEW f \in Fds \cap Slots,
           players[f] # NoPlayer
    PROVE  LET ended == UNION {PlayersOf(games[i]) : i \in over}
           IN  f \in FdsOf(ended) <=> players[f] \in ended
<1> USE DEF KeptInv, MatchInv, MatchOK, RegInv, TypeInv, TypeOK, RegOK
<1> DEFINE ended == UNION {PlayersOf(games[i]) : i \in over}
<1>1. players[f] \in Structs /\ fd[players[f]] = f
  BY DEF RegType, RegistryOK
<1>2. ASSUME NEW q \in ended, fd[q] = f PROVE players[f] = q
  <2>1. PICK i \in over : q \in PlayersOf(games[i])
    OBVIOUS
  <2>2. i \in GameSlots /\ Involves(games[i], q) /\ games[i] # NoGame
    BY <2>1, LeastIsSubset DEF lookup_game, PlayersOf, Involves
  <2>3. q \in Structs
    BY <2>1, <2>2 DEF GamesApart, PlayersOf
  <2> QED
    BY <1>2, <2>2, <2>3, PlayerAtFd
<1> HIDE DEF ended
<1>3. f \in FdsOf(ended) <=> players[f] \in ended
  BY <1>1, <1>2 DEF FdsOf
<1> QED
  BY <1>3 DEF ended

\* Nobody who is there is told anything or changes state.
LEMMA QuietAgrees ==
    ASSUME AgreesIn(view, players, ps, conn),
           \A f \in Fds \cap Slots : conn'[f] = "up" =>
              /\ conn[f] = "up" /\ players'[f] = players[f]
              /\ view'[f] = view[f] /\ ps'[players[f]] = ps[players[f]]
    PROVE  AgreesIn(view', players', ps', conn')
BY DEF AgreesIn

LEMMA LeaveQueueAgrees ==
    ASSUME RegInv, AgreesIn(view, players, ps, conn), NEW f \in Fds \cap Slots,
           NEW p \in Structs, players[f] = p, fd[p] = f, p_leave_queue(p)
    PROVE  AgreesIn(view', players, ps', conn')
<1> USE DEF RegInv, TypeInv, TypeOK, StructType
<1>1. \A g \in (Fds \cap Slots) \ {f} : players[g] # p
  BY SlotsAreInts DEF RegOK, RegistryOK
<1>2. CASE view' = Told(view, {f}, "lobby") /\ ps' = [ps EXCEPT ![p] = "LOGGED_IN"] /\ UNCHANGED conn
  BY <1>1, <1>2 DEF AgreesIn, Told, Fits
<1>3. CASE UNCHANGED <<ps, view>> /\ (UNCHANGED conn \/ conn' = Lost({f}))
  BY <1>3, LostNotUp DEF AgreesIn
<1> QED
  BY <1>2, <1>3 DEF p_leave_queue

LEMMA PlayAgrees ==
    ASSUME KeptInv, AgreesIn(view, players, ps, conn), NEW p \in Structs, NEW k, play_packet(p, k)
    PROVE  AgreesIn(view', players, ps', conn')
<1>1. CASE UNCHANGED <<ps, view, conn>>
  BY <1>1 DEF AgreesIn
<1>2. ASSUME NEW i \in lookup_game(p), finish_game(i)
      PROVE  AgreesIn(view', players, ps', conn')
  <2> DEFINE ended == PlayersOf(games[i])
  <2>1. /\ \A q \in Structs : ps'[q] = IF q \in ended THEN "LOGGED_IN" ELSE ps[q]
        /\ view' = Told(view, FdsOf(ended), "lobby") /\ UNCHANGED conn
    BY <1>2 DEF finish_game, LoggedIn
  <2>2. ASSUME NEW f \in Fds \cap Slots, players[f] # NoPlayer
        PROVE  f \in FdsOf(ended) <=> players[f] \in ended
    <3>1. UNION {PlayersOf(games[j]) : j \in {i}} = ended
      OBVIOUS
    <3>2. {i} \in SUBSET lookup_game(p)
      OBVIOUS
    <3> HIDE DEF ended
    <3> QED
      BY <2>2, <3>1, <3>2, EndedTold
  <2>3. players \in [Slots -> Structs \cup {NoPlayer}]
    BY DEF KeptInv, MatchInv, RegInv, TypeInv, TypeOK, RegType
  <2> HIDE DEF ended
  <2> QED
    BY <2>1, <2>2, <2>3 DEF AgreesIn, Told, Fits
<1> QED
  BY <1>1, <1>2 DEF play_packet

LEMMA DisconnectAgrees ==
    ASSUME KeptInv, AgreesIn(view, players, ps, conn), NEW p \in Structs, NEW final, NEW socks,
           NEW inv, disconnect(p, final, socks, inv)
    PROVE  AgreesIn(view', players', ps', conn')
<1> USE DEF KeptInv, MatchInv, MatchOK, RegInv, TypeInv, TypeOK, RegOK
<1> DEFINE over  == IF final THEN lookup_game(p) ELSE {}
           ended == UNION {PlayersOf(games[i]) : i \in over}
           G     == [i \in GameSlots |-> IF i \in over THEN NoGame ELSE games[i]]
           told  == Told(view, FdsOf(ended), "lobby")
<1>0. over \in SUBSET lookup_game(p)
  OBVIOUS
<1>1. \/ /\ fd[p] < 0 /\ ps' = LoggedIn(ended) /\ view' = told
         /\ UNCHANGED <<players, conn>>
      \/ /\ fd[p] >= 0 /\ RemovedFromQueue(p, LoggedIn(ended))
         /\ players' = [players EXCEPT ![fd[p]] = NoPlayer]
         /\ conn' = [conn EXCEPT ![fd[p]] = "closed"]
         /\ view' = [Told(told, Informed(p, G), "play_alone") EXCEPT ![fd[p]] = "none"]
  BY DEF disconnect, pman_handle_dc, regVars
<1>2. \A j \in GameSlots : G[j] = IF j \in over THEN NoGame ELSE games[j]
  OBVIOUS
<1> HIDE DEF over, G
<1>3. \A q \in Structs : q \in ended =>
         ps[q] = "PLAY" /\ \A j \in GameSlots : Involves(games[j], q) => j \in over
  BY <1>0, EndedGame
<1>4. \A f \in Fds \cap Slots : players[f] # NoPlayer => (f \in FdsOf(ended) <=> players[f] \in ended)
  BY <1>0, EndedTold
<1>5. \A q \in Structs \ {p} : ps'[q] = IF q \in ended THEN "LOGGED_IN" ELSE ps[q]
  <2> HIDE DEF ended
  <2>1. \A q \in Structs : LoggedIn(ended)[q] = IF q \in ended THEN "LOGGED_IN" ELSE ps[q]
    BY DEF LoggedIn
  <2>2. \/ ps' = LoggedIn(ended)
        \/ ps' = [LoggedIn(ended) EXCEPT ![p] = "LOGGED_IN"]
    BY <1>1 DEF RemovedFromQueue
  <2>3. \A q \in Structs \ {p} : ps'[q] = LoggedIn(ended)[q]
    BY <2>2 DEF LoggedIn
  <2> QED
    BY <2>1, <2>3
<1> HIDE DEF ended
<1> SUFFICES ASSUME NEW g \in Fds \cap Slots, conn'[g] = "up"
             PROVE  players'[g] # NoPlayer /\ Fits(view'[g], ps'[players'[g]])
  BY DEF AgreesIn
<1>6. conn[g] = "up" /\ players[g] # NoPlayer /\ fd[p] # g
  <2>1. conn[g] = "up" /\ (fd[p] >= 0 => fd[p] # g)
    BY <1>1, HasFdOrNot DEF SockType
  <2>2. g >= 0 /\ players[g] # NoPlayer
    BY <2>1, SlotsAreInts DEF SocketsOK
  <2> QED
    BY <2>1, <2>2
<1>7. players'[g] = players[g]
  BY <1>1, <1>6 DEF RegType
<1>8. PICK q \in Structs \ {p} : q = players[g] /\ fd[q] = g
  BY <1>6 DEF RegType, RegistryOK
<1>9. Fits(told[g], ps'[q])
  <2>1. Fits(view[g], ps[q])
    BY <1>6, <1>8 DEF AgreesIn
  <2> QED
    BY <1>4, <1>5, <1>6, <1>8, <2>1 DEF Told, Fits
<1>10. ASSUME g \in Informed(p, G) PROVE ps'[q] = "PLAY"
  <2>1. PICK j \in GameSlots :
           G[j] # NoGame /\ Involves(G[j], p) /\ fd[Opponent(G[j], p)] = g
    BY <1>10 DEF Informed, FdsOf
  <2>2. j \notin over /\ G[j] = games[j]
    BY <1>2, <2>1
  <2> DEFINE r == Opponent(games[j], p)
  <2>3. Involves(games[j], r) /\ fd[r] = g /\ r \in Structs
    BY <2>1, <2>2 DEF Opponent, Involves, GamesApart
  <2>4. r = q
    BY <1>8, <2>3, PlayerAtFd
  <2>5. ps[q] = "PLAY" /\ q \notin ended
    BY <1>3, <2>2, <2>3, <2>4, PlayersPlay
  <2> QED
    BY <1>5, <2>5
<1>11. CASE fd[p] < 0
  BY <1>1, <1>6, <1>7, <1>8, <1>9, <1>11, HasFdOrNot
<1>12. CASE fd[p] >= 0
  <2>1. view'[g] = Told(told, Informed(p, G), "play_alone")[g]
    <3>1. view' = [Told(told, Informed(p, G), "play_alone") EXCEPT ![fd[p]] = "none"]
      BY <1>1, <1>12, HasFdOrNot
    <3> QED
      BY <1>6, <3>1 DEF Told
  <2> HIDE DEF told
  <2>2. Fits(Told(told, Informed(p, G), "play_alone")[g], ps'[q])
    BY <1>9, <1>10 DEF Told, Fits
  <2> QED
    BY <1>6, <1>7, <1>8, <2>1, <2>2
<1> QED
  BY <1>11, <1>12, HasFdOrNot

LEMMA HelloAgrees ==
    ASSUME KeptInv, QueueRoom, AgreesIn(view, players, ps, conn), NEW f \in Fds \cap Slots,
           NEW p \in Structs, players[f] = p, fd[p] = f, conn[f] \in {"up", "eof"},
           ps[p] = "JUST_CONNECTED", NEW n \in Names \cup LongNames, p_hello(p, n)
    PROVE  AgreesIn(view', players', ps', conn')
<1> USE DEF KeptInv, MatchInv, RegInv, TypeInv, TypeOK
<1>1. CASE UNCHANGED <<ps, view, players>> /\ (UNCHANGED conn \/ conn' = Lost({f}))
  BY <1>1, LostNotUp DEF AgreesIn
<1>2. CASE first_login(p, n)
  <2>1. \A g \in (Fds \cap Slots) \ {f} : players[g] # p
    BY SlotsAreInts DEF RegOK, RegistryOK
  <2>2. /\ view' = Told(view, {f}, "lobby") /\ ps' = [ps EXCEPT ![p] = "LOGGED_IN"]
        /\ UNCHANGED <<players, conn>>
    BY <1>2 DEF first_login, regVars
  <2> QED
    BY <2>1, <2>2 DEF AgreesIn, Told, Fits, StructType
<1>3. ASSUME n \in Names, lookup_player_by_name(n, players, name) = {},
             name' = [name EXCEPT ![p] = n],
             NEW i \in lookup_dc_player(n), login_again(p, n, i)
      PROVE  AgreesIn(view', players', ps', conn')
  <2> DEFINE e  == dc_players[i]
             F  == [fd EXCEPT ![e] = f]
             PL == [players EXCEPT ![f] = e]
             N  == [name EXCEPT ![p] = n]
             V  == Told(view, {f}, "lobby")
  <2>1. /\ e \in Structs \ {p} /\ fd[e] = -1 /\ players' = PL
        /\ PL \in [Slots -> Structs \cup {NoPlayer}]
        /\ F \in [Structs -> Slots \cup {-1}] /\ N \in [Structs -> Names]
        /\ NotShared(PL, N) /\ Named(N, ps) /\ FlagsWaitIn(queue, queue_key, PL, N, ps)
        /\ PL[f] = e /\ \A g \in Slots \ {f} : PL[g] = players[g] /\ players[g] \notin {e, p}
        /\ \A g \in Slots : PL[g] # NoPlayer => F[PL[g]] = g
    <3>1. e = dc_players[i] /\ F = fd' /\ PL = players' /\ N = name'
      BY <1>3 DEF login_again
    <3>2. MatchInv
      OBVIOUS
    <3> HIDE DEF KeptInv, MatchInv, RegInv, TypeInv, TypeOK, e, F, PL, N, V
    <3>3. /\ MatchInv /\ f \in Fds \cap Slots /\ p \in Structs /\ players[f] = p /\ fd[p] = f
          /\ conn[f] \in {"up", "eof"} /\ ps[p] = "JUST_CONNECTED" /\ n \in Names /\ p_hello(p, n)
          /\ lookup_player_by_name(n, players, name) = {}
          /\ i \in lookup_dc_player(n) /\ login_again(p, n, i)
      BY <1>3, <3>2
    <3>4. /\ players'[f] = dc_players[i] /\ players'[f] \in Structs \ {p}
          /\ fd[players'[f]] = -1
          /\ players' \in [Slots -> Structs \cup {NoPlayer}]
          /\ fd' \in [Structs -> Slots \cup {-1}] /\ name' \in [Structs -> Names]
          /\ NotShared(players', name') /\ Named(name', ps)
          /\ FlagsWaitIn(queue, queue_key, players', name', ps)
          /\ \A g \in Slots \ {f} :
                players'[g] = players[g] /\ players[g] \notin {players'[f], p}
          /\ \A g \in Slots : players'[g] # NoPlayer => fd'[players'[g]] = g
      BY <3>3, Returning
    <3> QED
      BY <3>1, <3>4
  <2>2. \A q \in Structs \ {e} : F[q] = fd[q]
    BY DEF StructType
  <2>3. \/ \E g \in UnfinishedGame(e) :
              /\ view' = Told(V, ToldOfReturn(g, e, F), "play") \/ view' = Told(V, {f}, "play")
              /\ UNCHANGED <<ps, conn>>
        \/ add_to_queue(e, PL, F, N, V, "ok")
        \/ ps' = [ps EXCEPT ![e] = "LOGGED_IN"] /\ view' = V /\ UNCHANGED conn
    BY <1>3 DEF login_again
  <2>4. \A g \in (Fds \cap Slots) \ {f} :
           conn[g] = "up" => PL[g] # NoPlayer /\ Fits(V[g], ps[PL[g]])
    BY <2>1 DEF AgreesIn, Told
  <2>5. Fits(V[f], "LOGGED_IN")
    BY DEF Told, Fits
  <2> HIDE DEF e, F, N, V, PL
  <2>6. CASE add_to_queue(e, PL, F, N, V, "ok")
    BY <2>1, <2>4, <2>6, AddToQueueAgrees
  <2>7. CASE ps' = [ps EXCEPT ![e] = "LOGGED_IN"] /\ view' = V /\ UNCHANGED conn
    <3>1. ps'[e] = "LOGGED_IN" /\ \A q \in Structs \ {e} : ps'[q] = ps[q]
      BY <2>1, <2>7 DEF StructType
    <3>2. \A g \in (Fds \cap Slots) \ {f} : PL[g] # NoPlayer => PL[g] \in Structs \ {e}
      BY <2>1
    <3> QED
      BY <2>1, <2>4, <2>5, <2>7, <3>1, <3>2, SlotsAreInts DEF AgreesIn
  <2>8. ASSUME NEW g \in UnfinishedGame(e), NEW S \in {ToldOfReturn(g, e, F), {f}},
               view' = Told(V, S, "play"), UNCHANGED <<ps, conn>>
        PROVE  AgreesIn(view', players', ps', conn')
    <3>1. g \in GameSlots /\ Involves(games[g], e)
      BY DEF UnfinishedGame, lookup_game, Least
    <3>2. ps[e] = "PLAY" /\ games[g] # NoGame
      BY <2>1, <3>1, PlayersPlay DEF MatchOK
    <3>3. ASSUME NEW h \in S \cap Fds, h # f
          PROVE  ps[PL[h]] = "PLAY"
      <4>1. PICK q \in PlayersOf(games[g]) : F[q] = h
        BY <3>3 DEF ToldOfReturn
      <4>2. q \in Structs /\ Involves(games[g], q)
        BY <3>1, <3>2, <4>1 DEF PlayersOf, Involves, MatchOK, GamesApart
      <4>3. q # e
        BY <2>1, <3>3, <4>1, SlotsAreInts
      <4>4. fd[q] = h
        BY <2>2, <4>1, <4>2, <4>3
      <4>5. h \in Slots /\ players[h] = q
        BY <3>1, <4>2, <4>4, PlayerAtFd
      <4> QED
        BY <2>1, <3>1, <3>3, <4>2, <4>5, PlayersPlay DEF MatchOK
    <3> SUFFICES ASSUME NEW h \in Fds \cap Slots, conn'[h] = "up"
                 PROVE  players'[h] # NoPlayer /\ Fits(view'[h], ps'[players'[h]])
      BY DEF AgreesIn
    <3>4. CASE h \in S
      <4>1. ps'[PL[h]] = "PLAY" /\ PL[h] # NoPlayer
        BY <2>1, <2>4, <2>8, <3>2, <3>3, <3>4, SlotsAreInts
      <4> QED
        BY <2>1, <2>8, <3>4, <4>1 DEF Told, Fits
    <3>5. CASE h \notin S
      <4>1. f \in S
        <5>1. F[e] = f /\ e \in PlayersOf(games[g])
          BY <2>1, <3>1, SlotsAreInts DEF PlayersOf, Involves
        <5> QED
          BY <5>1 DEF ToldOfReturn
      <4> QED
        BY <2>1, <2>4, <2>8, <3>5, <4>1 DEF Told
    <3> QED
      BY <3>4, <3>5
  <2> QED
    BY <2>3, <2>6, <2>7, <2>8
<1> QED
  BY <1>1, <1>2, <1>3 DEF p_hello, regVars

LEMMA HandlePacketAgrees ==
    ASSUME KeptInv, QueueRoom, Agreement, NEW f \in Fds \cap Slots, NEW p \in Structs,
           players[f] = p, fd[p] = f, conn[f] \in {"up", "eof"}, HandlePacket(p)
    PROVE  Agreement'
<1>1. RegInv /\ TypeOK /\ ps[p] \in PlayerStates /\ ~(fd[p] < 0)
  BY SlotsAreInts DEF KeptInv, MatchInv, RegInv, TypeInv, TypeOK, StructType
<1>2. CASE UNCHANGED <<ps, players, conn, view>>
  BY <1>2 DEF Agreement, AgreesIn
<1>3. CASE UNCHANGED <<structVars, regVars, sockVars>>
  BY <1>2, <1>3 DEF structVars, regVars, sockVars
<1>4. ASSUME NEW k \in packet_handlers(ps[p]),
             \/ k = "HELLO" /\ \E n \in Names \cup LongNames : p_hello(p, n)
             \/ k = "QUEUE" /\ p_queue(p)
             \/ k = "LEAVE_QUEUE" /\ p_leave_queue(p)
             \/ k \in PlayPackets /\ play_packet(p, k)
             \/ k = "KEEP_ALIVE" /\ p_keepalive(p)
      PROVE  Agreement'
  <2>1. CASE p_keepalive(p)
    BY <1>2, <2>1 DEF p_keepalive, keepSession, regVars
  <2>2. ASSUME NEW n \in Names \cup LongNames, ps[p] = "JUST_CONNECTED", p_hello(p, n)
        PROVE  Agreement'
    BY <2>2, HelloAgrees DEF Agreement
  <2>3. CASE p_queue(p)
    <3>1. UNCHANGED players /\ add_to_queue(p, players, fd, name, view, "invalid")
      BY <2>3 DEF p_queue, keepSession, regVars
    <3>2. /\ players \in [Slots -> Structs \cup {NoPlayer}]
          /\ fd \in [Structs -> Slots \cup {-1}] /\ name \in [Structs -> Names]
          /\ NotShared(players, name) /\ Named(name, ps)
          /\ FlagsWaitIn(queue, queue_key, players, name, ps)
          /\ \A g \in Slots : players[g] # NoPlayer => fd[players[g]] = g
      BY <1>1 DEF TypeOK, StructType, RegType, RegInv, RegOK, NamesUnique, NotShared, KeptInv,
                  MatchInv, MatchOK, NamedOnceLoggedIn, FlagsWait, RegistryOK
    <3>3. \A g \in (Fds \cap Slots) \ {f} :
             conn[g] = "up" => players[g] # NoPlayer /\ Fits(view[g], ps[players[g]])
      BY DEF Agreement, AgreesIn
    <3> QED
      BY <1>1, <3>1, <3>2, <3>3, AddToQueueAgrees DEF Agreement
  <2>4. CASE p_leave_queue(p)
    <3>1. UNCHANGED players
      BY <2>4 DEF p_leave_queue, keepSession, regVars
    <3> QED
      BY <1>1, <2>4, <3>1, LeaveQueueAgrees DEF Agreement
  <2>5. ASSUME play_packet(p, k) PROVE Agreement'
    <3>1. UNCHANGED players
      BY <2>5 DEF play_packet, keepSession, regVars
    <3> QED
      BY <2>5, <3>1, PlayAgrees DEF Agreement
  <2> QED
    BY <1>1, <1>4, <2>1, <2>2, <2>3, <2>4, <2>5, HandlersByState
<1> QED
  BY <1>1, <1>3, <1>4 DEF HandlePacket

\* The state of a new client is that of a struct not allocated before.
LEMMA NewClientAgrees ==
    ASSUME KeptInv, Agreement, handle_new_client
    PROVE  Agreement'
<1> USE DEF KeptInv, MatchInv, MatchOK, RegInv, TypeInv, TypeOK, RegOK
<1>1. PICK f \in Fds :
        /\ conn[f] = "closed" /\ conn' = [conn EXCEPT ![f] = "up"]
        /\ view' = [view EXCEPT ![f] = "connected"]
        /\ f \in Slots => \/ players[f] # NoPlayer
                          \/ /\ allocated < MaxStructs
                             /\ players' = [players EXCEPT ![f] = allocated + 1]
        /\ f \notin Slots => UNCHANGED players
  BY DEF handle_new_client, Least
<1>2. f \in Slots => players[f] = NoPlayer
  BY <1>1 DEF SocketsOK
<1>3. UNCHANGED ps
  BY DEF handle_new_client
<1>4. \A g \in (Fds \cap Slots) \ {f} :
         conn'[g] = conn[g] /\ view'[g] = view[g] /\ players'[g] = players[g]
  BY <1>1, <1>2 DEF SockType, RegType
<1>5. ASSUME f \in Slots
      PROVE  players'[f] # NoPlayer /\ ps[players'[f]] = "JUST_CONNECTED" /\ view'[f] = "connected"
  <2>1. allocated + 1 \in Structs /\ allocated + 1 > allocated
    BY <1>1, <1>2, <1>5, BoundAssumption DEF StructType, Structs
  <2>2. players'[f] = allocated + 1
    BY <1>1, <1>2, <1>5 DEF RegType
  <2>3. name[allocated + 1] = NewPlayer
    BY <2>1 DEF RegistryAllocated
  <2>4. ps[allocated + 1] = "JUST_CONNECTED"
    BY <2>1, <2>3 DEF NamedOnceLoggedIn, Named
  <2>5. view'[f] = "connected" /\ allocated + 1 # 0
    BY <1>1, <2>1, SlotsAreInts DEF SockType
  <2> QED
    BY <2>2, <2>4, <2>5
<1> QED
  BY <1>3, <1>4, <1>5 DEF Agreement, AgreesIn, Fits

LEMMA StepAgrees ==
    ASSUME Regular, KeptInv, QueueRoom, Agreement, [Next]_vars
    PROVE  Agreement'
<1>0. RegInv /\ TypeOK
  BY DEF KeptInv, MatchInv, RegInv, TypeInv
<1>1. ASSUME NEW p \in Structs, NEW final, NEW socks, NEW inv, disconnect(p, final, socks, inv)
      PROVE  Agreement'
  BY <1>1, DisconnectAgrees DEF Agreement
<1>2. CASE UNCHANGED <<ps, players, conn, view>>
  BY <1>2 DEF Agreement, AgreesIn
<1>3. CASE UNCHANGED <<structVars, regVars, sockVars>>
  BY <1>2, <1>3 DEF structVars, regVars, sockVars
<1>4. ASSUME NEW f \in Fds, read_packet(f) PROVE Agreement'
  <2>1. PICK p \in Owner(f) : HandlePacket(p)
    BY <1>4 DEF read_packet
  <2>2. f \in client_socks /\ conn[f] \in {"up", "eof"}
    BY <1>4 DEF read_packet
  <2>3. p \in Structs /\ f \in Slots /\ players[f] = p /\ fd[p] = f
    BY <1>0, <2>2, OwnerServed
  <2> QED
    BY <2>1, <2>2, <2>3, HandlePacketAgrees
<1>5. ASSUME NEW f \in Fds, read_eof(f) PROVE Agreement'
  BY <1>0, <1>1, <1>5, OwnerRegistered DEF read_eof
<1>6. ASSUME invalid_data PROVE Agreement'
  <2>1. player \in Structs
    BY <1>0, <1>6 DEF invalid_data, RegInv, TypeInv, ServingSomeone
  <2>2. CASE UNCHANGED <<ps, regVars, sockVars>>
    BY <1>2, <2>2 DEF regVars, sockVars
  <2> QED
    BY <1>1, <1>6, <2>1, <2>2 DEF invalid_data
<1>7. ASSUME NEW t \in Threads, keepalive(t) PROVE Agreement'
  <2>1. thread[t].pc = "loop" => \A p \in Watched(t) : p \in Structs
    BY <1>0, WatchedUnreplaced
  <2>2. CASE UNCHANGED <<ps, regVars, sockVars>>
    BY <1>2, <2>2 DEF regVars, sockVars
  <2> QED
    BY <1>1, <1>7, <2>1, <2>2 DEF keepalive, keepalive_start, keepalive_loop, structVars
<1>8. ASSUME NEW f \in Fds, peer_closes(f) PROVE Agreement'
  <2>1. /\ UNCHANGED <<players, view, ps>>
        /\ \A g \in Fds : conn'[g] = "up" => conn[g] = "up"
    BY <1>0, <1>8 DEF peer_closes, structVars, regVars, TypeOK, SockType
  <2> QED
    BY <2>1, QuietAgrees DEF Agreement
<1>9. CASE tick
  BY <1>2, <1>9 DEF tick, regVars, sockVars
<1>10. ~read_next_packet /\ ~buffer_rest
  BY DEF KeptInv, MatchInv, ServedStays, read_next_packet, buffer_rest
<1> QED
  BY <1>3, <1>4, <1>5, <1>6, <1>7, <1>8, <1>9, <1>10, NewClientAgrees DEF Next, main, vars

\* What a client that is still there was last told is the state the server holds for it, after
\* every packet, disconnection, return and time-out, as long as the tables have room.
THEOREM ClientAgreesCorrect ==
    ASSUME Regular
    PROVE  Spec /\ []QueueRoom /\ []StoreRoom => []ClientAgrees
<1>1. Agreement => ClientAgrees
  BY DEF Agreement, AgreesIn, Fits, ClientAgrees
<1>2. KeptInv /\ Agreement /\ QueueRoom /\ StoreRoom /\ [Next]_vars => KeptInv' /\ Agreement'
  <2>1. Regular
    OBVIOUS
  <2> QED
    BY <2>1, StepKept, StepAgrees
<1>3. Init => KeptInv /\ Agreement
  BY InitKept DEF Init, Agreement, AgreesIn
<1> QED
  BY <1>1, <1>2, <1>3, PTL DEF Spec

---------------------------------------------------------------------------
\* The player who is left alone, in every slot of the table.

FdsOnly == \A q \in Structs : fd[q] \in Fds \cup {-1}

Alone ==
    \A f \in Fds \cap Slots, i \in GameSlots :
       /\ conn[f] = "up" /\ view[f] = "play_alone" /\ Involves(games[i], players[f])
       => fd[Opponent(games[i], players[f])] \notin {h \in Fds : conn[h] = "up"}

LEMMA StepFdsOnly ==
    ASSUME RegInv, FdsOnly, [Next]_vars
    PROVE  FdsOnly'
<1> USE DEF RegInv, TypeInv, TypeOK, StructType
<1>1. CASE UNCHANGED fd
  BY <1>1 DEF FdsOnly
<1>2. ASSUME NEW p \in Structs, HandlePacket(p) PROVE FdsOnly'
  <2>1. ASSUME NEW n, p_hello(p, n) PROVE FdsOnly'
    <3>1. ASSUME NEW i, login_again(p, n, i) PROVE FdsOnly'
      <4>1. fd' = [fd EXCEPT ![dc_players[i]] = fd[p]]
        BY <3>1 DEF login_again
      <4> QED
        BY <4>1 DEF FdsOnly
    <3> QED
      BY <1>1, <2>1, <3>1 DEF p_hello, first_login
  <2> QED
    BY <1>1, <1>2, <2>1, HelloOrSame
<1>3. ASSUME NEW p \in Structs, NEW final, NEW socks, NEW inv, disconnect(p, final, socks, inv)
      PROVE  FdsOnly'
  BY <1>3, DisconnectRemoves DEF FdsOnly
<1>4. CASE handle_new_client
  <2>1. UNCHANGED fd \/ \E f \in Fds : fd' = [fd EXCEPT ![allocated + 1] = f]
    BY <1>4 DEF handle_new_client, Least
  <2> QED
    BY <2>1 DEF FdsOnly
<1>5. ASSUME NEW f \in Fds, read_packet(f) \/ read_eof(f) PROVE FdsOnly'
  BY <1>2, <1>3, <1>5, OwnerRegistered DEF read_packet, read_eof
<1>6. ASSUME read_next_packet PROVE FdsOnly'
  BY <1>2, <1>6 DEF read_next_packet, ServingSomeone
<1>7. ASSUME invalid_data PROVE FdsOnly'
  BY <1>1, <1>3, <1>7 DEF invalid_data, ServingSomeone
<1>8. ASSUME NEW t \in Threads, keepalive(t) PROVE FdsOnly'
  <2>1. thread[t].pc = "loop" => \A p \in Watched(t) : p \in Structs
    BY WatchedUnreplaced
  <2> QED
    BY <1>1, <1>3, <1>8, <2>1 DEF keepalive, keepalive_start, keepalive_loop, structVars
<1>9. CASE UNCHANGED structVars
  BY <1>1, <1>9 DEF structVars
<1>10. CASE tick
  BY <1>1, <1>10 DEF tick
<1> QED
  BY <1>4, <1>5, <1>6, <1>7, <1>8, <1>9, <1>10 DEF Next, main, buffer_rest, peer_closes, vars

\* Who was alone stays alone, unless his opponent gets a connection.
LEMMA StaysAlone ==
    ASSUME Alone,
           \A f \in Fds \cap Slots : conn'[f] = "up" /\ view'[f] = "play_alone" =>
              /\ conn[f] = "up" /\ view[f] = "play_alone" /\ players'[f] = players[f]
              /\ \A i \in GameSlots : Involves(games'[i], players[f]) =>
                    /\ games'[i] = games[i]
                    /\ LET q == Opponent(games[i], players[f])
                       IN  fd'[q] \in Fds /\ conn'[fd'[q]] = "up" =>
                              fd'[q] = fd[q] /\ conn[fd[q]] = "up"
    PROVE  Alone'
<1> SUFFICES ASSUME NEW f \in Fds \cap Slots, NEW i \in GameSlots,
                    conn'[f] = "up", view'[f] = "play_alone", Involves(games'[i], players'[f])
             PROVE  fd'[Opponent(games'[i], players'[f])] \notin {h \in Fds : conn'[h] = "up"}
  BY DEF Alone
<1>1. /\ conn[f] = "up" /\ view[f] = "play_alone" /\ players'[f] = players[f]
      /\ games'[i] = games[i]
  OBVIOUS
<1> DEFINE q == Opponent(games[i], players[f])
<1>2. fd[q] \notin {h \in Fds : conn[h] = "up"}
  BY <1>1 DEF Alone
<1>3. fd'[q] \in Fds /\ conn'[fd'[q]] = "up" => fd'[q] = fd[q] /\ conn[fd[q]] = "up"
  BY <1>1
<1> HIDE DEF q
<1>4. fd'[q] \notin {h \in Fds : conn'[h] = "up"}
  BY <1>2, <1>3
<1> QED
  BY <1>1, <1>4 DEF q

LEMMA ToldNotAlone ==
    ASSUME NEW V, NEW F, NEW v, v # "play_alone", NEW f \in Fds,
           Told(V, F, v)[f] = "play_alone"
    PROVE  V[f] = "play_alone" /\ (f \in F => V[f] = "none")
BY DEF Told

\* add_to_queue leaves who plays alone alone.
LEMMA AddToQueueAlone ==
    ASSUME NEW p, NEW PL, NEW F, NEW N, NEW V, NEW rval, add_to_queue(p, PL, F, N, V, rval),
           NEW f \in Fds, conn'[f] = "up", view'[f] = "play_alone"
    PROVE  conn[f] = "up" /\ V[f] = "play_alone"
<1>1. view' = V \/ \E S : \E v \in {"queue", "play"} : view' = Told(V, S, v)
  BY DEF add_to_queue, look_for_opponent
<1>2. UNCHANGED conn \/ \E S : conn' = Lost(S)
  BY AddToQueueConn
<1> QED
  BY <1>1, <1>2, ToldNotAlone, LostNotUp

LEMMA PairedAlone ==
    ASSUME TypeOK, NEW p \in Structs, NEW PL, QueuedOrPaired(p, PL), ps[p] # "PLAY",
           NEW q \in Structs, ps[q] = "PLAY", NEW i \in GameSlots, Involves(games'[i], q)
    PROVE  games'[i] = games[i]
BY DEF QueuedOrPaired, Involves, TypeOK, GameType

\* Nobody moves, no connection opens, and no player of a game gets another one.
LEMMA QuietAlone ==
    ASSUME RegInv, Agreement, Alone, UNCHANGED <<players, fd>>,
           \A h \in Fds : conn'[h] = "up" =>
              conn[h] = "up" /\ (view'[h] = "play_alone" => view[h] = "play_alone"),
           \A i \in GameSlots, q \in Structs :
              ps[q] = "PLAY" /\ Involves(games'[i], q) => games'[i] = games[i]
    PROVE  Alone'
<1> SUFFICES ASSUME NEW f \in Fds \cap Slots, conn'[f] = "up", view'[f] = "play_alone",
                    NEW i \in GameSlots, Involves(games'[i], players[f])
             PROVE  /\ conn[f] = "up" /\ view[f] = "play_alone" /\ games'[i] = games[i]
                    /\ LET q == Opponent(games[i], players[f])
                       IN  fd'[q] \in Fds /\ conn'[fd'[q]] = "up" =>
                              fd'[q] = fd[q] /\ conn[fd[q]] = "up"
  <2>1. \A f \in Fds \cap Slots : conn'[f] = "up" /\ view'[f] = "play_alone" =>
              conn[f] = "up" /\ view[f] = "play_alone"
    OBVIOUS
  <2> QED
    BY <2>1, StaysAlone
<1>1. conn[f] = "up" /\ view[f] = "play_alone"
  OBVIOUS
<1>2. players[f] \in Structs /\ ps[players[f]] = "PLAY"
  BY <1>1 DEF Agreement, AgreesIn, Fits, RegInv, TypeInv, TypeOK, RegType
<1> QED
  BY <1>1, <1>2

LEMMA QueueAlone ==
    ASSUME KeptInv, QueueRoom, Agreement, Alone, NEW f \in Fds \cap Slots, NEW p \in Structs,
           players[f] = p, ps[p] = "LOGGED_IN", p_queue(p)
    PROVE  Alone'
<1>1. RegInv /\ TypeOK
  BY DEF KeptInv, MatchInv, RegInv, TypeInv
<1>2. UNCHANGED <<players, fd>> /\ add_to_queue(p, players, fd, name, view, "invalid")
  BY DEF p_queue, keepSession, regVars
<1>3. /\ players \in [Slots -> Structs \cup {NoPlayer}] /\ name \in [Structs -> Names]
      /\ KeysDistinct /\ NoFlagOutside /\ NotShared(players, name) /\ Named(name, ps)
      /\ FlagsWaitIn(queue, queue_key, players, name, ps)
      /\ \E g \in Slots : players[g] = p
  BY <1>1 DEF TypeOK, StructType, RegType, RegInv, RegOK, NamesUnique, NotShared, KeptInv,
              MatchInv, MatchOK, NamedOnceLoggedIn, FlagsWait
<1>4. QueuedOrPaired(p, players)
  BY <1>1, <1>2, <1>3, AddToQueueEffect
<1>5. \A i \in GameSlots, q \in Structs :
         ps[q] = "PLAY" /\ Involves(games'[i], q) => games'[i] = games[i]
  BY <1>1, <1>4, PairedAlone
<1>6. \A h \in Fds : conn'[h] = "up" =>
         conn[h] = "up" /\ (view'[h] = "play_alone" => view[h] = "play_alone")
  BY <1>2, LostNotUp, AddToQueueAlone, AddToQueueConn
<1> QED
  BY <1>1, <1>2, <1>5, <1>6, QuietAlone

\* A handler other than that of HELLO or QUEUE.
LEMMA HandlerAlone ==
    ASSUME KeptInv, Agreement, Alone, NEW p,
           \/ p_leave_queue(p) \/ p_keepalive(p) \/ \E k : play_packet(p, k)
    PROVE  Alone'
<1>1. RegInv /\ UNCHANGED <<players, fd>>
  BY DEF KeptInv, MatchInv, p_leave_queue, p_keepalive, play_packet, keepSession, regVars
<1>2. \/ UNCHANGED games
      \/ \E i \in lookup_game(p) : games' = [games EXCEPT ![i] = NoGame]
  BY DEF p_leave_queue, p_keepalive, play_packet, gameVars, finish_game
<1>3. \A i \in GameSlots, q \in Structs : Involves(games'[i], q) => games'[i] = games[i]
  BY <1>1, <1>2, NotInNoGame DEF RegInv, TypeInv, TypeOK, GameType
<1>4. view' = view \/ \E S : view' = Told(view, S, "lobby")
  BY DEF p_leave_queue, p_keepalive, play_packet, finish_game
<1>5. UNCHANGED conn \/ \E S : conn' = Lost(S)
  BY DEF p_leave_queue, p_keepalive, play_packet, finish_game
<1>6. \A h \in Fds : conn'[h] = "up" =>
         conn[h] = "up" /\ (view'[h] = "play_alone" => view[h] = "play_alone")
  BY <1>4, <1>5, ToldNotAlone, LostNotUp
<1> QED
  BY <1>1, <1>3, <1>6, QuietAlone

\* Who is told to play alone is an opponent of the player who leaves.
LEMMA DisconnectAlone ==
    ASSUME KeptInv, Alone, NEW p \in Structs, NEW final, NEW socks, NEW inv,
           disconnect(p, final, socks, inv)
    PROVE  Alone'
<1> USE DEF KeptInv, MatchInv, MatchOK, RegInv, TypeInv, TypeOK, RegOK
<1> DEFINE over  == IF final THEN lookup_game(p) ELSE {}
           ended == UNION {PlayersOf(games[i]) : i \in over}
           G     == [i \in GameSlots |-> IF i \in over THEN NoGame ELSE games[i]]
           told  == Told(view, FdsOf(ended), "lobby")
<1>1. /\ games' = G
      /\ \/ /\ fd[p] < 0 /\ view' = told /\ UNCHANGED <<players, fd, conn>>
         \/ /\ fd[p] >= 0 /\ players' = [players EXCEPT ![fd[p]] = NoPlayer]
            /\ conn' = [conn EXCEPT ![fd[p]] = "closed"]
            /\ view' = [Told(told, Informed(p, G), "play_alone") EXCEPT ![fd[p]] = "none"]
  BY DEF disconnect, pman_handle_dc, regVars
<1>2. \A j \in GameSlots : games'[j] = games[j] \/ games'[j] = NoGame
  BY <1>1
<1>3. \A q \in Structs : fd'[q] \in {fd[q], -1}
  BY DisconnectRemoves
<1>4. \A h \in Fds : conn'[h] = "up" => conn[h] = "up" /\ (fd[p] >= 0 => h # fd[p])
  BY <1>1, HasFdOrNot DEF SockType
<1> SUFFICES ASSUME NEW f \in Fds \cap Slots, NEW i \in GameSlots, conn'[f] = "up",
                    view'[f] = "play_alone", Involves(games'[i], players'[f]),
                    fd'[Opponent(games'[i], players'[f])] \in Fds,
                    conn'[fd'[Opponent(games'[i], players'[f])]] = "up"
             PROVE  FALSE
  BY DEF Alone
<1>5. conn[f] = "up" /\ players'[f] = players[f] /\ players[f] \in Structs
      /\ players[f] # NoPlayer /\ fd[players[f]] = f
  <2>1. conn[f] = "up" /\ (fd[p] >= 0 => f # fd[p])
    BY <1>4
  <2>2. players[f] # NoPlayer /\ players[f] \in Structs
    BY <2>1 DEF SocketsOK, RegType
  <2>3. players'[f] = players[f]
    BY <1>1, <2>1 DEF RegType
  <2> QED
    BY <2>1, <2>2, <2>3 DEF RegistryOK
<1>6. games'[i] = games[i]
  BY <1>2, <1>5, NotInNoGame
<1> DEFINE q == Opponent(games[i], players[f])
<1>7. Involves(games[i], players[f]) /\ games[i] # NoGame
  BY <1>5, <1>6, NotInNoGame
<1>8. q \in Structs /\ Involves(games[i], q) /\ q # players[f]
  BY <1>5, <1>7 DEF GamesApart, Opponent, Involves
<1>9. fd'[q] \in Fds /\ conn'[fd'[q]] = "up"
  BY <1>5, <1>6
<1> HIDE DEF q
<1>10. fd[q] \in Fds /\ conn[fd[q]] = "up" /\ (fd[p] >= 0 => fd[q] # fd[p])
  <2>1. fd'[q] = fd[q]
    BY <1>3, <1>8, <1>9, BoundAssumption DEF Fds
  <2> QED
    BY <1>4, <1>9, <2>1
<1>11. view[f] # "play_alone"
  BY <1>5, <1>7, <1>10 DEF Alone, q
<1>12. told[f] # "play_alone"
  <2> HIDE DEF over, ended
  <2> QED
    BY <1>11, ToldNotAlone
<1>13. fd[p] >= 0 /\ f \in Informed(p, G)
  <2> HIDE DEF told, G
  <2>1. fd[p] >= 0
    BY <1>1, <1>12, HasFdOrNot
  <2>2. f # fd[p]
    BY <1>4, <2>1
  <2>3. view'[f] = Told(told, Informed(p, G), "play_alone")[f]
    BY <1>1, <2>1, <2>2, HasFdOrNot DEF Told
  <2> QED
    BY <1>12, <2>1, <2>3, ToldOne
<1>14. PICK j \in GameSlots : G[j] # NoGame /\ Involves(G[j], p) /\ fd[Opponent(G[j], p)] = f
  BY <1>13 DEF Informed, FdsOf
<1>15. G[j] = games[j]
  BY <1>14
<1> HIDE DEF G, over, ended, told
<1> DEFINE r == Opponent(games[j], p)
<1>16. Involves(games[j], r) /\ Involves(games[j], p) /\ fd[r] = f /\ r \in Structs /\ r # p
       /\ (\A s \in Structs : Involves(games[j], s) => s \in {r, p})
  BY <1>14, <1>15 DEF Opponent, Involves, GamesApart
<1> HIDE DEF r
<1>17. r = players[f]
  BY <1>16, PlayerAtFd
<1>18. j = i
  BY <1>7, <1>8, <1>14, <1>15, <1>16, <1>17 DEF GamesApart
<1>19. q = p
  BY <1>8, <1>16, <1>17, <1>18
<1> QED
  BY <1>10, <1>13, <1>19

LEMMA NewClientAlone ==
    ASSUME KeptInv, Alone, handle_new_client
    PROVE  Alone'
<1> USE DEF KeptInv, MatchInv, MatchOK, RegInv, TypeInv, TypeOK, RegOK
<1>1. PICK c \in Fds :
        /\ conn[c] = "closed" /\ conn' = [conn EXCEPT ![c] = "up"]
        /\ view' = [view EXCEPT ![c] = "connected"]
        /\ \/ UNCHANGED <<players, fd>>
           \/ /\ c \in Slots /\ allocated < MaxStructs
              /\ players' = [players EXCEPT ![c] = allocated + 1]
              /\ fd' = [fd EXCEPT ![allocated + 1] = c]
  BY DEF handle_new_client, Least
<1>2. UNCHANGED games
  BY DEF handle_new_client, gameVars
<1>3. ASSUME NEW i \in GameSlots, NEW q \in Structs, Involves(games[i], q)
      PROVE  fd'[q] = fd[q] /\ fd[q] # c
  <2>1. ps[q] = "PLAY"
    BY <1>3, PlayersPlay
  <2>2. q <= allocated
    BY <2>1, StructsAreInts DEF RegistryAllocated, NamedOnceLoggedIn, Named, StructType
  <2>3. fd'[q] = fd[q]
    BY <1>1, <2>2, StructsAreInts DEF StructType
  <2>4. ASSUME fd[q] = c PROVE FALSE
    <3>1. c \in Slots /\ players[c] = q
      BY <1>3, <2>4, PlayerAtFd
    <3> QED
      BY <1>1, <3>1, SlotsAreInts DEF SocketsOK
  <2> QED
    BY <2>3, <2>4
<1> SUFFICES ASSUME NEW f \in Fds \cap Slots, conn'[f] = "up", view'[f] = "play_alone"
             PROVE  /\ conn[f] = "up" /\ view[f] = "play_alone" /\ players'[f] = players[f]
                    /\ \A i \in GameSlots : Involves(games'[i], players[f]) =>
                          /\ games'[i] = games[i]
                          /\ LET q == Opponent(games[i], players[f])
                             IN  fd'[q] \in Fds /\ conn'[fd'[q]] = "up" =>
                                    fd'[q] = fd[q] /\ conn[fd[q]] = "up"
  BY StaysAlone
<1>4. f # c
  BY <1>1 DEF SockType
<1>5. conn[f] = "up" /\ view[f] = "play_alone" /\ players'[f] = players[f]
  BY <1>1, <1>4 DEF SockType, RegType
<1>6. players[f] \in Structs
  BY <1>5 DEF SocketsOK, RegType
<1>7. ASSUME NEW i \in GameSlots, Involves(games[i], players[f]),
             NEW q, q = Opponent(games[i], players[f]), fd'[q] \in Fds, conn'[fd'[q]] = "up"
      PROVE  fd'[q] = fd[q] /\ conn[fd[q]] = "up"
  <2>1. games[i] # NoGame
    BY <1>6, <1>7, NotInNoGame
  <2>2. q \in Structs /\ Involves(games[i], q)
    BY <1>7, <2>1 DEF Opponent, Involves, GamesApart
  <2>3. fd'[q] = fd[q] /\ fd[q] # c
    BY <1>3, <2>2
  <2> QED
    BY <1>1, <1>7, <2>3 DEF SockType
<1> QED
  BY <1>2, <1>5, <1>7

\* The opponent hears of a return, unless the one who returns is no longer there.
LEMMA ReturnAlone ==
    ASSUME KeptInv, QueueRoom, Agreement, Alone, NEW f \in Fds \cap Slots, NEW p \in Structs,
           players[f] = p, fd[p] = f, conn[f] \in {"up", "eof"}, ps[p] = "JUST_CONNECTED",
           NEW n \in Names, p_hello(p, n), lookup_player_by_name(n, players, name) = {},
           name' = [name EXCEPT ![p] = n], NEW i \in lookup_dc_player(n), login_again(p, n, i)
    PROVE  Alone'
<1> DEFINE e == players'[f]
           V == Told(view, {f}, "lobby")
<1>1. /\ e = dc_players[i] /\ e \in Structs \ {p}
      /\ players' \in [Slots -> Structs \cup {NoPlayer}]
      /\ fd' \in [Structs -> Slots \cup {-1}] /\ name' \in [Structs -> Names]
      /\ NotShared(players', name') /\ Named(name', ps)
      /\ FlagsWaitIn(queue, queue_key, players', name', ps)
      /\ \A g \in Slots \ {f} : players'[g] = players[g] /\ players[g] \notin {e, p}
      /\ \A q \in Structs : fd'[q] = IF q = e THEN f ELSE fd[q]
  <2>1. MatchInv
    BY DEF KeptInv
  <2>2. /\ MatchInv /\ f \in Fds \cap Slots /\ p \in Structs /\ players[f] = p /\ fd[p] = f
        /\ conn[f] \in {"up", "eof"} /\ ps[p] = "JUST_CONNECTED" /\ n \in Names /\ p_hello(p, n)
        /\ lookup_player_by_name(n, players, name) = {}
        /\ i \in lookup_dc_player(n) /\ login_again(p, n, i)
    BY <2>1
  <2> HIDE DEF V, e
  <2>3. /\ players'[f] = dc_players[i] /\ players'[f] \in Structs \ {p}
        /\ fd[players'[f]] = -1 /\ name[players'[f]] = n /\ n # NewPlayer
        /\ players' \in [Slots -> Structs \cup {NoPlayer}]
        /\ fd' \in [Structs -> Slots \cup {-1}] /\ name' \in [Structs -> Names]
        /\ NotShared(players', name') /\ Named(name', ps)
        /\ FlagsWaitIn(queue, queue_key, players', name', ps)
        /\ \A g \in Slots \ {f} :
              players'[g] = players[g] /\ players[g] \notin {players'[f], p}
        /\ \A g \in Slots : players'[g] # NoPlayer => fd'[players'[g]] = g
        /\ \A q \in Structs : fd'[q] = IF q = players'[f] THEN f ELSE fd[q]
    BY <2>2, Returning
  <2> QED
    BY <2>3 DEF e
<1> USE DEF KeptInv, MatchInv, MatchOK, RegInv, TypeInv, TypeOK
<1>2. /\ fd' = [fd EXCEPT ![e] = f] /\ players' = [players EXCEPT ![f] = e]
      /\ \/ \E g \in UnfinishedGame(e) :
              /\ \/ view' = Told(V, ToldOfReturn(g, e, fd'), "play")
                 \/ Fails(f) /\ view' = Told(V, {f}, "play")
              /\ UNCHANGED <<ps, games, conn>>
         \/ ps[e] = "QUEUE" /\ add_to_queue(e, players', fd', name', V, "ok")
         \/ UnfinishedGame(e) = {} /\ view' = V /\ UNCHANGED <<games, conn>>
  <2>1. /\ fd' = [fd EXCEPT ![dc_players[i]] = fd[p]]
        /\ players' = [players EXCEPT ![fd[p]] = dc_players[i]]
    BY DEF login_again
  <2>2. e = dc_players[i] /\ V = Told(view, {fd[p]}, "lobby") /\ f = fd[p]
    BY <1>1
  <2> HIDE DEF e, V, KeptInv, MatchInv, MatchOK, RegInv, TypeInv, TypeOK
  <2>3. \/ \E g \in UnfinishedGame(e) :
              /\ \/ view' = Told(V, ToldOfReturn(g, e, fd'), "play")
                 \/ Fails(f) /\ view' = Told(V, {f}, "play")
              /\ UNCHANGED <<ps, games, conn>>
        \/ ps[e] = "QUEUE" /\ add_to_queue(e, players', fd', name', V, "ok")
        \/ UnfinishedGame(e) = {} /\ view' = V /\ UNCHANGED <<games, conn>>
    BY <2>1, <2>2 DEF login_again, gameVars
  <2> QED
    BY <2>1, <2>2, <2>3
<1>3. \A h \in Fds : V[h] = "play_alone" => view[h] = "play_alone" /\ h # f
  <2>1. V[f] \in {"lobby", "none"}
    BY ToldOne
  <2> QED
    BY <2>1, ToldNotAlone
<1> HIDE DEF e, V
\* The one who returns plays in no game, before or after the step.
<1>4. ASSUME \A j \in GameSlots : ~Involves(games[j], e),
             \A j \in GameSlots, q \in Structs :
                ps[q] = "PLAY" /\ Involves(games'[j], q) => games'[j] = games[j],
             \A h \in Fds : conn'[h] = "up" =>
                conn[h] = "up" /\ (view'[h] = "play_alone" => V[h] = "play_alone")
      PROVE  Alone'
  <2> SUFFICES ASSUME NEW h \in Fds \cap Slots, conn'[h] = "up", view'[h] = "play_alone"
               PROVE  /\ conn[h] = "up" /\ view[h] = "play_alone" /\ players'[h] = players[h]
                      /\ \A j \in GameSlots : Involves(games'[j], players[h]) =>
                            /\ games'[j] = games[j]
                            /\ LET q == Opponent(games[j], players[h])
                               IN  fd'[q] \in Fds /\ conn'[fd'[q]] = "up" =>
                                      fd'[q] = fd[q] /\ conn[fd[q]] = "up"
    BY StaysAlone
  <2>1. conn[h] = "up" /\ view[h] = "play_alone" /\ h # f
    BY <1>3, <1>4
  <2>2. players'[h] = players[h]
    BY <1>1, <2>1
  <2>3. players[h] \in Structs /\ ps[players[h]] = "PLAY"
    BY <2>1 DEF Agreement, AgreesIn, Fits, RegType
  <2>4. ASSUME NEW j \in GameSlots, Involves(games'[j], players[h]),
               NEW q, q = Opponent(games[j], players[h]), fd'[q] \in Fds, conn'[fd'[q]] = "up"
        PROVE  fd'[q] = fd[q] /\ conn[fd[q]] = "up"
    <3>1. games'[j] = games[j]
      BY <1>4, <2>3, <2>4
    <3>2. games[j] # NoGame
      BY <2>3, <2>4, <3>1, NotInNoGame
    <3>3. q \in Structs /\ Involves(games[j], q)
      BY <2>4, <3>1, <3>2 DEF Opponent, Involves, GamesApart
    <3>4. fd'[q] = fd[q]
      BY <1>1, <1>4, <3>3
    <3> QED
      BY <1>4, <2>4, <3>4
  <2> QED
    BY <1>4, <2>1, <2>2, <2>3, <2>4
<1>5. ASSUME ps[e] = "QUEUE", add_to_queue(e, players', fd', name', V, "ok") PROVE Alone'
  <2>1. KeysDistinct /\ NoFlagOutside /\ TypeOK /\ \E g \in Slots : players'[g] = e
    BY DEF e
  <2>2. QueuedOrPaired(e, players')
    BY <1>1, <1>5, <2>1, AddToQueueEffect
  <2>3. \A j \in GameSlots, q \in Structs :
           ps[q] = "PLAY" /\ Involves(games'[j], q) => games'[j] = games[j]
    BY <1>1, <1>5, <2>2, PairedAlone
  <2>4. \A j \in GameSlots : ~Involves(games[j], e)
    BY <1>1, <1>5, PlayersPlay
  <2>5. \A h \in Fds : conn'[h] = "up" =>
           conn[h] = "up" /\ (view'[h] = "play_alone" => V[h] = "play_alone")
    BY <1>5, LostNotUp, AddToQueueAlone, AddToQueueConn
  <2> QED
    BY <1>4, <2>3, <2>4, <2>5
<1>6. ASSUME UnfinishedGame(e) = {}, view' = V, UNCHANGED <<games, conn>> PROVE Alone'
  <2>1. \A j \in GameSlots : ~Involves(games[j], e)
    <3>1. ASSUME NEW j \in GameSlots, Involves(games[j], e) PROVE FALSE
      <4>1. games[j] # NoGame /\ ps[e] = "PLAY"
        BY <1>1, <3>1, PlayersPlay
      <4>2. lookup_game(e) # {}
        BY <3>1, <4>1, GameSlotZero, LeastExists DEF lookup_game
      <4> QED
        BY <1>6, <4>1, <4>2 DEF UnfinishedGame
    <3> QED
      BY <3>1
  <2> QED
    BY <1>4, <1>6, <2>1
<1>7. ASSUME NEW g \in UnfinishedGame(e), UNCHANGED <<ps, games, conn>>,
             \/ view' = Told(V, ToldOfReturn(g, e, fd'), "play")
             \/ Fails(f) /\ view' = Told(V, {f}, "play")
      PROVE  Alone'
  <2>1. g \in GameSlots /\ Involves(games[g], e) /\ games[g] # NoGame
    BY <1>7 DEF UnfinishedGame, lookup_game, Least
  <2> SUFFICES ASSUME NEW h \in Fds \cap Slots, NEW j \in GameSlots, conn'[h] = "up",
                      view'[h] = "play_alone", Involves(games'[j], players'[h]),
                      fd'[Opponent(games'[j], players'[h])] \in Fds,
                      conn'[fd'[Opponent(games'[j], players'[h])]] = "up"
               PROVE  FALSE
    BY DEF Alone
  <2>2. V[h] = "play_alone" /\ conn[h] = "up"
    BY <1>7, ToldNotAlone
  <2>3. h # f /\ view[h] = "play_alone" /\ players'[h] = players[h]
    BY <1>1, <1>3, <2>2
  <2>4. players[h] \in Structs /\ players[h] # NoPlayer
    BY <2>2 DEF Agreement, AgreesIn, RegType
  <2> DEFINE q == Opponent(games[j], players[h])
  <2>5. Involves(games[j], players[h]) /\ fd'[q] \in Fds /\ conn[fd'[q]] = "up"
    BY <1>7, <2>3
  <2>6. q \in Structs /\ Involves(games[j], q)
    BY <2>4, <2>5, NotInNoGame DEF Opponent, Involves, GamesApart
  <2>7. fd[q] \notin {d \in Fds : conn[d] = "up"}
    BY <2>2, <2>3, <2>5 DEF Alone
  <2> HIDE DEF q
  <2>8. q = e /\ fd'[q] = f
    BY <1>1, <2>5, <2>6, <2>7
  <2>9. ~Fails(f)
    BY <2>5, <2>8 DEF Fails
  <2>10. j = g
    BY <1>1, <2>1, <2>6, <2>8 DEF GamesApart
  <2>11. players[h] \in PlayersOf(games[g]) /\ fd'[players[h]] = h
    <3>1. players[h] # e /\ fd[players[h]] = h
      BY <1>1, <2>3, <2>4 DEF RegOK, RegistryOK
    <3> QED
      BY <1>1, <2>4, <2>5, <2>10, <3>1 DEF PlayersOf, Involves
  <2>12. h \in ToldOfReturn(g, e, fd')
    BY <2>11 DEF ToldOfReturn
  <2> QED
    BY <1>7, <2>9, <2>12, <2>2, ToldOne, ToldNotAlone
<1> QED
  BY <1>2, <1>5, <1>6, <1>7

LEMMA HandlePacketAlone ==
    ASSUME KeptInv, QueueRoom, Agreement, Alone, NEW f \in Fds \cap Slots, NEW p \in Structs,
           players[f] = p, fd[p] = f, conn[f] \in {"up", "eof"}, HandlePacket(p)
    PROVE  Alone'
<1>1. RegInv /\ ps[p] \in PlayerStates /\ ~(fd[p] < 0)
  BY SlotsAreInts DEF KeptInv, MatchInv, RegInv, TypeInv, TypeOK, StructType
<1>2. ASSUME UNCHANGED <<players, fd, games>>,
             UNCHANGED view \/ \E S : view' = Told(view, S, "lobby"),
             UNCHANGED conn \/ \E S : conn' = Lost(S)
      PROVE  Alone'
  <2>1. \A h \in Fds : conn'[h] = "up" =>
           conn[h] = "up" /\ (view'[h] = "play_alone" => view[h] = "play_alone")
    BY <1>2, ToldNotAlone, LostNotUp
  <2> QED
    BY <1>1, <1>2, <2>1, QuietAlone
<1>3. ASSUME NEW n \in Names \cup LongNames, ps[p] = "JUST_CONNECTED", p_hello(p, n) PROVE Alone'
  <2>1. \/ /\ UNCHANGED <<players, fd, games>>
           /\ UNCHANGED conn \/ \E S : conn' = Lost(S)
           /\ UNCHANGED view \/ \E S : view' = Told(view, S, "lobby")
        \/ /\ n \in Names /\ lookup_player_by_name(n, players, name) = {}
           /\ name' = [name EXCEPT ![p] = n]
           /\ \E i \in lookup_dc_player(n) : login_again(p, n, i)
    BY <1>3 DEF p_hello, first_login, regVars, gameVars
  <2> QED
    BY <1>2, <1>3, <2>1, ReturnAlone
<1>4. CASE UNCHANGED <<structVars, regVars, queueVars, gameVars, sockVars>>
  BY <1>2, <1>4 DEF structVars, regVars, gameVars, sockVars
<1>5. ASSUME NEW k \in packet_handlers(ps[p]),
             \/ k = "HELLO" /\ \E n \in Names \cup LongNames : p_hello(p, n)
             \/ k = "QUEUE" /\ p_queue(p)
             \/ k = "LEAVE_QUEUE" /\ p_leave_queue(p)
             \/ k \in PlayPackets /\ play_packet(p, k)
             \/ k = "KEEP_ALIVE" /\ p_keepalive(p)
      PROVE  Alone'
  BY <1>1, <1>3, <1>5, HandlersByState, QueueAlone, HandlerAlone
<1> QED
  BY <1>1, <1>4, <1>5 DEF HandlePacket

LEMMA StepAlone ==
    ASSUME Regular, KeptInv, QueueRoom, Agreement, Alone, [Next]_vars
    PROVE  Alone'
<1>0. RegInv
  BY DEF KeptInv, MatchInv
<1>1. ASSUME NEW p \in Structs, NEW final, NEW socks, NEW inv, disconnect(p, final, socks, inv)
      PROVE  Alone'
  BY <1>1, DisconnectAlone
<1>2. ASSUME UNCHANGED <<players, fd, games, view>>, \A h \in Fds : conn'[h] = "up" => conn[h] = "up"
      PROVE  Alone'
  BY <1>0, <1>2, QuietAlone
<1>3. ASSUME UNCHANGED <<structVars, regVars, gameVars, sockVars>> PROVE Alone'
  BY <1>2, <1>3 DEF structVars, regVars, gameVars, sockVars
<1>4. ASSUME NEW f \in Fds, read_packet(f) PROVE Alone'
  <2>1. PICK p \in Owner(f) : HandlePacket(p)
    BY <1>4 DEF read_packet
  <2>2. f \in client_socks /\ conn[f] \in {"up", "eof"}
    BY <1>4 DEF read_packet
  <2>3. p \in Structs /\ f \in Slots /\ players[f] = p /\ fd[p] = f
    BY <1>0, <2>2, OwnerServed
  <2> QED
    BY <2>1, <2>2, <2>3, HandlePacketAlone
<1>5. ASSUME NEW f \in Fds, read_eof(f) PROVE Alone'
  BY <1>0, <1>1, <1>5, OwnerRegistered DEF read_eof
<1>6. ASSUME invalid_data PROVE Alone'
  <2>1. player \in Structs
    BY <1>0, <1>6 DEF invalid_data, RegInv, TypeInv, ServingSomeone
  <2>2. CASE UNCHANGED <<fd, regVars, gameVars, sockVars>>
    BY <1>2, <2>2 DEF regVars, gameVars, sockVars
  <2> QED
    BY <1>1, <1>6, <2>1, <2>2 DEF invalid_data
<1>7. ASSUME NEW t \in Threads, keepalive(t) PROVE Alone'
  <2>1. thread[t].pc = "loop" => \A p \in Watched(t) : p \in Structs
    BY <1>0, WatchedUnreplaced
  <2>2. CASE UNCHANGED <<fd, regVars, gameVars, sockVars>>
    BY <1>2, <2>2 DEF regVars, gameVars, sockVars
  <2> QED
    BY <1>1, <1>7, <2>1, <2>2 DEF keepalive, keepalive_start, keepalive_loop, structVars
<1>8. ASSUME NEW f \in Fds, peer_closes(f) PROVE Alone'
  <2>1. /\ UNCHANGED <<players, fd, games, view>>
        /\ \A g \in Fds : conn'[g] = "up" => conn[g] = "up"
    BY <1>0, <1>8 DEF peer_closes, structVars, regVars, gameVars, RegInv, TypeInv, TypeOK, SockType
  <2> QED
    BY <1>2, <2>1
<1>9. CASE tick
  BY <1>2, <1>9 DEF tick, regVars, gameVars, sockVars
<1>10. ~read_next_packet /\ ~buffer_rest
  BY DEF KeptInv, MatchInv, ServedStays, read_next_packet, buffer_rest
<1> QED
  BY <1>3, <1>4, <1>5, <1>6, <1>7, <1>8, <1>9, <1>10, NewClientAlone DEF Next, main, vars

\* A client that believes its opponent away has an opponent who is away: no return, pairing or
\* new connection brings an opponent back without that client being told.
THEOREM AloneMeansAwayCorrect ==
    ASSUME Regular
    PROVE  Spec /\ []QueueRoom /\ []StoreRoom => []AloneMeansAway
<1> DEFINE I == KeptInv /\ Agreement /\ FdsOnly /\ Alone
<1>1. I => AloneMeansAway
  <2> SUFFICES ASSUME I, NEW f \in Fds \cap Slots, conn[f] = "up", view[f] = "play_alone",
                      NEW i \in lookup_game(players[f])
               PROVE  LET op == fd[Opponent(games[i], players[f])] IN op = -1 \/ conn[op] # "up"
    BY DEF AloneMeansAway
  <2> DEFINE q == Opponent(games[i], players[f])
  <2>1. i \in GameSlots /\ Involves(games[i], players[f]) /\ games[i] # NoGame
    BY DEF lookup_game, Least
  <2>2. q \in Structs
    BY <2>1 DEF KeptInv, MatchInv, MatchOK, GamesApart, Opponent
  <2>3. fd[q] \notin {h \in Fds : conn[h] = "up"}
    BY <2>1 DEF Alone
  <2> HIDE DEF q
  <2>4. fd[q] \in Fds \cup {-1}
    BY <2>2 DEF FdsOnly
  <2>5. fd[q] = -1 \/ conn[fd[q]] # "up"
    BY <2>3, <2>4
  <2> QED
    BY <2>5 DEF q
<1>2. I /\ QueueRoom /\ StoreRoom /\ [Next]_vars => I'
  <2> SUFFICES ASSUME I, QueueRoom, StoreRoom, [Next]_vars PROVE I'
    OBVIOUS
  <2>1. Regular /\ KeptInv /\ Agreement /\ FdsOnly /\ Alone
    OBVIOUS
  <2>2. RegInv
    BY <2>1 DEF KeptInv, MatchInv
  <2> HIDE DEF I
  <2>3. KeptInv' /\ Agreement'
    BY <2>1, StepKept, StepAgrees
  <2>4. FdsOnly' /\ Alone'
    BY <2>1, <2>2, StepFdsOnly, StepAlone
  <2> QED
    BY <2>3, <2>4 DEF I
<1>3. Init => I
  <2>1. Init => KeptInv
    BY InitKept
  <2> QED
    BY <2>1 DEF Init, Agreement, AgreesIn, FdsOnly, Alone
<1> QED
  BY <1>1, <1>2, <1>3, PTL DEF Spec
=============================================================================
