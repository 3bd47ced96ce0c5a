------------------------- MODULE ChessServerProofs -------------------------
(***************************************************************************)
(* Theorems of ChessServer, for every player limit, every bound and every  *)
(* set of names and packets, pipelined or not.                             *)
(***************************************************************************)
EXTENDS ChessServer, WellFoundedInduction, TLAPS

\* Someone is being served in the HANDLE_PACKET loop, and a thread in its loop watches someone.
ServingSomeone  == pc \in {"parse", "inval"} => player \in Structs
WatchingSomeone == \A t \in Threads : thread[t].pc = "loop" => thread[t].p \in Structs

TypeInv == TypeOK /\ ServingSomeone /\ WatchingSomeone

USE DEF NoPlayer, short_term_dc, long_term_dc

LEMMA LeastIsSubset ==
    ASSUME NEW S
    PROVE  Least(S) \subseteq S
BY DEF Least

\* A set of naturals that is not empty has a least element.
LEMMA LeastExists ==
    ASSUME NEW S \in SUBSET Nat, S # {}
    PROVE  Least(S) # {}
<1> DEFINE R == {ss \in Nat \X Nat : ss[1] < ss[2]}
<1>0. IsWellFoundedOn(R, Nat)
  BY NatLessThanWellFounded DEF OpToRel
<1>1. PICK m \in S : \A k \in S : ~(<<k, m>> \in R)
  <2> HIDE DEF R
  <2> QED
    BY <1>0, WFMin
<1>2. \A k \in S : <<k, m>> \in R <=> k < m
  OBVIOUS
<1>3. \A k \in S : m <= k
  <2> HIDE DEF R
  <2>1. \A k \in S : ~(k < m)
    BY <1>1, <1>2
  <2> QED
    BY <2>1
<1> QED
  BY <1>3 DEF Least

LEMMA SlotsAreInts == Slots \subseteq Nat /\ Fds \subseteq Int /\ 0 \notin Structs /\ -1 \notin Slots
BY LimitAssumption, BoundAssumption DEF Slots, Fds, Structs

LEMMA StructsAreInts == Structs \subseteq Nat
BY BoundAssumption DEF Structs

\* A struct has a descriptor or it has none.
LEMMA HasFdOrNot ==
    ASSUME StructType, NEW p \in Structs
    PROVE  fd[p] < 0 <=> ~(fd[p] >= 0)
<1>1. fd[p] \in Nat \/ fd[p] = -1
  BY SlotsAreInts DEF StructType
<1>2. \A n \in Nat : n >= 0 /\ ~(n < 0)
  OBVIOUS
<1>3. -1 < 0 /\ ~(-1 >= 0)
  OBVIOUS
<1> QED
  BY <1>1, <1>2, <1>3

LEMMA GameSlotZero == 0 \in GameSlots /\ MaxGames \in Nat /\ GameSlots \subseteq Nat
BY LimitAssumption DEF GameSlots, MaxGames

\* lookup_player_by_fd only returns players that are registered.
LEMMA LookupByFd ==
    ASSUME NEW PL \in [Slots -> Structs \cup {NoPlayer}], NEW f,
           NEW p \in lookup_player_by_fd(f, PL)
    PROVE  p \in Structs /\ f \in Slots /\ PL[f] = p
BY SlotsAreInts DEF lookup_player_by_fd

LEMMA LookupByName ==
    ASSUME NEW PL \in [Slots -> Structs \cup {NoPlayer}], NEW n, NEW N,
           NEW p \in lookup_player_by_name(n, PL, N)
    PROVE  p \in Structs /\ N[p] = n
BY SlotsAreInts DEF lookup_player_by_name, Least

\* find_player_in_queue returns an index of queue, the one before its first element included.
LEMMA QueueIndex ==
    ASSUME NEW n, NEW id \in find_player_in_queue(n)
    PROVE  id \in Slots \cup {-1}
BY DEF find_player_in_queue, Least

LEMMA KeyStoredType ==
    ASSUME QueueType, NEW n \in Names, NEW id
    PROVE  KeyStored(id, n) \in [Slots -> Names \cup {NoKey}]
BY DEF KeyStored, QueueType

LEMMA LostType ==
    ASSUME SockType, NEW F
    PROVE  Lost(F) \in [Fds -> ConnStates]
BY DEF Lost, SockType, ConnStates

LEMMA ToldType ==
    ASSUME NEW V \in [Fds -> Views], NEW F, NEW v \in Views
    PROVE  Told(V, F, v) \in [Fds -> Views]
BY DEF Told

LEMMA LoggedInType ==
    ASSUME StructType, NEW S
    PROVE  LoggedIn(S) \in [Structs -> PlayerStates]
BY DEF LoggedIn, StructType, PlayerStates

LEMMA ReturnType ==
    ASSUME NEW rval, MainType, Return(rval)
    PROVE  halt' \in {"no", "exit", "segv"} /\ pc' \in {"select", "parse", "inval"}
BY DEF Return, MainType

LEMMA GameCreateType ==
    ASSUME GameType, StructType, MainType,
           NEW p \in Structs, NEW op \in Structs, NEW rval, game_create(p, op, rval)
    PROVE  /\ ps' \in [Structs -> PlayerStates] /\ GameType'
           /\ halt' \in {"no", "exit", "segv"} /\ pc' \in {"select", "parse", "inval"}
<1>1. ps' \in [Structs -> PlayerStates]
  BY DEF game_create, StructType, PlayerStates
<1>2. halt' \in {"no", "exit", "segv"} /\ pc' \in {"select", "parse", "inval"}
  BY ReturnType DEF game_create
<1>3. CASE free_game_index < 0
  BY <1>1, <1>2, <1>3, GameSlotZero DEF game_create, gameVars, GameType
<1>4. CASE free_game_index >= 0
  <2>1. free_game_index \in GameSlots
    BY <1>4 DEF GameType
  <2>2. games' = [games EXCEPT ![free_game_index] = [white |-> p, black |-> op]]
    BY <1>4, <2>1, GameSlotZero DEF game_create
  <2>3. games' \in [GameSlots -> Pairs]
    BY <2>1, <2>2 DEF GameType, Pairs
  <2>4. free_game_index' \in GameSlots \cup {-1}
    BY <1>4, <2>1, GameSlotZero DEF game_create, Least
  <2> QED
    BY <1>1, <1>2, <2>3, <2>4, GameSlotZero DEF GameType
<1> QED
  BY <1>3, <1>4, GameSlotZero DEF GameType

\* The state a handler is entered with, as far as add_to_queue reads it.
LEMMA LookForOpponentType ==
    ASSUME TypeOK, NEW p \in Structs, NEW id \in Slots \cup {-1},
           NEW PL \in [Slots -> Structs \cup {NoPlayer}], NEW F,
           NEW N \in [Structs -> Names], NEW V \in [Fds -> Views], NEW rval,
           look_for_opponent(p, id, PL, F, N, V, rval)
    PROVE  /\ ps' \in [Structs -> PlayerStates] /\ GameType' /\ QueueType'
           /\ conn' \in [Fds -> ConnStates] /\ view' \in [Fds -> Views]
           /\ halt' \in {"no", "exit", "segv"} /\ pc' \in {"select", "parse", "inval"}
<1> USE DEF TypeOK
<1>1. QueueType'
  <2>1. KeyStored(id, N[p]) \in [Slots -> Names \cup {NoKey}]
    BY KeyStoredType
  <2>2. queue_key' \in [Slots -> Names \cup {NoKey}]
    BY <2>1 DEF look_for_opponent
  <2>3. queue' \in [Slots \cup {-1} -> BOOLEAN]
    BY DEF look_for_opponent, QueueType
  <2> QED
    BY <2>2, <2>3 DEF QueueType
<1>2. view' \in [Fds -> Views]
  <2>1. \E S : \E v \in {"queue", "play"} : view' = Told(V, S, v)
    BY DEF look_for_opponent
  <2> QED
    BY <2>1, ToldType DEF Views
<1>3. conn' \in [Fds -> ConnStates]
  <2>1. UNCHANGED conn \/ \E S : conn' = Lost(S)
    BY DEF look_for_opponent
  <2> QED
    BY <2>1, LostType DEF SockType
<1>4. CASE ps' = [ps EXCEPT ![p] = "QUEUE"] /\ UNCHANGED gameVars /\ \E r : Return(r)
  BY <1>1, <1>2, <1>3, <1>4, ReturnType DEF StructType, PlayerStates, gameVars, GameType
<1>5. CASE \E op \in Structs : game_create(p, op, rval)
  BY <1>1, <1>2, <1>3, <1>5, GameCreateType
<1>6. \/ ps' = [ps EXCEPT ![p] = "QUEUE"] /\ UNCHANGED gameVars /\ \E r : Return(r)
      \/ \E op \in Structs : game_create(p, op, rval)
  BY LookupByName DEF look_for_opponent
<1> QED
  BY <1>4, <1>5, <1>6

LEMMA AddToQueueType ==
    ASSUME TypeOK, NEW p \in Structs,
           NEW PL \in [Slots -> Structs \cup {NoPlayer}], NEW F,
           NEW N \in [Structs -> Names], NEW V \in [Fds -> Views], NEW rval,
           add_to_queue(p, PL, F, N, V, rval)
    PROVE  /\ ps' \in [Structs -> PlayerStates] /\ GameType' /\ QueueType'
           /\ conn' \in [Fds -> ConnStates] /\ view' \in [Fds -> Views]
           /\ halt' \in {"no", "exit", "segv"} /\ pc' \in {"select", "parse", "inval"}
<1>1. PICK id \in find_player_in_queue(N[p]) :
        \/ look_for_opponent(p, id, PL, F, N, V, rval)
        \/ /\ queue_key' = KeyStored(id, N[p])
           /\ conn' = Lost({F[p]}) \/ UNCHANGED conn
           /\ view' = V \/ view' = Told(V, {F[p]}, "queue")
           /\ UNCHANGED <<queue, ps, gameVars>> /\ Return(rval)
  BY DEF add_to_queue
<1>2. id \in Slots \cup {-1}
  BY QueueIndex
<1>3. CASE look_for_opponent(p, id, PL, F, N, V, rval)
  BY <1>2, <1>3, LookForOpponentType
<1>4. CASE /\ queue_key' = KeyStored(id, N[p])
           /\ conn' = Lost({F[p]}) \/ UNCHANGED conn
           /\ view' = V \/ view' = Told(V, {F[p]}, "queue")
           /\ UNCHANGED <<queue, ps, gameVars>> /\ Return(rval)
  <2>1. QueueType'
    BY <1>4, KeyStoredType DEF TypeOK, QueueType
  <2>2. conn' \in [Fds -> ConnStates] /\ view' \in [Fds -> Views]
    BY <1>4, LostType, ToldType DEF TypeOK, SockType, Views
  <2>3. ps' \in [Structs -> PlayerStates] /\ GameType'
    BY <1>4 DEF TypeOK, StructType, GameType, gameVars
  <2> QED
    BY <1>4, <2>1, <2>2, <2>3, ReturnType DEF TypeOK
<1> QED
  BY <1>1, <1>3, <1>4

LEMMA DisconnectType ==
    ASSUME TypeOK, NEW p \in Structs, NEW final \in BOOLEAN,
           NEW socks \in SUBSET Fds, NEW inv \in [Structs -> Nat],
           disconnect(p, final, socks, inv)
    PROVE  /\ fd' \in [Structs -> Slots \cup {-1}] /\ ps' \in [Structs -> PlayerStates]
           /\ invalid_sends' \in [Structs -> Nat]
           /\ UNCHANGED <<name, last_keepalive, allocated>>
           /\ RegType' /\ QueueType' /\ GameType' /\ SockType'
<1> USE DEF TypeOK
<1> DEFINE over  == IF final THEN lookup_game(p) ELSE {}
           ended == UNION {PlayersOf(games[i]) : i \in over}
           G     == [i \in GameSlots |-> IF i \in over THEN NoGame ELSE games[i]]
           told  == Told(view, FdsOf(ended), "lobby")
<1>1. UNCHANGED <<name, last_keepalive, allocated>> /\ GameType'
  <2>1. G \in [GameSlots -> Pairs]
    BY DEF GameType, NoGame, Pairs
  <2> QED
    BY <2>1 DEF disconnect, GameType
<1>2. LoggedIn(ended) \in [Structs -> PlayerStates] /\ told \in [Fds -> Views]
  BY LoggedInType, ToldType DEF SockType, Views
<1>3. CASE /\ ps' = LoggedIn(ended) /\ view' = told /\ client_socks' = socks
           /\ invalid_sends' = inv /\ UNCHANGED <<fd, regVars, queueVars, conn>>
  BY <1>1, <1>2, <1>3 DEF StructType, RegType, QueueType, SockType, regVars, queueVars
<1>4. CASE /\ fd[p] >= 0
           /\ client_socks' = socks \ {fd[p]}
           /\ RemovedFromQueue(p, LoggedIn(ended))
           /\ pman_handle_dc(p, inv)
           /\ conn' = [conn EXCEPT ![fd[p]] = "closed"]
           /\ view' = [Told(told, Informed(p, G), "play_alone") EXCEPT ![fd[p]] = "none"]
  <2>1. SockType'
    <3>1. Told(told, Informed(p, G), "play_alone") \in [Fds -> Views]
      BY <1>2, ToldType DEF Views
    <3>2. view' \in [Fds -> Views]
      BY <1>4, <3>1 DEF Views
    <3>3. conn' \in [Fds -> ConnStates]
      BY <1>4 DEF SockType, ConnStates
    <3> QED
      BY <1>4, <3>2, <3>3 DEF SockType
  <2>2. QueueType' /\ ps' \in [Structs -> PlayerStates]
    <3>1. PICK id \in find_player_in_queue(name[p]) :
            /\ queue_key' = KeyStored(id, name[p])
            /\ queue' = [queue EXCEPT ![id] = FALSE]
            /\ ps' \in {LoggedIn(ended), [LoggedIn(ended) EXCEPT ![p] = "LOGGED_IN"]}
      BY <1>4 DEF RemovedFromQueue
    <3>2. queue_key' \in [Slots -> Names \cup {NoKey}]
      BY <3>1, KeyStoredType DEF StructType
    <3> QED
      BY <1>2, <3>1, <3>2 DEF QueueType, PlayerStates
  <2>3. RegType' /\ fd' \in [Structs -> Slots \cup {-1}] /\ invalid_sends' \in [Structs -> Nat]
    BY <1>4, SlotsAreInts DEF pman_handle_dc, RegType, StructType, Least
  <2> QED
    BY <1>1, <2>1, <2>2, <2>3
<1>5. QED
  BY <1>3, <1>4 DEF disconnect

LEMMA IdleType == Idle \in ThreadStates /\ Idle.pc # "loop"
BY DEF Idle, ThreadStates, Ages

\* What a handler has to show of the state after it; player is the caller's.
Typed == /\ halt \in {"no", "exit", "segv"} /\ pc \in {"select", "parse", "inval"}
         /\ StructType /\ RegType /\ QueueType /\ GameType /\ SockType /\ ThreadType
         /\ WatchingSomeone

LEMMA StartKeepaliveType ==
    ASSUME TypeInv, NEW f \in Slots, NEW PL \in [Slots -> Structs \cup {NoPlayer}],
           start_keepalive(f, PL)
    PROVE  /\ last_keepalive' \in [Structs -> Ages]
           /\ ThreadType' /\ WatchingSomeone'
<1> USE DEF TypeInv, TypeOK
<1>1. CASE UNCHANGED <<last_keepalive, thread>>
  BY <1>1 DEF StructType, ThreadType, WatchingSomeone
<1>2. CASE \E q \in Structs :
             /\ last_keepalive' = [last_keepalive EXCEPT ![q] = 0]
             /\ \/ UNCHANGED thread
                \/ \E t \in Threads :
                     thread' = [thread EXCEPT ![t] = Created(f)]
  <2>1. last_keepalive' \in [Structs -> Ages]
    BY <1>2 DEF StructType, Ages
  <2>2. CASE UNCHANGED thread
    BY <2>1, <2>2 DEF ThreadType, WatchingSomeone
  <2>3. CASE \E t \in Threads :
               thread' = [thread EXCEPT ![t] = Created(f)]
    <3>1. Created(f) \in ThreadStates /\ Created(f).pc # "loop"
      BY DEF Created, ThreadStates, Ages
    <3> QED
      BY <2>1, <2>3, <3>1 DEF ThreadType, WatchingSomeone
  <2> QED
    BY <1>2, <2>2, <2>3
<1> QED
  BY <1>1, <1>2, LookupByFd DEF start_keepalive, Least

LEMMA HelloType ==
    ASSUME TypeInv, NEW p \in Structs, fd[p] >= 0, NEW n \in Names \cup LongNames, p_hello(p, n)
    PROVE  Typed'
<1> USE DEF TypeInv, TypeOK
<1>a. fd[p] \in Slots
  BY SlotsAreInts DEF StructType
<1>b. UNCHANGED <<started_keepalive, invalid_sends, allocated, client_socks>>
  BY DEF p_hello
<1>1. CASE UNCHANGED <<fd, ps, name, last_keepalive, regVars, queueVars, gameVars,
                       conn, view, thread>> /\ Return("ok")
  BY <1>b, <1>1, ReturnType
     DEF Typed, StructType, RegType, QueueType, GameType, SockType, ThreadType,
         WatchingSomeone, regVars, queueVars, gameVars
<1>2. CASE n \in Names /\ name' = [name EXCEPT ![p] = n]
           /\ \/ /\ conn' = Lost({fd[p]})
                 /\ UNCHANGED <<fd, ps, last_keepalive, regVars, queueVars, gameVars,
                                view, thread>>
                 /\ Return("ok")
              \/ first_login(p, n)
              \/ \E i \in lookup_dc_player(n) : login_again(p, n, i)
  <2>1. name' \in [Structs -> Names]
    BY <1>2 DEF StructType
  <2>2. CASE /\ conn' = Lost({fd[p]})
             /\ UNCHANGED <<fd, ps, last_keepalive, regVars, queueVars, gameVars,
                            view, thread>>
             /\ Return("ok")
    BY <1>b, <2>1, <2>2, LostType, ReturnType
       DEF Typed, StructType, RegType, QueueType, GameType, SockType, ThreadType,
           WatchingSomeone, regVars, queueVars, gameVars
  <2>3. CASE first_login(p, n)
    <3>1. last_keepalive' \in [Structs -> Ages] /\ ThreadType' /\ WatchingSomeone'
      BY <1>a, <2>3, StartKeepaliveType DEF first_login, RegType
    <3>2. view' \in [Fds -> Views]
      BY <2>3, ToldType DEF first_login, SockType, Views
    <3>3. ps' \in [Structs -> PlayerStates]
      BY <2>3 DEF first_login, StructType, PlayerStates
    <3> QED
      BY <1>b, <2>1, <2>3, <3>1, <3>2, <3>3, ReturnType
         DEF first_login, Typed, StructType, RegType, QueueType, GameType, SockType,
             regVars, queueVars, gameVars
  <2>4. ASSUME NEW i \in lookup_dc_player(n), login_again(p, n, i)
        PROVE  Typed'
    <3> DEFINE e  == dc_players[i]
               F  == [fd EXCEPT ![e] = fd[p]]
               PL == [players EXCEPT ![fd[p]] = e]
               N  == [name EXCEPT ![p] = n]
               V  == Told(view, {fd[p]}, "lobby")
    <3>1. e \in Structs /\ i \in Slots
      BY DEF lookup_dc_player, Least, RegType
    <3>2. /\ F \in [Structs -> Slots \cup {-1}] /\ PL \in [Slots -> Structs \cup {NoPlayer}]
          /\ N \in [Structs -> Names]
      BY <1>2, <1>a, <3>1 DEF StructType, RegType
    <3>3. V \in [Fds -> Views]
      BY ToldType DEF SockType, Views
    <3>4. last_keepalive' \in [Structs -> Ages] /\ ThreadType' /\ WatchingSomeone'
      BY <1>a, <2>4, <3>2, StartKeepaliveType DEF login_again
    <3>5. fd' \in [Structs -> Slots \cup {-1}] /\ RegType'
      BY <2>4, <3>1, <3>2 DEF login_again, RegType
    <3>6. CASE add_to_queue(e, PL, F, N, V, "ok")
      <4>1. /\ ps' \in [Structs -> PlayerStates] /\ GameType' /\ QueueType'
            /\ conn' \in [Fds -> ConnStates] /\ view' \in [Fds -> Views]
            /\ halt' \in {"no", "exit", "segv"} /\ pc' \in {"select", "parse", "inval"}
        BY <3>1, <3>2, <3>3, <3>6, AddToQueueType
      <4> QED
        BY <1>b, <2>1, <3>4, <3>5, <4>1 DEF Typed, StructType, SockType
    <3>7. CASE /\ UNCHANGED ps \/ ps' = [ps EXCEPT ![e] = "LOGGED_IN"]
               /\ \/ view' = V
                  \/ \E S : view' = Told(V, S, "play")
                  \/ \E S : view' = Told(view, S, "play")
               /\ UNCHANGED <<queueVars, gameVars, conn>>
               /\ Return("ok")
      <4>1. view' \in [Fds -> Views]
        BY <3>3, <3>7, ToldType DEF Views, SockType
      <4>2. ps' \in [Structs -> PlayerStates]
        BY <3>1, <3>7 DEF StructType, PlayerStates
      <4> QED
        BY <1>b, <2>1, <3>4, <3>5, <3>7, <4>1, <4>2, ReturnType
           DEF Typed, StructType, QueueType, GameType, SockType, queueVars, gameVars
    <3> QED
      BY <2>4, <3>6, <3>7 DEF login_again
  <2> QED
    BY <1>2, <2>2, <2>3, <2>4
<1> QED
  BY <1>1, <1>2 DEF p_hello

\* The handlers that leave the registry and the threads alone.
LEMMA PlainHandlerType ==
    ASSUME TypeInv, NEW p \in Structs,
           \/ p_queue(p) \/ p_leave_queue(p) \/ (\E k : play_packet(p, k)) \/ p_keepalive(p)
    PROVE  Typed'
<1> USE DEF TypeInv, TypeOK
<1>1. /\ UNCHANGED <<fd, name, started_keepalive, invalid_sends, allocated, client_socks>>
      /\ RegType' /\ ThreadType' /\ WatchingSomeone'
  BY DEF p_queue, p_leave_queue, play_packet, p_keepalive, keepSession, regVars, RegType,
         ThreadType, WatchingSomeone
<1>2. last_keepalive' \in [Structs -> Ages]
  BY DEF p_queue, p_leave_queue, play_packet, p_keepalive, StructType, Ages
<1>3. CASE p_queue(p)
  <2>1. /\ ps' \in [Structs -> PlayerStates] /\ GameType' /\ QueueType'
        /\ conn' \in [Fds -> ConnStates] /\ view' \in [Fds -> Views]
        /\ halt' \in {"no", "exit", "segv"} /\ pc' \in {"select", "parse", "inval"}
    BY <1>3, AddToQueueType DEF p_queue, RegType, StructType, SockType
  <2> QED
    BY <1>1, <1>2, <2>1 DEF Typed, StructType, SockType
<1>4. CASE p_leave_queue(p)
  <2>1. PICK id \in find_player_in_queue(name[p]) :
          /\ queue_key' = KeyStored(id, name[p])
          /\ queue' = [queue EXCEPT ![id] = FALSE]
          /\ UNCHANGED ps \/ ps' = [ps EXCEPT ![p] = "LOGGED_IN"]
          /\ UNCHANGED conn \/ conn' = Lost({fd[p]})
          /\ UNCHANGED view \/ view' = Told(view, {fd[p]}, "lobby")
          /\ \E r : Return(r)
    BY <1>4 DEF p_leave_queue
  <2>2. QueueType'
    BY <2>1, KeyStoredType DEF StructType, QueueType
  <2>3. conn' \in [Fds -> ConnStates] /\ view' \in [Fds -> Views]
    BY <2>1, LostType, ToldType DEF SockType, Views
  <2>4. ps' \in [Structs -> PlayerStates] /\ GameType'
    BY <1>4, <2>1 DEF p_leave_queue, StructType, PlayerStates, GameType, gameVars
  <2> QED
    BY <1>1, <1>2, <2>1, <2>2, <2>3, <2>4, ReturnType DEF Typed, StructType, SockType
<1>5. CASE \E k : play_packet(p, k)
  <2>1. QueueType' /\ \E r : Return(r)
    BY <1>5 DEF play_packet, queueVars, QueueType
  <2>2. CASE UNCHANGED <<ps, gameVars, conn, view>>
    BY <1>1, <1>2, <2>1, <2>2, ReturnType DEF Typed, StructType, SockType, GameType, gameVars
  <2>3. CASE \E i \in lookup_game(p) : finish_game(i)
    <3>1. PICK i \in GameSlots : finish_game(i)
      BY <2>3 DEF lookup_game, Least
    <3>2. GameType'
      BY <3>1 DEF finish_game, GameType, NoGame, Pairs
    <3>3. ps' \in [Structs -> PlayerStates] /\ view' \in [Fds -> Views]
      BY <3>1, LoggedInType, ToldType DEF finish_game, SockType, Views
    <3> QED
      BY <1>1, <1>2, <2>1, <3>1, <3>2, <3>3, ReturnType
         DEF finish_game, Typed, StructType, SockType
  <2> QED
    BY <1>5, <2>2, <2>3 DEF play_packet
<1>6. CASE p_keepalive(p)
  BY <1>1, <1>2, <1>6, ReturnType
     DEF p_keepalive, Typed, StructType, SockType, GameType, QueueType, gameVars, queueVars
<1> QED
  BY <1>3, <1>4, <1>5, <1>6

LEMMA HandlePacketType ==
    ASSUME TypeInv, NEW p \in Structs, HandlePacket(p)
    PROVE  Typed'
<1> USE DEF TypeInv, TypeOK
<1>1. CASE /\ halt' = "segv"
           /\ UNCHANGED <<pc, structVars, regVars, queueVars, gameVars, sockVars, thread>>
  BY <1>1 DEF Typed, MainType, StructType, RegType, QueueType, GameType, SockType, ThreadType,
              WatchingSomeone, structVars, regVars, queueVars, gameVars, sockVars
<1>2. CASE /\ UNCHANGED <<structVars, regVars, queueVars, gameVars, sockVars, thread>>
           /\ Return("invalid")
  BY <1>2, ReturnType
     DEF Typed, StructType, RegType, QueueType, GameType, SockType, ThreadType,
         WatchingSomeone, structVars, regVars, queueVars, gameVars, sockVars
<1>3. CASE fd[p] >= 0 /\ \E n \in Names \cup LongNames : p_hello(p, n)
  BY <1>3, HelloType
<1>4. CASE p_queue(p) \/ p_leave_queue(p) \/ (\E k : play_packet(p, k)) \/ p_keepalive(p)
  BY <1>4, PlainHandlerType
<1> QED
  BY <1>1, <1>2, <1>3, <1>4 DEF HandlePacket

LEMMA InitType == Init => TypeInv
<1> SUFFICES ASSUME Init PROVE TypeInv
  OBVIOUS
<1>1. MainType /\ StructType /\ RegType /\ QueueType /\ SockType
  BY BoundAssumption, NameAssumption
     DEF Init, MainType, StructType, RegType, QueueType, SockType, PlayerStates, Ages,
         ConnStates, Views
<1>2. GameType
  BY GameSlotZero DEF Init, GameType, NoGame, Pairs
<1>3. ThreadType /\ \A t \in Threads : thread[t].pc = "idle"
  BY IdleType DEF Init, ThreadType, Idle
<1> QED
  BY <1>1, <1>2, <1>3 DEF Init, TypeInv, TypeOK, ServingSomeone, WatchingSomeone

LEMMA MainStepType ==
    ASSUME TypeInv, main
    PROVE  TypeInv'
<1> USE DEF TypeInv, TypeOK
<1>1. CASE handle_new_client
  <2>1. PICK f \in Fds :
          /\ client_socks' = client_socks \cup {f}
          /\ conn' = [conn EXCEPT ![f] = "up"]
          /\ view' = [view EXCEPT ![f] = "connected"]
          /\ \/ /\ halt' \in {"exit", halt} /\ UNCHANGED <<allocated, players, fd>>
             \/ /\ f \in Slots
                /\ allocated < MaxStructs
                /\ allocated' = allocated + 1
                /\ players' = [players EXCEPT ![f] = allocated + 1]
                /\ fd' = [fd EXCEPT ![allocated + 1] = f]
                /\ UNCHANGED halt
    BY <1>1 DEF handle_new_client, Least
  <2>2. SockType'
    BY <2>1 DEF SockType, ConnStates, Views
  <2>3. /\ fd' \in [Structs -> Slots \cup {-1}] /\ allocated' \in 0 .. MaxStructs
        /\ players' \in [Slots -> Structs \cup {NoPlayer}]
    <3>1. CASE UNCHANGED <<allocated, players, fd>>
      BY <3>1 DEF StructType, RegType
    <3>2. CASE /\ f \in Slots /\ allocated < MaxStructs
               /\ allocated' = allocated + 1
               /\ players' = [players EXCEPT ![f] = allocated + 1]
               /\ fd' = [fd EXCEPT ![allocated + 1] = f]
      <4>1. allocated + 1 \in Structs
        BY <3>2, BoundAssumption DEF StructType, Structs
      <4> QED
        BY <3>2, <4>1, BoundAssumption DEF StructType, RegType, Structs
    <3> QED
      BY <2>1, <3>1, <3>2
  <2>4. MainType' /\ ServingSomeone'
    BY <1>1, <2>1 DEF handle_new_client, MainType, ServingSomeone
  <2> QED
    BY <1>1, <2>2, <2>3, <2>4
       DEF handle_new_client, StructType, RegType, QueueType, GameType, ThreadType,
           WatchingSomeone, queueVars, gameVars
<1>2. ASSUME NEW f \in Fds, read_packet(f) PROVE TypeInv'
  <2>1. PICK p \in Structs : player' = p /\ HandlePacket(p)
    BY <1>2, LookupByFd DEF read_packet, Owner, RegType, MainType
  <2>2. Typed'
    BY <2>1, HandlePacketType
  <2> QED
    BY <2>1, <2>2 DEF Typed, MainType, ServingSomeone
<1>3. ASSUME NEW f \in Fds, read_eof(f) PROVE TypeInv'
  <2>1. PICK p \in Structs :
          player' = p /\ disconnect(p, FALSE, client_socks \ {f}, invalid_sends)
    BY <1>3, LookupByFd DEF read_eof, Owner, RegType, MainType
  <2>2. client_socks \ {f} \in SUBSET Fds /\ invalid_sends \in [Structs -> Nat]
    BY DEF SockType, StructType
  <2>3. /\ fd' \in [Structs -> Slots \cup {-1}] /\ ps' \in [Structs -> PlayerStates]
        /\ invalid_sends' \in [Structs -> Nat]
        /\ UNCHANGED <<name, last_keepalive, allocated>>
        /\ RegType' /\ QueueType' /\ GameType' /\ SockType'
    BY <2>1, <2>2, DisconnectType
  <2> QED
    BY <1>3, <2>1, <2>3
       DEF read_eof, MainType, StructType, ThreadType, ServingSomeone, WatchingSomeone
<1>4. CASE read_next_packet
  <2>1. player \in Structs
    BY <1>4 DEF read_next_packet, ServingSomeone
  <2>2. Typed'
    BY <1>4, <2>1, HandlePacketType DEF read_next_packet
  <2> QED
    BY <1>4, <2>1, <2>2 DEF read_next_packet, Typed, MainType, ServingSomeone
<1>5. CASE buffer_rest
  BY <1>5 DEF buffer_rest, MainType, StructType, RegType, QueueType, GameType, SockType,
              ThreadType, ServingSomeone, WatchingSomeone, structVars, regVars, queueVars,
              gameVars, sockVars
<1>6. CASE invalid_data
  <2> DEFINE inv == [invalid_sends EXCEPT ![player] = @ + 1]
  <2>1. player \in Structs
    BY <1>6 DEF invalid_data, ServingSomeone
  <2>2. inv \in [Structs -> Nat]
    BY <2>1 DEF StructType
  <2>3. CASE /\ invalid_sends' = inv
             /\ UNCHANGED <<fd, ps, name, last_keepalive, started_keepalive, allocated,
                            regVars, queueVars, gameVars, sockVars>>
             /\ Return("ok")
    BY <1>6, <2>1, <2>2, <2>3, ReturnType
       DEF invalid_data, MainType, StructType, RegType, QueueType, GameType, SockType,
           ThreadType, ServingSomeone, WatchingSomeone, regVars, queueVars, gameVars, sockVars
  <2>4. CASE /\ disconnect(player, TRUE, client_socks, inv)
             /\ pc' = "select" /\ UNCHANGED <<halt, started_keepalive>>
    <3>1. /\ fd' \in [Structs -> Slots \cup {-1}] /\ ps' \in [Structs -> PlayerStates]
          /\ invalid_sends' \in [Structs -> Nat]
          /\ UNCHANGED <<name, last_keepalive, allocated>>
          /\ RegType' /\ QueueType' /\ GameType' /\ SockType'
      <4>1. client_socks \in SUBSET Fds
        BY DEF SockType
      <4> QED
        BY <2>1, <2>2, <2>4, <4>1, DisconnectType
    <3> QED
      BY <1>6, <2>1, <2>4, <3>1
         DEF invalid_data, MainType, StructType, ThreadType, ServingSomeone, WatchingSomeone
  <2> QED
    BY <1>6, <2>3, <2>4 DEF invalid_data
<1> QED
  BY <1>1, <1>2, <1>3, <1>4, <1>5, <1>6 DEF main

LEMMA KeepaliveStepType ==
    ASSUME TypeInv, NEW t \in Threads, keepalive(t)
    PROVE  TypeInv'
<1> USE DEF TypeInv, TypeOK
<1>1. CASE keepalive_start(t)
  <2>0. /\ UNCHANGED <<mainVars, fd, ps, name, invalid_sends, allocated>>
        /\ RegType' /\ QueueType' /\ GameType' /\ SockType'
    BY <1>1 DEF keepalive_start, RegType, QueueType, GameType, SockType, regVars, queueVars,
                gameVars, sockVars
  <2>1. MainType' /\ ServingSomeone'
    BY <2>0 DEF mainVars, MainType, ServingSomeone
  <2>2. CASE /\ thread' = [thread EXCEPT ![t] = Idle]
             /\ UNCHANGED <<started_keepalive, last_keepalive>>
    BY <2>0, <2>1, <2>2, IdleType
       DEF StructType, ThreadType, WatchingSomeone
  <2>3. CASE \E p \in Structs :
               /\ thread' = [thread EXCEPT ![t] = Looking(p, 0)]
               /\ started_keepalive' = [started_keepalive EXCEPT ![p] = TRUE]
               /\ last_keepalive' = [last_keepalive EXCEPT ![p] = 0]
    <3>1. PICK p \in Structs :
               /\ thread' = [thread EXCEPT ![t] = Looking(p, 0)]
               /\ started_keepalive' = [started_keepalive EXCEPT ![p] = TRUE]
               /\ last_keepalive' = [last_keepalive EXCEPT ![p] = 0]
      BY <2>3
    <3>2. ThreadType' /\ WatchingSomeone'
      <4>1. Looking(p, 0) \in ThreadStates /\ Looking(p, 0).p = p
        BY DEF Looking, ThreadStates, Ages
      <4> QED
        BY <3>1, <4>1 DEF ThreadType, WatchingSomeone
    <3>3. StructType'
      BY <2>0, <3>1 DEF StructType, Ages
    <3> QED
      BY <2>0, <2>1, <3>2, <3>3
  <2> QED
    BY <1>1, <2>2, <2>3, LookupByFd DEF keepalive_start, RegType
<1>2. CASE keepalive_loop(t)
  <2>0. MainType' /\ ServingSomeone' /\ thread[t] \in ThreadStates /\ thread[t].pc = "loop"
    BY <1>2 DEF keepalive_loop, mainVars, MainType, ServingSomeone, ThreadType
  <2>1. PICK p \in Watched(t) :
         LET age == WatchedAge(t, p) IN
             \/ /\ age >= long_term_dc
                /\ disconnect(p, TRUE, client_socks, invalid_sends)
                /\ started_keepalive' = [started_keepalive EXCEPT ![p] = FALSE]
                /\ thread' = [thread EXCEPT ![t] = Idle]
             \/ /\ age \in short_term_dc .. (long_term_dc - 1) /\ ~thread[t].short
                /\ disconnect(p, FALSE, client_socks, invalid_sends)
                /\ thread' = [thread EXCEPT ![t] = Looking(p, age)]
                /\ UNCHANGED started_keepalive
             \/ /\ age < short_term_dc \/ (age < long_term_dc /\ thread[t].short)
                /\ thread' = [thread EXCEPT ![t] = Looking(p, age)]
                /\ UNCHANGED <<structVars, regVars, queueVars, gameVars, sockVars>>
    BY <1>2 DEF keepalive_loop
  <2>2. p \in Structs
    BY <1>2, <2>1, LookupByFd DEF Watched, RegType, WatchingSomeone, keepalive_loop
  <2>3. WatchedAge(t, p) \in Ages
    BY <2>0, <2>2 DEF WatchedAge, StructType, ThreadStates
  <2> DEFINE th == Looking(p, WatchedAge(t, p))
  <2>4. th \in ThreadStates /\ th.p = p
    BY <2>2, <2>3 DEF Looking, ThreadStates
  <2>5. ThreadType' /\ WatchingSomeone'
    <3>1. CASE thread' = [thread EXCEPT ![t] = Idle]
      BY <3>1, IdleType DEF ThreadType, WatchingSomeone
    <3>2. CASE thread' = [thread EXCEPT ![t] = th]
      BY <2>2, <2>4, <3>2 DEF ThreadType, WatchingSomeone
    <3> QED
      BY <2>1, <3>1, <3>2
  <2>6. StructType' /\ RegType' /\ QueueType' /\ GameType' /\ SockType'
    <3>1. CASE /\ \E b \in BOOLEAN : disconnect(p, b, client_socks, invalid_sends)
               /\ \/ started_keepalive' = [started_keepalive EXCEPT ![p] = FALSE]
                  \/ UNCHANGED started_keepalive
      <4>1. client_socks \in SUBSET Fds /\ invalid_sends \in [Structs -> Nat]
        BY DEF SockType, StructType
      <4>2. /\ fd' \in [Structs -> Slots \cup {-1}] /\ ps' \in [Structs -> PlayerStates]
            /\ invalid_sends' \in [Structs -> Nat]
            /\ UNCHANGED <<name, last_keepalive, allocated>>
            /\ RegType' /\ QueueType' /\ GameType' /\ SockType'
        BY <2>2, <3>1, <4>1, DisconnectType
      <4> QED
        BY <3>1, <4>2 DEF StructType
    <3>2. CASE UNCHANGED <<structVars, regVars, queueVars, gameVars, sockVars>>
      BY <3>2 DEF StructType, RegType, QueueType, GameType, SockType, structVars, regVars,
                  queueVars, gameVars, sockVars
    <3> QED
      BY <2>1, <3>1, <3>2
  <2> QED
    BY <2>0, <2>5, <2>6
<1> QED
  BY <1>1, <1>2 DEF keepalive

LEMMA EnvironmentStepType ==
    ASSUME TypeInv, tick \/ \E f \in Fds : peer_closes(f)
    PROVE  TypeInv'
<1> USE DEF TypeInv, TypeOK
<1>1. CASE \E f \in Fds : peer_closes(f)
  BY <1>1 DEF peer_closes, MainType, StructType, RegType, QueueType, GameType, SockType,
              ThreadType, ServingSomeone, WatchingSomeone, ConnStates, mainVars, structVars,
              regVars, queueVars, gameVars
<1>2. CASE tick
  <2>1. \A a \in Ages : Older(a) \in Ages
    BY DEF Ages, Older
  <2>2. last_keepalive' \in [Structs -> Ages]
    BY <1>2, <2>1 DEF tick, StructType
  <2>3. \A t \in Threads :
          /\ [thread[t] EXCEPT !.age = Older(@)] \in ThreadStates
          /\ [thread[t] EXCEPT !.age = Older(@)].p = thread[t].p
    BY <2>1 DEF ThreadType, ThreadStates
  <2>4. ThreadType' /\ WatchingSomeone'
    BY <1>2, <2>3 DEF tick, ThreadType, WatchingSomeone
  <2> QED
    BY <1>2, <2>2, <2>4
       DEF tick, MainType, StructType, RegType, QueueType, GameType, SockType,
           ServingSomeone, mainVars, regVars, queueVars, gameVars, sockVars
<1> QED
  BY <1>1, <1>2

LEMMA StepType == TypeInv /\ [Next]_vars => TypeInv'
<1> SUFFICES ASSUME TypeInv, [Next]_vars PROVE TypeInv'
  OBVIOUS
<1>1. CASE Next
  BY <1>1, MainStepType, KeepaliveStepType, EnvironmentStepType DEF Next
<1>2. CASE UNCHANGED vars
  BY <1>2 DEF vars, mainVars, structVars, regVars, queueVars, gameVars, sockVars,
              TypeInv, TypeOK, MainType, StructType, RegType, QueueType, GameType, SockType,
              ThreadType, ServingSomeone, WatchingSomeone
<1> QED
  BY <1>1, <1>2

\* Every variable keeps its type under every step of the main loop, the handlers, the
\* keepalive threads, the clients and the clock.
THEOREM TypeCorrect == Spec => []TypeOK
<1>1. TypeInv => TypeOK
  BY DEF TypeInv
<1> QED
  BY <1>1, InitType, StepType, PTL DEF Spec

---------------------------------------------------------------------------
\* The registry, the names and the sockets.  What is registered, stored, watched or
\* served has been allocated, and what has not been allocated still has no name.

RegistryAllocated ==
    /\ \A f \in Slots : players[f] <= allocated /\ dc_players[f] <= allocated
    /\ \A p \in Structs : p > allocated => name[p] = NewPlayer
ServedAllocated  == player <= allocated
WatchedAllocated == \A t \in Threads : thread[t].p <= allocated

RegOK == RegistryAllocated /\ RegistryOK /\ NamesUnique /\ SocketsOK

RegInv == TypeInv /\ RegOK /\ ServedAllocated /\ WatchedAllocated

\* The sockets that are open and selected on stay the same.
SameSockets ==
    /\ UNCHANGED client_socks
    /\ \A f \in Fds : conn'[f] = "closed" <=> conn[f] = "closed"

LEMMA LostSameSockets ==
    ASSUME SockType, NEW F, conn' = Lost(F) \/ UNCHANGED conn, UNCHANGED client_socks
    PROVE  SameSockets
BY DEF SameSockets, Lost, SockType

LEMMA AddToQueueConn ==
    ASSUME NEW p, NEW PL, NEW F, NEW N, NEW V, NEW rval, add_to_queue(p, PL, F, N, V, rval)
    PROVE  UNCHANGED conn \/ \E S : conn' = Lost(S)
BY DEF add_to_queue, look_for_opponent

LEMMA QuietStep ==
    ASSUME RegInv, SameSockets, UNCHANGED <<players, dc_players, fd, name, allocated>>
    PROVE  RegOK'
<1>1. RegistryAllocated' /\ RegistryOK' /\ NamesUnique'
  BY DEF RegInv, RegOK, RegistryAllocated, RegistryOK, NamesUnique
<1>2. SocketsOK'
  BY DEF RegInv, RegOK, SocketsOK, SameSockets
<1> QED
  BY <1>1, <1>2 DEF RegOK

\* disconnect forgets the player, closes its socket and stores it at most once.
LEMMA DisconnectRegistry ==
    ASSUME RegInv, NEW p \in Structs, p <= allocated, NEW final \in BOOLEAN,
           NEW socks \in SUBSET client_socks, NEW inv \in [Structs -> Nat],
           \A f \in Fds \cap Slots : f \in client_socks \ socks => fd[p] = f,
           disconnect(p, final, socks, inv)
    PROVE  RegOK'
<1> USE DEF RegInv, TypeInv, TypeOK, RegOK
<1>0. UNCHANGED <<name, allocated>> /\ allocated \in Nat
  BY DEF disconnect, StructType
<1>1. CASE fd[p] < 0
  <2>1. UNCHANGED <<players, dc_players, fd, conn>> /\ client_socks' = socks
    <3>1. ~(fd[p] >= 0)
      BY <1>1, HasFdOrNot
    <3> QED
      BY <1>1, <3>1 DEF disconnect, regVars
  <2>2. RegistryAllocated' /\ RegistryOK' /\ NamesUnique'
    BY <1>0, <2>1 DEF RegistryAllocated, RegistryOK, NamesUnique
  <2>3. \A f \in Fds \cap Slots : f \in client_socks <=> f \in socks
    BY <1>1, SlotsAreInts
  <2>4. SocketsOK'
    BY <2>1, <2>3 DEF SocketsOK
  <2> QED
    BY <2>2, <2>4
<1>2. CASE fd[p] >= 0
  <2>0. fd[p] \in Slots
    BY <1>2 DEF StructType
  <2>1. /\ client_socks' = socks \ {fd[p]}
        /\ conn' = [conn EXCEPT ![fd[p]] = "closed"]
        /\ players' = [players EXCEPT ![fd[p]] = NoPlayer]
        /\ \/ UNCHANGED <<dc_players, fd>>
           \/ \E i \in Slots : /\ dc_players[i] = NoPlayer
                               /\ dc_players' = [dc_players EXCEPT ![i] = p]
                               /\ fd' = [fd EXCEPT ![p] = -1]
    <3>1. ~(fd[p] < 0)
      BY <1>2, HasFdOrNot
    <3>2. /\ client_socks' = socks \ {fd[p]}
          /\ conn' = [conn EXCEPT ![fd[p]] = "closed"]
          /\ pman_handle_dc(p, inv)
      BY <1>2, <3>1 DEF disconnect
    <3> QED
      BY <3>2 DEF pman_handle_dc, Least
  <2>2. RegistryAllocated'
    BY <1>0, <2>0, <2>1 DEF RegistryAllocated, RegType
  <2>3. RegistryOK'
    <3>1. \A f \in Slots : players'[f] # NoPlayer => players'[f] = players[f] /\ f # fd[p]
      BY <2>0, <2>1 DEF RegType
    <3>2. \A f \in Slots : players'[f] # NoPlayer => players'[f] # p
      BY <3>1 DEF RegistryOK
    <3>3. \A f \in Slots : players'[f] # NoPlayer => fd'[players'[f]] = f
      BY <2>1, <3>1, <3>2 DEF RegistryOK, RegType, StructType
    <3>4. \A i \in Slots : dc_players[i] # p
      BY <2>0, SlotsAreInts DEF RegistryOK
    <3>5. \A i \in Slots : dc_players'[i] # NoPlayer => fd'[dc_players'[i]] = -1
      BY <2>1, <3>4 DEF RegistryOK, RegType, StructType
    <3>6. \A i, j \in Slots :
             dc_players'[i] # NoPlayer /\ dc_players'[i] = dc_players'[j] => i = j
      BY <2>1, <3>4 DEF RegistryOK, RegType
    <3> QED
      BY <3>3, <3>5, <3>6 DEF RegistryOK
  <2>4. NamesUnique'
    BY <1>0, <2>0, <2>1 DEF NamesUnique, RegType
  <2>5. SocketsOK'
    BY <2>0, <2>1 DEF SocketsOK, RegType, SockType
  <2> QED
    BY <2>2, <2>3, <2>4, <2>5
<1>3. fd[p] < 0 \/ fd[p] >= 0
  BY HasFdOrNot
<1> QED
  BY <1>1, <1>2, <1>3

LEMMA StartKeepaliveWatched ==
    ASSUME ThreadType, WatchedAllocated, allocated \in Nat, NEW f, NEW PL, start_keepalive(f, PL)
    PROVE  \A t \in Threads : thread'[t].p <= allocated
<1>1. UNCHANGED thread \/ \E t \in Threads : thread' = [thread EXCEPT ![t] = Created(f)]
  BY DEF start_keepalive, Least
<1>2. Created(f).p = 0
  BY DEF Created
<1> QED
  BY <1>1, <1>2 DEF WatchedAllocated, ThreadType

\* p_hello gives a free name to a player, or its connection to the one who had it.
LEMMA HelloRegistry ==
    ASSUME RegInv, NEW p \in Structs, p <= allocated, fd[p] >= 0,
           NEW n \in Names \cup LongNames, p_hello(p, n)
    PROVE  RegOK' /\ WatchedAllocated'
<1> USE DEF RegInv, TypeInv, TypeOK, RegOK
<1>0. UNCHANGED <<allocated, client_socks>> /\ allocated \in Nat /\ fd[p] \in Slots
  BY DEF p_hello, StructType
<1>1. CASE UNCHANGED <<fd, name, regVars, conn, thread>>
  BY <1>0, <1>1, QuietStep DEF SameSockets, regVars, WatchedAllocated
<1>2. CASE /\ lookup_player_by_name(n, players, name) = {}
           /\ name' = [name EXCEPT ![p] = n]
           /\ \/ /\ conn' = Lost({fd[p]})
                 /\ UNCHANGED <<fd, regVars, thread>>
              \/ first_login(p, n)
              \/ /\ Reaches(fd[p])
                 /\ \E i \in lookup_dc_player(n) : login_again(p, n, i)
  <2>1. \A f \in Slots : players[f] # NoPlayer => name[players[f]] # n
    <3> DEFINE S == {g \in Slots : players[g] # NoPlayer /\ name[players[g]] = n}
    <3>1. Least(S) = {}
      BY <1>2 DEF lookup_player_by_name
    <3>2. S = {}
      BY <3>1, LeastExists, SlotsAreInts
    <3> QED
      BY <3>2
  <2>2. \A q \in Structs : name'[q] = IF q = p THEN n ELSE name[q]
    BY <1>2 DEF StructType
  <2>3. CASE /\ UNCHANGED <<fd, regVars>> /\ (UNCHANGED conn \/ conn' = Lost({fd[p]}))
             /\ WatchedAllocated'
    <3>1. SameSockets
      BY <1>0, <2>3, LostSameSockets
    <3>2. RegistryOK' /\ SocketsOK'
      BY <1>0, <2>3, <3>1 DEF RegistryOK, SocketsOK, SameSockets, regVars
    <3>4. RegistryAllocated'
      BY <1>0, <2>2, <2>3, StructsAreInts DEF regVars, RegistryAllocated
    <3>3. NamesUnique'
      BY <2>1, <2>2, <2>3 DEF NamesUnique, RegistryOK, regVars, RegType
    <3> QED
      BY <2>3, <3>2, <3>3, <3>4
  <2>4. ASSUME Reaches(fd[p]), NEW i \in lookup_dc_player(n), login_again(p, n, i)
        PROVE  RegOK' /\ WatchedAllocated'
    <3> DEFINE e == dc_players[i]
    <3>1. i \in Slots /\ e \in Structs /\ name[e] = n /\ fd[e] = -1 /\ e # p
      BY <1>0, SlotsAreInts DEF lookup_dc_player, Least, RegType, RegistryOK
    <3>2. /\ fd' = [fd EXCEPT ![e] = fd[p]]
          /\ players' = [players EXCEPT ![fd[p]] = e]
          /\ dc_players' = [dc_players EXCEPT ![i] = NoPlayer]
          /\ WatchedAllocated'
      BY <1>0, <2>4, StartKeepaliveWatched DEF login_again, WatchedAllocated
    <3>3. SameSockets
      <4>1. UNCHANGED conn \/ \E S : conn' = Lost(S)
        BY <2>4, AddToQueueConn DEF login_again
      <4> QED
        BY <1>0, <4>1, LostSameSockets DEF SameSockets
    <3>4. RegistryAllocated'
      <4>1. e <= allocated /\ 0 <= allocated
        BY <1>0, <3>1 DEF RegistryAllocated
      <4>2. \A f \in Slots : players'[f] <= allocated /\ dc_players'[f] <= allocated
        BY <3>1, <3>2, <4>1 DEF RegistryAllocated, RegType
      <4>3. \A q \in Structs : q > allocated => name'[q] = NewPlayer
        BY <1>0, <2>2, StructsAreInts DEF RegistryAllocated
      <4> QED
        BY <1>0, <4>2, <4>3 DEF RegistryAllocated
    <3>5. \A f \in Slots : players[f] # e
      BY <3>1, SlotsAreInts DEF RegistryOK
    <3>6. RegistryOK'
      <4>1. \A f \in Slots : players'[f] # NoPlayer => fd'[players'[f]] = f
        BY <1>0, <3>1, <3>2, <3>5 DEF RegistryOK, RegType, StructType
      <4>2. \A j \in Slots : dc_players'[j] # NoPlayer =>
               dc_players'[j] # e /\ dc_players'[j] = dc_players[j]
        BY <3>1, <3>2 DEF RegistryOK, RegType
      <4>3. \A j \in Slots : dc_players'[j] # NoPlayer => fd'[dc_players'[j]] = -1
        BY <3>2, <4>2 DEF RegistryOK, RegType, StructType
      <4>4. \A j, k \in Slots :
               dc_players'[j] # NoPlayer /\ dc_players'[j] = dc_players'[k] => j = k
        BY <4>2 DEF RegistryOK
      <4> QED
        BY <4>1, <4>3, <4>4 DEF RegistryOK
    <3>7. NamesUnique'
      <4>1. \A f \in Slots \ {fd[p]} : players'[f] = players[f]
                                      /\ (players[f] # NoPlayer => players[f] # p)
        BY <3>2 DEF RegistryOK, RegType
      <4>2. \A f \in Slots \ {fd[p]} : players'[f] # NoPlayer =>
               name'[players'[f]] = name[players[f]] /\ name[players[f]] # n
        BY <2>1, <2>2, <4>1 DEF RegType
      <4>3. players'[fd[p]] = e /\ name'[e] = n
        BY <1>0, <2>2, <3>1, <3>2 DEF RegType
      <4> QED
        BY <4>1, <4>2, <4>3 DEF NamesUnique
    <3>8. SocketsOK'
      <4>1. fd[p] \in Fds /\ conn[fd[p]] # "closed"
        BY <2>4 DEF Reaches
      <4>2. players[fd[p]] # NoPlayer
        BY <1>0, <4>1 DEF SocketsOK
      <4>3. \A f \in Slots : players'[f] # NoPlayer <=> players[f] # NoPlayer
        BY <1>0, <3>1, <3>2, <4>2, SlotsAreInts DEF RegType
      <4> QED
        BY <3>3, <4>3 DEF SocketsOK, SameSockets
    <3> QED
      BY <3>2, <3>4, <3>6, <3>7, <3>8
  <2>5. CASE first_login(p, n)
    BY <1>0, <2>3, <2>5, StartKeepaliveWatched DEF first_login, WatchedAllocated
  <2>6. CASE conn' = Lost({fd[p]}) /\ UNCHANGED <<fd, regVars, thread>>
    BY <1>0, <2>3, <2>6 DEF WatchedAllocated
  <2> QED
    BY <1>2, <2>4, <2>5, <2>6
<1> QED
  BY <1>1, <1>2 DEF p_hello

\* Every other handler leaves the registry alone.
LEMMA QuietHandler ==
    ASSUME RegInv, keepSession, UNCHANGED thread, UNCHANGED conn \/ \E S : conn' = Lost(S)
    PROVE  RegOK' /\ WatchedAllocated'
<1>1. UNCHANGED <<players, dc_players, fd, name, allocated, client_socks>>
  BY DEF keepSession, regVars
<1>2. SameSockets
  BY <1>1, LostSameSockets DEF RegInv, TypeInv, TypeOK
<1> QED
  BY <1>1, <1>2, QuietStep DEF RegInv, WatchedAllocated

LEMMA HandlePacketRegistry ==
    ASSUME RegInv, NEW p \in Structs, p <= allocated, HandlePacket(p)
    PROVE  RegOK' /\ WatchedAllocated'
<1>1. CASE UNCHANGED <<structVars, regVars, sockVars, thread>>
  BY <1>1, QuietStep
     DEF SameSockets, structVars, regVars, sockVars, RegInv, WatchedAllocated
<1>2. ASSUME fd[p] >= 0, NEW n \in Names \cup LongNames, p_hello(p, n)
      PROVE  RegOK' /\ WatchedAllocated'
  BY <1>2, HelloRegistry
<1>3. CASE p_queue(p)
  <2>1. UNCHANGED conn \/ \E S : conn' = Lost(S)
    BY <1>3, AddToQueueConn DEF p_queue
  <2> QED
    BY <1>3, <2>1, QuietHandler DEF p_queue
<1>4. CASE p_leave_queue(p)
  BY <1>4, QuietHandler DEF p_leave_queue
<1>5. ASSUME NEW k, play_packet(p, k) PROVE RegOK' /\ WatchedAllocated'
  <2>1. UNCHANGED conn
    BY <1>5 DEF play_packet, finish_game
  <2> QED
    BY <1>5, <2>1, QuietHandler DEF play_packet
<1>6. CASE p_keepalive(p)
  BY <1>6, QuietHandler DEF p_keepalive
<1> QED
  BY <1>1, <1>2, <1>3, <1>4, <1>5, <1>6 DEF HandlePacket

\* The struct of a new client is in no table yet, and neither is its descriptor.
LEMMA NewClientRegistry ==
    ASSUME RegInv, handle_new_client
    PROVE  RegOK' /\ UNCHANGED halt
<1> USE DEF RegInv, TypeInv, TypeOK, RegOK
<1> DEFINE new == allocated + 1
<1>1. PICK f \in Fds :
         /\ conn[f] = "closed"
         /\ client_socks' = client_socks \cup {f}
         /\ conn' = [conn EXCEPT ![f] = "up"]
         /\ \/ /\ f \in Slots /\ players[f] # NoPlayer
            \/ /\ f \notin Slots
               /\ UNCHANGED <<halt, allocated, players, fd>>
            \/ /\ f \in Slots /\ allocated < MaxStructs
               /\ allocated' = new
               /\ players' = [players EXCEPT ![f] = new]
               /\ fd' = [fd EXCEPT ![new] = f]
               /\ UNCHANGED halt
  BY DEF handle_new_client, Least
<1>2. UNCHANGED <<dc_players, name>>
  BY DEF handle_new_client
<1>3. \A g \in Fds : conn'[g] = "closed" <=> conn[g] = "closed" /\ g # f
  BY <1>1 DEF SockType
<1>4. f \in Slots => players[f] = NoPlayer
  BY <1>1 DEF SocketsOK
<1>5. CASE f \notin Slots /\ UNCHANGED <<halt, allocated, players, fd>>
  <2>1. RegistryAllocated' /\ RegistryOK' /\ NamesUnique'
    BY <1>2, <1>5 DEF RegistryAllocated, RegistryOK, NamesUnique
  <2>2. SocketsOK'
    BY <1>1, <1>3, <1>5 DEF SocketsOK
  <2> QED
    BY <1>5, <2>1, <2>2
<1>6. CASE /\ f \in Slots /\ allocated < MaxStructs
           /\ allocated' = new
           /\ players' = [players EXCEPT ![f] = new]
           /\ fd' = [fd EXCEPT ![new] = f]
           /\ UNCHANGED halt
  <2>1. new \in Structs /\ allocated \in Nat /\ new > allocated /\ new # NoPlayer
    BY <1>6, BoundAssumption DEF StructType, Structs
  <2>2. \A g \in Slots : players[g] # new /\ dc_players[g] # new
    BY <2>1 DEF RegistryAllocated
  <2>3. name[new] = NewPlayer
    BY <2>1 DEF RegistryAllocated
  <2>4. RegistryAllocated'
    <3>1. \A g \in Slots : players'[g] <= new /\ dc_players'[g] <= new
      <4>1. \A g \in Slots : players[g] \in Nat /\ dc_players[g] \in Nat
        <5>1. Structs \cup {NoPlayer} \subseteq Nat
          BY StructsAreInts
        <5> QED
          BY <5>1 DEF RegType
      <4>2. \A g \in Slots : players[g] <= new /\ dc_players[g] <= new
        BY <2>1, <4>1 DEF RegistryAllocated
      <4> QED
        BY <1>2, <1>6, <2>1, <4>2 DEF RegType
    <3>2. \A p \in Structs : p > new => name'[p] = NewPlayer
      <4>1. \A p \in Structs : p > new => p > allocated
        BY <2>1, StructsAreInts
      <4> QED
        BY <1>2, <4>1 DEF RegistryAllocated
    <3> QED
      BY <1>6, <3>1, <3>2 DEF RegistryAllocated
  <2>5. RegistryOK'
    BY <1>2, <1>6, <2>1, <2>2 DEF RegistryOK, RegType, StructType
  <2>6. NamesUnique'
    BY <1>2, <1>6, <2>3 DEF NamesUnique, RegType
  <2>7. SocketsOK'
    BY <1>1, <1>3, <1>6, <2>1 DEF SocketsOK, RegType, SockType
  <2> QED
    BY <1>6, <2>4, <2>5, <2>6, <2>7
<1> QED
  BY <1>1, <1>4, <1>5, <1>6

\* A handler may end the process by a bad index, never by exit.
LEMMA HandlePacketHalt ==
    ASSUME NEW p, HandlePacket(p)
    PROVE  UNCHANGED halt \/ (fd[p] < 0 /\ halt' = "segv")
<1>1. \A r : Return(r) => UNCHANGED halt
  BY DEF Return
<1>2. ASSUME NEW q, NEW PL, NEW F, NEW N, NEW V, NEW r, add_to_queue(q, PL, F, N, V, r)
      PROVE  UNCHANGED halt
  <2>1. \A op : game_create(q, op, r) => UNCHANGED halt
    BY <1>1 DEF game_create
  <2> QED
    BY <1>1, <1>2, <2>1 DEF add_to_queue, look_for_opponent
<1>3. \A n : p_hello(p, n) => UNCHANGED halt
  BY <1>1, <1>2 DEF p_hello, first_login, login_again
<1>4. p_queue(p) => UNCHANGED halt
  BY <1>2 DEF p_queue
<1>5. p_leave_queue(p) => UNCHANGED halt
  BY <1>1 DEF p_leave_queue
<1>6. \A k : play_packet(p, k) => UNCHANGED halt
  BY <1>1 DEF play_packet
<1>7. p_keepalive(p) => UNCHANGED halt
  BY <1>1 DEF p_keepalive
<1> QED
  BY <1>1, <1>3, <1>4, <1>5, <1>6, <1>7 DEF HandlePacket

LEMMA HandlePacketAllocated ==
    ASSUME NEW p, HandlePacket(p)
    PROVE  UNCHANGED allocated
BY DEF HandlePacket, p_hello, p_queue, p_leave_queue, play_packet, p_keepalive, keepSession,
       structVars

\* The owner of a descriptor is a struct, and the registered one if there is one.
LEMMA OwnerRegistered ==
    ASSUME RegInv, NEW f \in Fds, NEW p \in Owner(f)
    PROVE  /\ p \in Structs /\ p <= allocated
           /\ f \in Slots /\ players[f] # NoPlayer => p = players[f]
<1> USE DEF RegInv, TypeInv, TypeOK, RegOK
<1>1. CASE lookup_player_by_fd(f, players) = {}
  BY <1>1 DEF Owner, MainType, ServedAllocated, lookup_player_by_fd
<1>2. CASE lookup_player_by_fd(f, players) # {}
  <2>1. p \in lookup_player_by_fd(f, players)
    BY <1>2 DEF Owner
  <2>2. p \in Structs /\ f \in Slots /\ players[f] = p
    BY <2>1, LookupByFd DEF RegType
  <2> QED
    BY <2>2 DEF RegistryAllocated
<1> QED
  BY <1>1, <1>2

LEMMA MainStepRegistry ==
    ASSUME RegInv, main
    PROVE  /\ RegOK' /\ ServedAllocated' /\ WatchedAllocated'
           /\ UNCHANGED halt \/ halt' = "segv"
<1> USE DEF RegInv
<1>1. CASE handle_new_client
  <2>1. ServedAllocated' /\ WatchedAllocated'
    <3>1. allocated' = allocated \/ allocated' = allocated + 1
      BY <1>1 DEF handle_new_client
    <3>2. UNCHANGED <<player, thread>> /\ allocated \in Nat
      BY <1>1 DEF handle_new_client, TypeInv, TypeOK, StructType
    <3>3. player \in Nat /\ \A t \in Threads : thread[t].p \in Nat
      <4>1. Structs \cup {NoPlayer} \subseteq Nat
        BY StructsAreInts
      <4> QED
        BY <4>1 DEF TypeInv, TypeOK, MainType, ThreadType, ThreadStates
    <3> QED
      BY <3>1, <3>2, <3>3 DEF ServedAllocated, WatchedAllocated
  <2> QED
    BY <1>1, <2>1, NewClientRegistry
<1>2. ASSUME NEW f \in Fds, read_packet(f)
      PROVE  /\ RegOK' /\ ServedAllocated' /\ WatchedAllocated'
             /\ UNCHANGED halt \/ halt' = "segv"
  <2>1. PICK p \in Owner(f) : player' = p /\ HandlePacket(p)
    BY <1>2 DEF read_packet
  <2>2. p \in Structs /\ p <= allocated /\ UNCHANGED allocated
    BY <2>1, OwnerRegistered, HandlePacketAllocated
  <2> QED
    BY <2>1, <2>2, HandlePacketRegistry, HandlePacketHalt DEF ServedAllocated
<1>3. CASE read_next_packet
  <2>1. /\ player \in Structs /\ HandlePacket(player)
        /\ UNCHANGED <<player, allocated>>
    BY <1>3, HandlePacketAllocated DEF read_next_packet, TypeInv, ServingSomeone
  <2> QED
    BY <2>1, HandlePacketRegistry, HandlePacketHalt DEF ServedAllocated
<1>4. CASE buffer_rest
  BY <1>4, QuietStep
     DEF buffer_rest, SameSockets, structVars, regVars, sockVars, ServedAllocated,
         WatchedAllocated
<1>5. ASSUME NEW f \in Fds, read_eof(f)
      PROVE  RegOK' /\ ServedAllocated' /\ WatchedAllocated' /\ UNCHANGED halt
  <2>1. PICK p \in Owner(f) :
           player' = p /\ disconnect(p, FALSE, client_socks \ {f}, invalid_sends)
    BY <1>5 DEF read_eof
  <2>2. /\ p \in Structs /\ p <= allocated
        /\ f \in Slots /\ players[f] # NoPlayer => p = players[f]
    BY <2>1, OwnerRegistered
  <2>3. \A g \in Fds \cap Slots : g \in client_socks \ (client_socks \ {f}) => fd[p] = g
    BY <2>2 DEF RegOK, SocketsOK, RegistryOK
  <2>4. invalid_sends \in [Structs -> Nat]
    BY DEF TypeInv, TypeOK, StructType
  <2>5. RegOK'
    BY <2>1, <2>2, <2>3, <2>4, DisconnectRegistry
  <2> QED
    BY <1>5, <2>1, <2>2, <2>5
       DEF read_eof, disconnect, ServedAllocated, WatchedAllocated
<1>6. CASE invalid_data
  <2> DEFINE inv == [invalid_sends EXCEPT ![player] = @ + 1]
  <2>1. player \in Structs
    BY <1>6 DEF invalid_data, TypeInv, ServingSomeone
  <2>2. inv \in [Structs -> Nat]
    BY <2>1 DEF TypeInv, TypeOK, StructType
  <2>3. CASE UNCHANGED <<fd, name, allocated, regVars, sockVars, halt>>
    BY <1>6, <2>3, QuietStep
       DEF invalid_data, SameSockets, regVars, sockVars, ServedAllocated, WatchedAllocated
  <2>4. CASE disconnect(player, TRUE, client_socks, inv) /\ UNCHANGED halt
    <3>1. RegOK'
      BY <2>1, <2>2, <2>4, DisconnectRegistry DEF ServedAllocated
    <3> QED
      BY <1>6, <2>4, <3>1 DEF invalid_data, disconnect, ServedAllocated, WatchedAllocated
  <2> QED
    BY <1>6, <2>3, <2>4 DEF invalid_data, Return
<1> QED
  BY <1>1, <1>2, <1>3, <1>4, <1>5, <1>6, NewClientRegistry DEF main

LEMMA KeepaliveStepRegistry ==
    ASSUME RegInv, NEW t \in Threads, keepalive(t)
    PROVE  RegOK' /\ ServedAllocated' /\ WatchedAllocated' /\ UNCHANGED halt
<1> USE DEF RegInv
<1>0. UNCHANGED <<player, allocated, halt>>
  BY DEF keepalive, keepalive_start, keepalive_loop, mainVars, disconnect, structVars
<1>1. Idle.p <= allocated /\ \A p : Looking(p, 0).p = p
  BY DEF Idle, Looking, TypeInv, TypeOK, StructType
<1>2. CASE keepalive_start(t)
  <2>1. RegOK'
    BY <1>2, QuietStep DEF keepalive_start, SameSockets, regVars, sockVars
  <2>2. \A u \in Threads : thread'[u].p <= allocated
    <3>1. CASE thread' = [thread EXCEPT ![t] = Idle]
      BY <1>1, <3>1 DEF WatchedAllocated, TypeInv, TypeOK, ThreadType
    <3>2. ASSUME NEW p \in lookup_player_by_fd(thread[t].fd, players),
                 thread' = [thread EXCEPT ![t] = Looking(p, 0)]
          PROVE  \A u \in Threads : thread'[u].p <= allocated
      <4>1. p <= allocated
        BY <3>2, LookupByFd DEF TypeInv, TypeOK, RegType, RegOK, RegistryAllocated
      <4> QED
        BY <1>1, <3>2, <4>1 DEF WatchedAllocated, TypeInv, TypeOK, ThreadType
    <3> QED
      BY <1>2, <3>1, <3>2 DEF keepalive_start
  <2> QED
    BY <1>0, <2>1, <2>2 DEF ServedAllocated, WatchedAllocated
<1>3. CASE keepalive_loop(t)
  <2>1. PICK p \in Watched(t) :
           LET th == Looking(p, WatchedAge(t, p)) IN
           /\ \/ disconnect(p, TRUE, client_socks, invalid_sends)
              \/ disconnect(p, FALSE, client_socks, invalid_sends)
              \/ UNCHANGED <<structVars, regVars, sockVars>>
           /\ thread' = [thread EXCEPT ![t] = Idle] \/ thread' = [thread EXCEPT ![t] = th]
    BY <1>3 DEF keepalive_loop
  <2>2. p \in Structs /\ p <= allocated
    <3>1. thread[t].p \in Structs /\ thread[t].p <= allocated
      BY <1>3 DEF keepalive_loop, TypeInv, WatchingSomeone, WatchedAllocated
    <3>2. CASE p = thread[t].p
      BY <3>1, <3>2
    <3>3. CASE p \in lookup_player_by_fd(fd[thread[t].p], players)
      BY <3>3, LookupByFd DEF TypeInv, TypeOK, RegType, RegOK, RegistryAllocated
    <3> QED
      BY <2>1, <3>2, <3>3 DEF Watched
  <2>3. RegOK'
    <3>1. CASE \E b \in BOOLEAN : disconnect(p, b, client_socks, invalid_sends)
      <4>1. invalid_sends \in [Structs -> Nat]
        BY DEF TypeInv, TypeOK, StructType
      <4> QED
        BY <2>2, <3>1, <4>1, DisconnectRegistry
    <3>2. CASE UNCHANGED <<structVars, regVars, sockVars>>
      BY <3>2, QuietStep DEF SameSockets, structVars, regVars, sockVars
    <3> QED
      BY <2>1, <3>1, <3>2
  <2>4. \A u \in Threads : thread'[u].p <= allocated
    <3> DEFINE th == Looking(p, WatchedAge(t, p))
    <3>1. th.p = p
      BY DEF Looking
    <3>2. CASE thread' = [thread EXCEPT ![t] = Idle]
      BY <1>1, <3>2 DEF WatchedAllocated, TypeInv, TypeOK, ThreadType
    <3>3. CASE thread' = [thread EXCEPT ![t] = th]
      BY <2>2, <3>1, <3>3 DEF WatchedAllocated, TypeInv, TypeOK, ThreadType
    <3> QED
      BY <2>1, <3>2, <3>3
  <2> QED
    BY <1>0, <2>3, <2>4 DEF ServedAllocated, WatchedAllocated
<1> QED
  BY <1>2, <1>3 DEF keepalive

LEMMA EnvironmentStepRegistry ==
    ASSUME RegInv, tick \/ \E f \in Fds : peer_closes(f)
    PROVE  RegOK' /\ ServedAllocated' /\ WatchedAllocated' /\ UNCHANGED halt
<1> USE DEF RegInv
<1>1. CASE \E f \in Fds : peer_closes(f)
  <2>1. SameSockets
    BY <1>1 DEF peer_closes, SameSockets, TypeInv, TypeOK, SockType
  <2> QED
    BY <1>1, <2>1, QuietStep
       DEF peer_closes, mainVars, structVars, regVars, ServedAllocated, WatchedAllocated
<1>2. CASE tick
  <2>1. \A t \in Threads : [thread[t] EXCEPT !.age = Older(@)].p = thread[t].p
    BY DEF TypeInv, TypeOK, ThreadType, ThreadStates
  <2>2. RegOK'
    BY <1>2, QuietStep DEF tick, SameSockets, regVars, sockVars
  <2> QED
    BY <1>2, <2>1, <2>2 DEF tick, mainVars, ServedAllocated, WatchedAllocated
<1> QED
  BY <1>1, <1>2

LEMMA InitRegistry == Init => RegInv
<1> SUFFICES ASSUME Init PROVE RegInv
  OBVIOUS
<1>1. RegistryAllocated /\ RegistryOK /\ NamesUnique /\ SocketsOK
  BY DEF Init, RegistryAllocated, RegistryOK, NamesUnique, SocketsOK
<1>2. ServedAllocated /\ WatchedAllocated
  BY DEF Init, ServedAllocated, WatchedAllocated, Idle
<1> QED
  BY <1>1, <1>2, InitType DEF RegInv, RegOK

LEMMA StepRegistry ==
    RegInv /\ [Next]_vars => RegInv' /\ (halt' = halt \/ halt' = "segv")
<1> SUFFICES ASSUME RegInv, [Next]_vars PROVE RegInv' /\ (halt' = halt \/ halt' = "segv")
  OBVIOUS
<1>1. TypeInv'
  BY StepType DEF RegInv
<1>2. RegOK' /\ ServedAllocated' /\ WatchedAllocated' /\ (halt' = halt \/ halt' = "segv")
  <2>1. CASE Next
    BY <2>1, MainStepRegistry, KeepaliveStepRegistry, EnvironmentStepRegistry DEF Next
  <2>2. CASE UNCHANGED vars
    BY <2>2, QuietStep
       DEF vars, mainVars, structVars, regVars, sockVars, SameSockets, RegInv,
           ServedAllocated, WatchedAllocated
  <2> QED
    BY <2>1, <2>2
<1> QED
  BY <1>1, <1>2 DEF RegInv

\* The two tables of players and the descriptors of the structs agree in every reachable
\* state: a player is registered under the descriptor it carries, or stored once.
THEOREM RegistryCorrect == Spec => []RegistryOK
<1>1. RegInv => RegistryOK
  BY DEF RegInv, RegOK
<1> QED
  BY <1>1, InitRegistry, StepRegistry, PTL DEF Spec

\* p_hello and the return of a player never put two connected players under one name.
THEOREM NamesCorrect == Spec => []NamesUnique
<1>1. RegInv => NamesUnique
  BY DEF RegInv, RegOK
<1> QED
  BY <1>1, InitRegistry, StepRegistry, PTL DEF Spec

\* Below the limit, open sockets, selected descriptors and registered players coincide.
THEOREM SocketsCorrect == Spec => []SocketsOK
<1>1. RegInv => SocketsOK
  BY DEF RegInv, RegOK
<1> QED
  BY <1>1, InitRegistry, StepRegistry, PTL DEF Spec

---------------------------------------------------------------------------
\* The buffers.  While a buffer is being parsed its player has a descriptor: no other thread
\* disconnects players, and the handlers leave whom they serve his descriptor.

BufferServed ==
    /\ pc = "parse" => Pipelined
    /\ Pipelined /\ pc # "select" => fd[player] >= 0

LEMMA HandlerReturns ==
    ASSUME TypeOK, NEW p \in Structs, HandlePacket(p), fd[p] >= 0
    PROVE  pc' \in {"select", "inval"} \/ Pipelined
<1> DEFINE Returned == pc' \in {"select", "inval"} \/ Pipelined
<1>1. \A r : Return(r) => Returned
  BY DEF Return
<1>2. ASSUME NEW q, NEW PL, NEW F, NEW N, NEW V, NEW r, add_to_queue(q, PL, F, N, V, r)
      PROVE  Returned
  <2>1. \A op : game_create(q, op, r) => Returned
    BY <1>1 DEF game_create
  <2> QED
    BY <1>1, <1>2, <2>1 DEF add_to_queue, look_for_opponent
<1>3. ~(fd[p] < 0)
  BY HasFdOrNot DEF TypeOK
<1> HIDE DEF Returned
<1>4. \A n : p_hello(p, n) => Returned
  BY <1>1, <1>2 DEF p_hello, first_login, login_again
<1>5. p_queue(p) => Returned
  BY <1>2 DEF p_queue
<1>6. p_leave_queue(p) \/ (\E k : play_packet(p, k)) \/ p_keepalive(p) => Returned
  BY <1>1 DEF p_leave_queue, play_packet, p_keepalive
<1>7. Returned
  BY <1>1, <1>3, <1>4, <1>5, <1>6 DEF HandlePacket
<1> QED
  BY <1>7 DEF Returned

LEMMA HandlerKeepsFd ==
    ASSUME TypeOK, NEW p \in Structs, HandlePacket(p), fd[p] >= 0
    PROVE  fd'[p] >= 0
<1> USE DEF TypeOK, StructType, RegType
<1>1. CASE UNCHANGED fd
  BY <1>1
<1>2. ASSUME NEW n, p_hello(p, n) PROVE fd'[p] >= 0
  <2>1. ASSUME NEW i \in lookup_dc_player(n), login_again(p, n, i) PROVE fd'[p] >= 0
    BY <2>1 DEF login_again
  <2> QED
    BY <1>1, <1>2, <2>1 DEF p_hello, first_login
<1> QED
  BY <1>1, <1>2
     DEF HandlePacket, p_queue, p_leave_queue, play_packet, p_keepalive, keepSession, structVars

LEMMA BufferStep ==
    ASSUME LastFd < MaxPlayers, Pipelined = FALSE \/ NumThreads = 0, RegInv, BufferServed,
           NeverHalts, [Next]_vars
    PROVE  NeverHalts' /\ BufferServed'
<1> USE DEF RegInv, TypeInv, TypeOK, NeverHalts
<1>1. ASSUME NEW p \in Structs, fd[p] >= 0, HandlePacket(p), player' = p
      PROVE  NeverHalts' /\ BufferServed'
  <2>1. ~(fd[p] < 0)
    BY <1>1, HasFdOrNot
  <2>2. UNCHANGED halt
    BY <1>1, <2>1, HandlePacketHalt
  <2>3. BufferServed'
    BY <1>1, HandlerReturns, HandlerKeepsFd, PipelinedAssumption DEF BufferServed
  <2> QED
    BY <2>2, <2>3
<1>2. CASE handle_new_client
  <2>1. pc = "select" /\ UNCHANGED pc
    BY <1>2 DEF handle_new_client
  <2> QED
    BY <1>2, <2>1, NewClientRegistry DEF BufferServed
<1>3. ASSUME NEW f \in Fds, read_packet(f) PROVE NeverHalts' /\ BufferServed'
  <2>1. PICK p \in Owner(f) : player' = p /\ HandlePacket(p)
    BY <1>3 DEF read_packet
  <2>2. f \in Slots
    BY LimitAssumption, BoundAssumption DEF Fds, Slots
  <2>3. players[f] # NoPlayer
    BY <1>3, <2>2 DEF read_packet, RegOK, SocketsOK
  <2>4. p \in Structs /\ fd[p] = f
    BY <2>1, <2>2, <2>3, OwnerRegistered DEF RegOK, RegistryOK
  <2>5. fd[p] >= 0
    BY <2>2, <2>4, SlotsAreInts
  <2> QED
    BY <1>1, <2>1, <2>4, <2>5
<1>4. CASE read_next_packet
  <2>1. player \in Structs /\ fd[player] >= 0
    BY <1>4 DEF read_next_packet, ServingSomeone, BufferServed
  <2> QED
    BY <1>1, <1>4, <2>1 DEF read_next_packet
<1>5. CASE UNCHANGED halt /\ pc' = "select"
  BY <1>5 DEF BufferServed
<1>6. CASE invalid_data
  <2>1. CASE UNCHANGED fd /\ Return("ok")
    BY <1>6, <2>1, PipelinedAssumption DEF invalid_data, Return, BufferServed
  <2> QED
    BY <1>5, <1>6, <2>1 DEF invalid_data
<1>7. CASE UNCHANGED <<halt, pc, player, fd>>
  BY <1>7 DEF BufferServed
<1>8. ASSUME NEW t \in Threads, keepalive(t) PROVE NeverHalts' /\ BufferServed'
  <2>1. Pipelined = FALSE
    BY <1>8 DEF Threads
  <2>2. UNCHANGED <<halt, pc, player>>
    BY <1>8 DEF keepalive, keepalive_start, keepalive_loop, mainVars
  <2> QED
    BY <2>1, <2>2 DEF BufferServed
<1>9. ASSUME NEW f \in Fds, read_eof(f) PROVE UNCHANGED halt /\ pc' = "select"
  BY <1>9 DEF read_eof
<1> QED
  BY <1>2, <1>3, <1>4, <1>5, <1>6, <1>7, <1>8, <1>9
     DEF Next, main, buffer_rest, peer_closes, tick, vars, mainVars, structVars

\* With a player for every client, and with either one packet to a read or no thread that
\* disconnects players, the loop never indexes its buffers with -1, and the process never ends.
THEOREM NeverHaltsCorrect ==
    ASSUME LastFd < MaxPlayers, Pipelined = FALSE \/ NumThreads = 0
    PROVE  Spec => []NeverHalts
<1>1. Init => NeverHalts /\ BufferServed
  BY DEF Init, NeverHalts, BufferServed
<1>2. RegInv /\ BufferServed /\ NeverHalts /\ [Next]_vars => NeverHalts' /\ BufferServed'
  <2>1. LastFd < MaxPlayers /\ (Pipelined = FALSE \/ NumThreads = 0)
    OBVIOUS
  <2> QED
    BY <2>1, BufferStep
<1> QED
  BY <1>1, <1>2, InitRegistry, StepRegistry, PTL DEF Spec

---------------------------------------------------------------------------
\* The queue: a flag is set by look_for_opponent alone, and only after it has cleared those
\* of all others; every other step at most clears flags.

FlagsOnlyClear == \A i \in Slots : queue'[i] => queue[i]

WaitInv == TypeInv /\ AtMostOneWaiting

LEMMA ClearedFlags ==
    ASSUME WaitInv, FlagsOnlyClear
    PROVE  AtMostOneWaiting'
BY DEF WaitInv, AtMostOneWaiting, FlagsOnlyClear

LEMMA SameFlags == UNCHANGED queueVars => FlagsOnlyClear
BY DEF queueVars, FlagsOnlyClear

\* If nobody flagged can be matched, every flag but the player's own is cleared.
LEMMA LookForOpponentWaiting ==
    ASSUME WaitInv, NEW p, NEW id \in Slots \cup {-1}, NEW PL, NEW F, NEW N, NEW V, NEW rval,
           look_for_opponent(p, id, PL, F, N, V, rval)
    PROVE  AtMostOneWaiting'
<1> DEFINE key      == KeyStored(id, N[p])
           there(i) == lookup_player_by_name(key[i], PL, N)
           found    == {i \in Flagged(id) : there(i) # {}}
           match    == Least(found)
           gone     == {i \in Flagged(id) : there(i) = {} /\ \A m \in match : i < m}
<1>1. DOMAIN queue = Slots \cup {-1}
  BY DEF WaitInv, TypeInv, TypeOK, QueueType
<1>2. \/ match = {} /\ queue' = [i \in DOMAIN queue |-> i = id \/ (queue[i] /\ i \notin gone)]
      \/ \E i : queue' = [j \in DOMAIN queue |-> j # id /\ j # i /\ queue[j] /\ j \notin gone]
  BY DEF look_for_opponent
<1>3. CASE match = {} /\ queue' = [i \in DOMAIN queue |-> i = id \/ (queue[i] /\ i \notin gone)]
  <2>1. found \in SUBSET Nat
    BY SlotsAreInts DEF Flagged
  <2>2. found = {}
    BY <1>3, <2>1, LeastExists
  <2>3. \A i \in Slots : queue[i] /\ i # id => i \in gone
    BY <1>3, <2>2 DEF Flagged
  <2>4. \A i \in Slots : queue'[i] => i = id
    BY <1>1, <1>3, <2>3
  <2> QED
    BY <2>4 DEF AtMostOneWaiting
<1>4. CASE \E i : queue' = [j \in DOMAIN queue |-> j # id /\ j # i /\ queue[j] /\ j \notin gone]
  <2>1. FlagsOnlyClear
    BY <1>1, <1>4 DEF FlagsOnlyClear
  <2> QED
    BY <2>1, ClearedFlags
<1> QED
  BY <1>2, <1>3, <1>4

LEMMA AddToQueueWaiting ==
    ASSUME WaitInv, NEW p, NEW PL, NEW F, NEW N, NEW V, NEW rval,
           add_to_queue(p, PL, F, N, V, rval)
    PROVE  AtMostOneWaiting'
<1>1. \/ UNCHANGED queue
      \/ \E id \in Slots \cup {-1} : look_for_opponent(p, id, PL, F, N, V, rval)
  BY QueueIndex DEF add_to_queue
<1>2. UNCHANGED queue => FlagsOnlyClear
  BY DEF FlagsOnlyClear
<1> QED
  BY <1>1, <1>2, ClearedFlags, LookForOpponentWaiting

\* remove_from_queue clears the flag of one index.
LEMMA ClearedFlag ==
    ASSUME WaitInv, NEW id, queue' = [queue EXCEPT ![id] = FALSE]
    PROVE  FlagsOnlyClear
BY DEF FlagsOnlyClear, WaitInv, TypeInv, TypeOK, QueueType

LEMMA DisconnectClears ==
    ASSUME WaitInv, NEW p, NEW final, NEW socks, NEW inv, disconnect(p, final, socks, inv)
    PROVE  AtMostOneWaiting'
<1>1. UNCHANGED queueVars \/ \E id : queue' = [queue EXCEPT ![id] = FALSE]
  BY DEF disconnect, RemovedFromQueue, queueVars
<1> QED
  BY <1>1, SameFlags, ClearedFlag, ClearedFlags

LEMMA HandlePacketWaiting ==
    ASSUME WaitInv, NEW p, HandlePacket(p)
    PROVE  AtMostOneWaiting'
<1> USE SameFlags, ClearedFlags
<1>1. ASSUME NEW n, p_hello(p, n) PROVE AtMostOneWaiting'
  <2>1. \/ UNCHANGED queueVars
        \/ \E q, PL, F, N, V : add_to_queue(q, PL, F, N, V, "ok")
    BY <1>1 DEF p_hello, first_login, login_again, queueVars
  <2> QED
    BY <2>1, AddToQueueWaiting
<1>2. CASE p_queue(p)
  BY <1>2, AddToQueueWaiting DEF p_queue
<1>3. CASE p_leave_queue(p)
  BY <1>3, ClearedFlag DEF p_leave_queue
<1>4. ASSUME NEW k, play_packet(p, k) PROVE AtMostOneWaiting'
  BY <1>4 DEF play_packet
<1>5. CASE p_keepalive(p)
  BY <1>5 DEF p_keepalive
<1> QED
  BY <1>1, <1>2, <1>3, <1>4, <1>5 DEF HandlePacket

LEMMA StepWaiting == WaitInv /\ [Next]_vars => WaitInv'
<1> SUFFICES ASSUME WaitInv, [Next]_vars PROVE AtMostOneWaiting'
  BY StepType DEF WaitInv
<1> USE SameFlags, ClearedFlags
<1>1. CASE handle_new_client
  BY <1>1 DEF handle_new_client
<1>2. ASSUME NEW f \in Fds, read_packet(f) PROVE AtMostOneWaiting'
  BY <1>2, HandlePacketWaiting DEF read_packet
<1>3. ASSUME NEW f \in Fds, read_eof(f) PROVE AtMostOneWaiting'
  BY <1>3, DisconnectClears DEF read_eof
<1>4. CASE read_next_packet
  BY <1>4, HandlePacketWaiting DEF read_next_packet
<1>5. CASE buffer_rest
  BY <1>5 DEF buffer_rest
<1>6. CASE invalid_data
  BY <1>6, DisconnectClears DEF invalid_data
<1>7. ASSUME NEW t \in Threads, keepalive_start(t) PROVE AtMostOneWaiting'
  BY <1>7 DEF keepalive_start
<1>8. ASSUME NEW t \in Threads, keepalive_loop(t) PROVE AtMostOneWaiting'
  BY <1>8, DisconnectClears DEF keepalive_loop
<1>9. ASSUME NEW f \in Fds, peer_closes(f) PROVE AtMostOneWaiting'
  BY <1>9 DEF peer_closes
<1>10. CASE tick
  BY <1>10 DEF tick
<1>11. CASE UNCHANGED vars
  BY <1>11 DEF vars
<1> QED
  BY <1>1, <1>2, <1>3, <1>4, <1>5, <1>6, <1>7, <1>8, <1>9, <1>10, <1>11
     DEF Next, main, keepalive

\* Whoever joins the queue is paired with the one who waits, or clears what players who
\* are gone have left behind: two never wait at once.
THEOREM WaitingCorrect == Spec => []AtMostOneWaiting
<1>1. Init => WaitInv
  <2>1. Init => AtMostOneWaiting
    BY DEF Init, AtMostOneWaiting
  <2> QED
    BY <2>1, InitType DEF WaitInv
<1>2. WaitInv => AtMostOneWaiting
  BY DEF WaitInv
<1> QED
  BY <1>1, <1>2, StepWaiting, PTL DEF Spec

---------------------------------------------------------------------------
\* The free slot: a game enters the table in game_create alone; every other step leaves the
\* free index alone and at most ends games.

GamesOnlyEnd ==
    /\ UNCHANGED free_game_index
    /\ \A i \in GameSlots : games'[i] = games[i] \/ games'[i] = NoGame

FreeInv == TypeInv /\ FreeSlotIsFree

LEMMA EndedGamesAreFree ==
    ASSUME FreeInv, GamesOnlyEnd
    PROVE  FreeSlotIsFree'
<1>1. free_game_index >= 0 => free_game_index \in GameSlots
  BY DEF FreeInv, TypeInv, TypeOK, GameType
<1> QED
  BY <1>1 DEF FreeInv, FreeSlotIsFree, GamesOnlyEnd

LEMMA SameGamesOnlyEnd == UNCHANGED gameVars => GamesOnlyEnd
BY DEF gameVars, GamesOnlyEnd

\* game_create moves the free index to a free slot, or to -1 when none is left.
LEMMA GameCreateFree ==
    ASSUME FreeInv, NEW p, NEW op, NEW rval, game_create(p, op, rval)
    PROVE  FreeSlotIsFree'
<1>1. CASE UNCHANGED gameVars
  BY <1>1, SameGamesOnlyEnd, EndedGamesAreFree
<1>2. ASSUME free_game_index' = -1 PROVE FreeSlotIsFree'
  BY <1>2 DEF FreeSlotIsFree
<1>3. ASSUME free_game_index' \in Least({i \in GameSlots : games'[i] = NoGame})
      PROVE  FreeSlotIsFree'
  BY <1>3 DEF Least, FreeSlotIsFree
<1> QED
  BY <1>1, <1>2, <1>3 DEF game_create

LEMMA AddToQueueFree ==
    ASSUME FreeInv, NEW p, NEW PL, NEW F, NEW N, NEW V, NEW rval,
           add_to_queue(p, PL, F, N, V, rval)
    PROVE  FreeSlotIsFree'
<1>1. UNCHANGED gameVars \/ \E op : game_create(p, op, rval)
  BY DEF add_to_queue, look_for_opponent, gameVars
<1> QED
  BY <1>1, SameGamesOnlyEnd, EndedGamesAreFree, GameCreateFree

LEMMA FinishGameOnlyEnds ==
    ASSUME FreeInv, NEW i \in GameSlots, finish_game(i)
    PROVE  GamesOnlyEnd
BY DEF finish_game, GamesOnlyEnd, FreeInv, TypeInv, TypeOK, GameType

LEMMA DisconnectOnlyEnds ==
    ASSUME NEW p, NEW final, NEW socks, NEW inv, disconnect(p, final, socks, inv)
    PROVE  GamesOnlyEnd
BY DEF disconnect, GamesOnlyEnd

LEMMA HandlePacketFree ==
    ASSUME FreeInv, NEW p, HandlePacket(p)
    PROVE  FreeSlotIsFree'
<1> USE SameGamesOnlyEnd, EndedGamesAreFree
<1>1. ASSUME NEW n, p_hello(p, n) PROVE FreeSlotIsFree'
  <2>1. \/ UNCHANGED gameVars
        \/ \E q, PL, F, N, V : add_to_queue(q, PL, F, N, V, "ok")
    BY <1>1 DEF p_hello, first_login, login_again, gameVars
  <2> QED
    BY <2>1, AddToQueueFree
<1>2. CASE p_queue(p)
  BY <1>2, AddToQueueFree DEF p_queue
<1>3. CASE p_leave_queue(p)
  BY <1>3 DEF p_leave_queue
<1>4. ASSUME NEW k, play_packet(p, k) PROVE FreeSlotIsFree'
  <2>1. UNCHANGED gameVars \/ \E i \in GameSlots : finish_game(i)
    BY <1>4 DEF play_packet, lookup_game, Least
  <2> QED
    BY <2>1, FinishGameOnlyEnds
<1>5. CASE p_keepalive(p)
  BY <1>5 DEF p_keepalive
<1> QED
  BY <1>1, <1>2, <1>3, <1>4, <1>5 DEF HandlePacket

LEMMA StepFree == FreeInv /\ [Next]_vars => FreeInv'
<1> SUFFICES ASSUME FreeInv, [Next]_vars PROVE FreeSlotIsFree'
  BY StepType DEF FreeInv
<1> USE SameGamesOnlyEnd, EndedGamesAreFree
<1>1. CASE handle_new_client
  BY <1>1 DEF handle_new_client
<1>2. ASSUME NEW f \in Fds, read_packet(f) PROVE FreeSlotIsFree'
  BY <1>2, HandlePacketFree DEF read_packet
<1>3. ASSUME NEW f \in Fds, read_eof(f) PROVE FreeSlotIsFree'
  BY <1>3, DisconnectOnlyEnds DEF read_eof
<1>4. CASE read_next_packet
  BY <1>4, HandlePacketFree DEF read_next_packet
<1>5. CASE buffer_rest
  BY <1>5 DEF buffer_rest
<1>6. CASE invalid_data
  BY <1>6, DisconnectOnlyEnds DEF invalid_data
<1>7. ASSUME NEW t \in Threads, keepalive_start(t) PROVE FreeSlotIsFree'
  BY <1>7 DEF keepalive_start
<1>8. ASSUME NEW t \in Threads, keepalive_loop(t) PROVE FreeSlotIsFree'
  BY <1>8, DisconnectOnlyEnds DEF keepalive_loop
<1>9. ASSUME NEW f \in Fds, peer_closes(f) PROVE FreeSlotIsFree'
  BY <1>9 DEF peer_closes
<1>10. CASE tick
  BY <1>10 DEF tick
<1>11. CASE UNCHANGED vars
  BY <1>11 DEF vars
<1> QED
  BY <1>1, <1>2, <1>3, <1>4, <1>5, <1>6, <1>7, <1>8, <1>9, <1>10, <1>11
     DEF Next, main, keepalive

\* add_game never overwrites a game: whatever games end and begin, the free index kept
\* between two calls is -1 or the index of a slot without a game.
THEOREM FreeSlotCorrect == Spec => []FreeSlotIsFree
<1>1. Init => FreeInv
  <2>1. Init => FreeSlotIsFree
    BY GameSlotZero DEF Init, FreeSlotIsFree
  <2> QED
    BY <2>1, InitType DEF FreeInv
<1>2. FreeInv => FreeSlotIsFree
  BY DEF FreeInv
<1> QED
  BY <1>1, <1>2, StepFree, PTL DEF Spec
=============================================================================
