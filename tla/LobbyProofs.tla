---------------------------- MODULE LobbyProofs ----------------------------
(***************************************************************************)
(* LobbyOK is an invariant of Lobby, for every set of players.  It is      *)
(* inductive once those in the lobby are known to be Players.              *)
(***************************************************************************)
EXTENDS Lobby, TLAPS

LobbyInv == LobbyOK /\ waiting \subseteq Players

LEMMA LobbyStep == LobbyInv /\ [Next]_vars => LobbyInv'
<1> SUFFICES ASSUME LobbyInv, [Next]_vars PROVE LobbyInv'
  OBVIOUS
<1>1. ASSUME NEW n \in Players, Join(n) PROVE LobbyInv'
  BY <1>1 DEF Join, LobbyInv, LobbyOK, Busy
<1>2. ASSUME NEW n \in Players, Pair(n) PROVE LobbyInv'
  <2>1. PICK m \in waiting : playing' = playing \cup {{n, m}}
    BY <1>2 DEF Pair
  <2>2. m \in Players /\ m # n /\ m \notin Busy /\ n \notin Busy
    BY <1>2, <2>1 DEF Pair, LobbyInv, LobbyOK
  <2>3. \A g \in playing : g \cap {n, m} = {}
    BY <2>2 DEF Busy
  <2>4. \A g \in playing' : g \in playing \/ g = {n, m}
    BY <2>1
  <2>5. \A g, h \in playing' : g # h => g \cap h = {}
    BY <2>3, <2>4 DEF LobbyInv, LobbyOK
  <2>6. \A g \in playing' : \E k, l \in Players : k # l /\ g = {k, l}
    BY <2>2, <2>4 DEF LobbyInv, LobbyOK
  <2>7. waiting' = {}
    BY <1>2 DEF Pair
  <2> QED
    BY <2>5, <2>6, <2>7 DEF LobbyInv, LobbyOK
<1>3. CASE GiveUp
  BY <1>3 DEF GiveUp, LobbyInv, LobbyOK, Busy
<1>4. ASSUME NEW g \in playing, Finish(g) PROVE LobbyInv'
  BY <1>4 DEF Finish, LobbyInv, LobbyOK, Busy
<1>5. CASE UNCHANGED vars
  BY <1>5 DEF vars, LobbyInv, LobbyOK, Busy
<1> QED
  BY <1>1, <1>2, <1>3, <1>4, <1>5 DEF Next

\* Of the players in the lobby at most one waits, and nobody waits and plays, or plays in
\* two games: what the queue and the table of games of the server implement.
THEOREM LobbyCorrect == Spec => []LobbyOK
<1>1. Init => LobbyInv
  BY DEF Init, LobbyInv, LobbyOK, Busy
<1>2. LobbyInv => LobbyOK
  BY DEF LobbyInv
<1> QED
  BY <1>1, <1>2, LobbyStep, PTL DEF Spec
=============================================================================
