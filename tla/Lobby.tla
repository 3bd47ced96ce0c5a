------------------------------- MODULE Lobby -------------------------------
(***************************************************************************)
(* What the queue and the table of games promise together, whatever        *)
(* sockets, names and slots they use: a player waits alone, waits until it *)
(* is paired or gives up, and plays one game at a time.                    *)
(***************************************************************************)
CONSTANT Players

VARIABLES
    waiting,   \* the players who wait for an opponent
    playing    \* the games, each the set of its two players

vars == <<waiting, playing>>

Init == waiting = {} /\ playing = {}

Busy == UNION playing

Join(p) ==
    /\ waiting = {} /\ p \notin Busy
    /\ waiting' = {p}
    /\ UNCHANGED playing

Pair(p) ==
    /\ p \notin waiting \cup Busy
    /\ \E q \in waiting : playing' = playing \cup {{p, q}}
    /\ waiting' = {}

\* The one who waits leaves the queue, goes away, or is matched in vain.
GiveUp ==
    /\ waiting # {}
    /\ waiting' = {}
    /\ UNCHANGED playing

Finish(g) ==
    /\ g \in playing
    /\ playing' = playing \ {g}
    /\ UNCHANGED waiting

Next ==
    \/ \E p \in Players : Join(p) \/ Pair(p)
    \/ GiveUp
    \/ \E g \in playing : Finish(g)

Spec == Init /\ [][Next]_vars

\* At most one player waits, and is in no game; games are between two players and share none.
LobbyOK ==
    /\ \A p, q \in waiting : p = q
    /\ waiting \cap Busy = {}
    /\ \A g \in playing : \E p, q \in Players : p # q /\ g = {p, q}
    /\ \A g, h \in playing : g # h => g \cap h = {}
=============================================================================
