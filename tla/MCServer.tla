------------------------------ MODULE MCServer ------------------------------
(* Small values for ChessServer. *)
EXTENDS ServerRefinesLobby, TLC

CONSTANTS n1, n2, nLong

AllPackets       == {"HELLO", "QUEUE", "LEAVE_QUEUE", "KEEP_ALIVE"} \cup PlayPackets
KeepalivePackets == {"HELLO", "QUEUE", "KEEP_ALIVE"}
ResignPackets    == {"HELLO", "QUEUE", "RESIGN"}
LoginPackets     == {"HELLO"}
JoinPackets      == {"HELLO", "QUEUE"}

OneName       == {NewPlayer, n1}
TwoNames      == {NewPlayer, n1, n2}
NumberedNames == 0 .. MaxStructs
NoLongNames   == {}
OneLongName   == {nLong}

Symmetry  == Permutations({n1, n2})

\* Bound: the count of a player who is dropped is never reset, and goes on when the loop
\* serves another client as him.
FewInvalid == \A p \in Structs : invalid_sends[p] <= MaxInval

\* Bound: struct p logs in under the name p, if at all.
OwnNames == \A p \in Structs : name[p] \in {NewPlayer, p}

\* Bound of the runs that fill the table of games: moreover players send nothing
\* invalid, and go away only from a game that is still played.
GamesPileUp ==
    /\ OwnNames
    /\ \A p \in 1 .. allocated :
         /\ invalid_sends[p] = 0
         /\ ~Connected(p) => name[p] = p /\ ps[p] \in {"PLAY", "LOGGED_IN"}
         /\ fd[p] = -1 => InGame(p)

\* Bound: a third client connects once two have taken their names.
TwoLogIn == allocated > 2 => {n1, n2} \subseteq {name[p] : p \in Structs}
=============================================================================
