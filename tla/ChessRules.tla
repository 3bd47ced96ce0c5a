----------------------------- MODULE ChessRules -----------------------------
(***************************************************************************)
(* How the server judges a move: the handlers of chesspiece.c, and the     *)
(* searches for the king, for a check and for a mate of game_mngr.c, with  *)
(* what they do to castles and lm on the way.                              *)
(*                                                                         *)
(* A handler is given the board b, the castling rights c and the square lm *)
(* and returns what it leaves of c and lm with its verdict.                *)
(***************************************************************************)
EXTENDS Integers, FiniteSets

\* rank * 8 + file, both in 0..7; NoSquare is the pair of (unsigned) -1.
Squares  == 0 .. 63
NoSquare == -1
Rank(s)  == s \div 8
File(s)  == s % 8
SQUARE_TO_INT(rank, file) == rank * 8 + file

White == {"P", "R", "N", "B", "K", "Q"}
Black == {"p", "r", "n", "b", "k", "q"}
EMPTY_SQUARE == " "
Pieces == White \cup Black \cup {EMPTY_SQUARE}

\* toupper leaves a space alone: an empty square is white.
IS_WHITE(piece) == piece \notin Black

\* Asked of squares that are not empty only.
is_players_piece(white, piece) == piece # EMPTY_SQUARE /\ IS_WHITE(piece) = white
PiecesOf(b, white) == {s \in Squares : is_players_piece(white, b[s])}

KING(white) == IF white THEN "K" ELSE "k"

WhiteRights == {"K", "Q"}
BlackRights == {"k", "q"}
Rights == WhiteRights \cup BlackRights

Least(S) == {s \in S : \A t \in S : s <= t}
Abs(n)   == IF n < 0 THEN -n ELSE n

---------------------------------------------------------------------------
\* Directions are <<rank, file>> offsets: the bits of the masks of chesspiece.c.

Straight == {<<-1, 0>>, <<1, 0>>, <<0, -1>>, <<0, 1>>}
Diagonal == {<<-1, -1>>, <<-1, 1>>, <<1, -1>>, <<1, 1>>}
Every    == Straight \cup Diagonal
Forward(white)   == {<<IF white THEN 1 ELSE -1, 0>>}
MutCapturing(white) == {<<IF white THEN -1 ELSE 1, f>> : f \in {-1, 1}}   \* mutant
Capturing(white) == {<<IF white THEN 1 ELSE -1, f>> : f \in {-1, 1}}

\* s lies in direction d from the square from, at the distance of k steps.
Lies(s, from, d, k) ==
    k > 0 /\ Rank(s) = Rank(from) + k * d[1] /\ File(s) = File(from) + k * d[2]

Steps(s, t) == IF Rank(s) = Rank(t) THEN Abs(File(s) - File(t)) ELSE Abs(Rank(s) - Rank(t))

\* Mutant: a piece does not stop at what stands in its way.
MutHandleSimplePiece(b, from, to, direction, amount) ==
    LET k == Steps(from, to)
    IN  /\ k <= amount /\ \E d \in direction : Lies(to, from, d, k)
        /\ b[to] = EMPTY_SQUARE \/ IS_WHITE(b[to]) # IS_WHITE(b[from])

\* Mutant: a step less than the amount.
MutHandleShort(b, from, to, direction, amount) ==
    MutHandleSimplePiece(b, from, to, direction, amount - 1)

\* gen_pos_moves and is_pos_move: the piece gets to the square in one of the directions,
\* past empty squares only, and does not find a piece of its own side there.
handle_simple_piece(b, from, to, direction, amount) ==
    LET k == Steps(from, to)
    IN  /\ k <= amount
        /\ b[to] = EMPTY_SQUARE \/ IS_WHITE(b[to]) # IS_WHITE(b[from])
        /\ \E d \in direction :
              /\ Lies(to, from, d, k)
              /\ \A j \in 1 .. (k - 1) : b[from + j * SQUARE_TO_INT(d[1], d[2])] = EMPTY_SQUARE

Verdict(ret, c, lm) == [ret |-> ret, castles |-> c, lm |-> lm]
Judged(valid, c, lm) == Verdict(IF valid THEN "valid" ELSE "invalid", c, lm)

knight_handle(b, c, lm, from, to) ==
    Judged(/\ {Abs(Rank(from) - Rank(to)), Abs(File(from) - File(to))} = {1, 2}
           /\ b[to] = EMPTY_SQUARE \/ IS_WHITE(b[to]) # IS_WHITE(b[from]), c, lm)

rook_handle(b, c, lm, from, to)   == Judged(handle_simple_piece(b, from, to, Straight, 8), c, lm)
bishop_handle(b, c, lm, from, to) == Judged(handle_simple_piece(b, from, to, Diagonal, 8), c, lm)
queen_handle(b, c, lm, from, to)  == Judged(handle_simple_piece(b, from, to, Every, 8), c, lm)

\* From the e file of either back rank, two files aside.
IsCastles(from, to) == from \in {4, 60} /\ Abs(from - to) = 2

\* The colour must fit the rank; both directions ask for the queen's side right.
MayCastle(c, white, from) ==
    \/ from = 4 /\ white /\ "Q" \in c
    \/ from = 60 /\ ~white /\ "q" \in c

\* Mutant: castling returns before it gives up the rights.
MutKingHandle(b, c, lm, from, to) ==
    LET white == IS_WHITE(b[from])
        long  == to < from
        gap   == IF long THEN {from - 1, from - 2, from - 3} ELSE {from + 1, from + 2}
    IN  IF ~IsCastles(from, to)
        THEN Judged(handle_simple_piece(b, from, to, Every, 1),
                    c \ (IF white THEN WhiteRights ELSE BlackRights), lm)
        ELSE IF MayCastle(c, white, from) /\ \A s \in gap : b[s] = EMPTY_SQUARE
        THEN Verdict(IF long THEN "long_castles" ELSE "short_castles", c, lm)
        ELSE Verdict("invalid", c, lm)

\* Every attempt other than a refused castling costs the king both of its rights.
king_handle(b, c, lm, from, to) ==
    LET white == IS_WHITE(b[from])
        left  == c \ (IF white THEN WhiteRights ELSE BlackRights)
        long  == to < from
        gap   == IF long THEN {from - 1, from - 2, from - 3} ELSE {from + 1, from + 2}
    IN  IF ~IsCastles(from, to)
        THEN Judged(handle_simple_piece(b, from, to, Every, 1), left, lm)
        ELSE IF MayCastle(c, white, from) /\ \A s \in gap : b[s] = EMPTY_SQUARE
        THEN Verdict(IF long THEN "long_castles" ELSE "short_castles", left, lm)
        ELSE Verdict("invalid", c, lm)

\* The square a pawn passes when it advances by two from its first rank.
Passed(white, from) == from + (IF white THEN 8 ELSE -8)
IsDoubleStep(white, from, to) ==
    /\ Rank(from) = (IF white THEN 1 ELSE 6)
    /\ to = from + (IF white THEN 16 ELSE -16)

\* Any pawn, from anywhere, may go to lm.
pawn_handle(b, c, lm, from, to) ==
    LET white == IS_WHITE(b[from])
    IN  IF to = lm THEN Verdict("en_passant", c, lm)
        ELSE IF IsDoubleStep(white, from, to)
        THEN IF b[Passed(white, from)] = EMPTY_SQUARE /\ b[to] = EMPTY_SQUARE
             THEN Verdict("valid", c, Passed(white, from))
             ELSE Verdict("invalid", c, lm)
        ELSE IF \/ b[to] # EMPTY_SQUARE /\ handle_simple_piece(b, from, to, Capturing(white), 1)
                \/ b[to] = EMPTY_SQUARE /\ handle_simple_piece(b, from, to, Forward(white), 1)
        THEN Verdict("valid", c, NoSquare)
        ELSE Verdict("invalid", c, lm)

move(b, c, lm, from, to) ==
    IF from = to THEN Verdict("invalid", c, lm)
    ELSE CASE b[from] \in {"P", "p"} -> pawn_handle(b, c, lm, from, to)
           [] b[from] \in {"R", "r"} -> rook_handle(b, c, lm, from, to)
           [] b[from] \in {"N", "n"} -> knight_handle(b, c, lm, from, to)
           [] b[from] \in {"B", "b"} -> bishop_handle(b, c, lm, from, to)
           [] b[from] \in {"Q", "q"} -> queen_handle(b, c, lm, from, to)
           [] b[from] \in {"K", "k"} -> king_handle(b, c, lm, from, to)

---------------------------------------------------------------------------
\* game_mngr.c.

MOVE(b, from, to) == [b EXCEPT ![from] = EMPTY_SQUARE, ![to] = b[from]]

get_king_sq(b, white) == Least({s \in Squares : b[s] = KING(white)})

\* Mutant: castles is not restored after the opponent's king was tried.
MutIsInCheck(b, c, lm, white, king_sq) ==
    Judged(\E s \in PiecesOf(b, ~white) : move(b, c, lm, s, king_sq).ret # "invalid",
           c \ (IF white THEN BlackRights ELSE WhiteRights), lm)

\* "valid" is a check.  castles is restored; lm is what the first attacker has made of it.
is_in_check(b, c, lm, white, king_sq) ==
    LET attackers == {s \in PiecesOf(b, ~white) : move(b, c, lm, s, king_sq).ret # "invalid"}
    IN  IF attackers = {} THEN Judged(FALSE, c, lm)
        ELSE Judged(TRUE, c, (CHOOSE r \in {move(b, c, lm, s, king_sq).lm : s \in Least(attackers)} : TRUE))

\* Mutant: a move of the king is judged by the square it has left.
MutTry(acc, white, s, t) ==
    LET r    == move(acc.board, acc.castles, acc.lm, s, t)
        made == MOVE(acc.board, s, t)
        king == get_king_sq(acc.board, white)
        chk  == is_in_check(made, r.castles, r.lm, white, CHOOSE k \in king : TRUE)
    IN  IF r.ret \notin {"valid", "en_passant"} \/ king = {} THEN [acc EXCEPT !.castles = r.castles]
        ELSE [acc EXCEPT !.castles = r.castles, !.lm = chk.lm,
                         !.found = IF chk.ret = "invalid" THEN "escape" ELSE "none"]

\* is_mate tries every move of the side; acc is what the moves tried so far have left.
\* A try that takes the side's own king off the board ends the search on the spot.
Try(acc, white, s, t) ==
    LET r    == move(acc.board, acc.castles, acc.lm, s, t)
        made == MOVE(acc.board, s, t)
        king == get_king_sq(made, white)
        chk  == is_in_check(made, r.castles, r.lm, white, CHOOSE k \in king : TRUE)
    IN  IF r.ret \notin {"valid", "en_passant"} THEN [acc EXCEPT !.castles = r.castles]
        ELSE IF king = {}
        THEN [found |-> "no_king", board |-> made, castles |-> r.castles, lm |-> r.lm]
        ELSE [acc EXCEPT !.castles = r.castles, !.lm = chk.lm,
                         !.found = IF chk.ret = "invalid" THEN "escape" ELSE "none"]

\* Its loops over the ranks and the files of the pieces and of their ways; what is found
\* ends them all.
Loop(acc, Step(_, _)) ==
    LET upTo[i \in 0 .. 8] ==
          IF i = 0 THEN acc
          ELSE LET prev == upTo[i - 1]
               IN  IF prev.found = "none" THEN Step(prev, i - 1) ELSE prev
    IN  upTo[8]

TriesToRank(acc, white, s, rank_to) ==
    Loop(acc, LAMBDA a, file_to : Try(a, white, s, SQUARE_TO_INT(rank_to, file_to)))

TriesFrom(acc, white, s) ==
    Loop(acc, LAMBDA a, rank_to : TriesToRank(a, white, s, rank_to))

TriesOnRank(acc, white, rank) ==
    Loop(acc, LAMBDA a, file :
        LET s == SQUARE_TO_INT(rank, file)
        IN  IF is_players_piece(white, a.board[s]) THEN TriesFrom(a, white, s) ELSE a)

Tries(acc, white) == Loop(acc, LAMBDA a, rank : TriesOnRank(a, white, rank))

\* What is_mate leaves behind: castles is restored unless a king was lost, lm never is.
is_mate(b, c, lm, white, king_sq) ==
    LET chk  == is_in_check(b, c, lm, white, king_sq)
        last == Tries([found |-> "none", board |-> b, castles |-> c, lm |-> chk.lm], white)
    IN  IF chk.ret = "invalid" THEN [mate |-> FALSE, board |-> b, castles |-> c, lm |-> lm]
        ELSE [mate |-> last.found # "escape", board |-> last.board, lm |-> last.lm,
              castles |-> IF last.found = "no_king" THEN last.castles ELSE c]

=============================================================================
