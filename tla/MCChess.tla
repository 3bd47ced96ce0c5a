------------------------------ MODULE MCChess ------------------------------
(***************************************************************************)
(* Positions late in a game, with few pieces left.  The game that begins in*)
(* one of them is followed up to FullmoveLimit, for a few moves of its     *)
(* players.                                                                *)
(***************************************************************************)
EXTENDS ChessGame

Standing(pieces) == [s \in Squares |-> IF s \in DOMAIN pieces THEN pieces[s] ELSE EMPTY_SQUARE]

Position(pieces, rights, square, move_number, white) ==
    [board |-> Standing(pieces), castles |-> rights, lm |-> square,
     fullmove_count |-> move_number, white_to_move |-> white]

\* The kings and one rook of each have not moved.
Castling == Position(4 :> "K" @@ 0 :> "R" @@ 60 :> "k" @@ 63 :> "r", Rights, NoSquare, 39, TRUE)

\* The rook of the queen's side was taken where it stood by a knight.
RookGone == Position(4 :> "K" @@ 0 :> "n" @@ 60 :> "k", Rights, NoSquare, 39, TRUE)

\* Pawns of both colours that can advance by two past one another.
Pawns(white) ==
    Position(0 :> "K" @@ 11 :> "P" @@ 36 :> "P" @@ 57 :> "k" @@ 51 :> "p" @@ 28 :> "p",
             {}, NoSquare, 38, white)

\* A king behind its pawns, with a bishop that may or may not come to its help.
BackRank(bishop) ==
    Position(6 :> "K" @@ 4 :> "R" @@ 62 :> "k" @@ 53 :> "p" @@ 54 :> "p" @@ 55 :> "p" @@ bishop :> "b",
             {}, NoSquare, 39, TRUE)

\* A king in the corner, a queen and a knight.
Corner == Position(41 :> "K" @@ 39 :> "Q" @@ 56 :> "k" @@ 62 :> "n", {}, NoSquare, 39, TRUE)

\* The opponent's king stands where the rook of the queen's side did.
KingBeside == Position(4 :> "K" @@ 0 :> "k" @@ 30 :> "P", WhiteRights, NoSquare, 39, TRUE)

\* A rook gives check, and the one way out is a square that a pawn passes.
Passing == Position(16 :> "K" @@ 9 :> "P" @@ 34 :> "p" @@ 60 :> "r" @@ 63 :> "k", {}, NoSquare, 39, FALSE)

LatePositions ==
    {Castling, RookGone, Pawns(TRUE), Pawns(FALSE), BackRank(25), BackRank(24), Corner,
     KingBeside, Passing}

\* State constraint: once both clients cannot be reached, or one no longer has the board of the
\* server, the game is followed no further.
OneMissing ==
    /\ \E c \in BOOLEAN : Reached(c)
    /\ \A c \in BOOLEAN : seen[c] \in {board, NoBoard}

\* State constraint: a mate that was not told to the end is followed if it was the first move.
FirstMove ==
    ret = "checkmate" =>
       \E p \in Positions : Cardinality({s \in Squares : board[s] # p.board[s]}) = 2

NewGames == {NewGame}
=============================================================================
