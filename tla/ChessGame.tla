----------------------------- MODULE ChessGame -----------------------------
(***************************************************************************)
(* One game of chess from the moves its players send to its end: move_piece*)
(* of game_mngr.c under p_movepc of packet.c, and the board the clients    *)
(* keep from what p_movepc tells them, as far as its packets reach them.  A*)
(* step is one MOVE packet, or the return of a player.                     *)
(***************************************************************************)
EXTENDS ChessRules, SequencesExt

CONSTANTS
    Positions,      \* bound: where the game may stand when the run begins
    FullmoveLimit   \* bound: the game is followed up to this fullmove_count

ASSUME FullmoveAssumption == FullmoveLimit \in Nat

\* A side has one king, and a right to castle only as long as it has not moved.
ASSUME PositionAssumption ==
    \A p \in Positions :
       /\ p.board \in [Squares -> Pieces]
       /\ p.castles \subseteq Rights /\ p.lm \in Squares \cup {NoSquare}
       /\ p.fullmove_count \in Nat /\ p.white_to_move \in BOOLEAN
       /\ \A white \in BOOLEAN : \E k \in Squares : {s \in Squares : p.board[s] = KING(white)} = {k}
       /\ p.castles \cap WhiteRights # {} => p.board[4] = "K"
       /\ p.castles \cap BlackRights # {} => p.board[60] = "k"

VARIABLES
    board, castles, lm, halfmove_clock, fullmove_count, white_to_move,
    ret,     \* what the last call of move_piece has returned
    phase,   \* "play", "mate" once finish_game was called, or "segv"
    seen     \* per colour: the board as that client has it, or NoBoard once a send has failed

gameVars == <<board, castles, lm>>
countVars == <<halfmove_clock, fullmove_count, white_to_move>>
vars == <<gameVars, countVars, ret, phase, seen>>

NoBoard == <<>>
Reached(c) == seen[c] # NoBoard

\* setup_game.
StartRank == <<"R", "N", "B", "Q", "K", "B", "N", "R">>
ToBlack(piece) ==
    LET at == CHOOSE i \in 1 .. 8 : StartRank[i] = piece
    IN  <<"r", "n", "b", "q", "k", "b", "n", "r">>[at]
StartBoard ==
    [s \in Squares |->
        CASE Rank(s) = 0 -> StartRank[File(s) + 1]
          [] Rank(s) = 1 -> "P"
          [] Rank(s) = 6 -> "p"
          [] Rank(s) = 7 -> ToBlack(StartRank[File(s) + 1])
          [] OTHER       -> EMPTY_SQUARE]

\* create_game and setup_game.
NewGame == [board |-> StartBoard, castles |-> Rights, lm |-> NoSquare,
            fullmove_count |-> 1, white_to_move |-> TRUE]

\* The clock is 0 wherever the game stands: create_game sets it, and an accepted move
\* resets it, since the square it went to is never empty afterwards.
Init ==
    /\ \E p \in Positions :
         /\ board = p.board /\ castles = p.castles /\ lm = p.lm
         /\ fullmove_count = p.fullmove_count /\ white_to_move = p.white_to_move
    /\ halfmove_clock = 0
    /\ ret = "none" /\ phase = "play" /\ seen = [c \in BOOLEAN |-> board]

---------------------------------------------------------------------------
\* move_piece, by its ways out.  m is the verdict of the piece's handler, made the board
\* with the move on it.

Refuse == ret' = "invalid" /\ UNCHANGED <<countVars, phase, seen>>

\* It is not the player's turn, or the square holds no piece of his: nothing is touched.
refuse_player == Refuse /\ UNCHANGED gameVars

\* The handler refuses the move, and keeps what it did to castles.
refuse_move ==
    \E m \in {move(board, castles, lm, from, to) : from \in PiecesOf(board, white_to_move), to \in Squares} :
       /\ m.ret = "invalid"
       /\ Refuse
       /\ castles' = m.castles /\ lm' = m.lm
       /\ UNCHANGED board

\* A king is missing: the move stays made.
refuse_kingless(m, made) ==
    /\ \E white \in BOOLEAN : get_king_sq(made, white) = {}
    /\ Refuse
    /\ board' = made /\ castles' = m.castles /\ lm' = m.lm

KingOf(b, white) == CHOOSE k \in get_king_sq(b, white) : TRUE
BothKings(b) == \A white \in BOOLEAN : get_king_sq(b, white) # {}

\* Mutant: the move that leaves the king in check is not unmade.
MutRefuseCheck(white, m, made) ==
    LET chk == is_in_check(made, m.castles, m.lm, white, KingOf(made, white))
    IN  /\ BothKings(made) /\ chk.ret = "valid"
        /\ Refuse
        /\ castles' = chk.castles /\ lm' = chk.lm
        /\ board' = made

\* The player's king would be in check: the board is restored, castles and lm are not.
refuse_check(white, m, made) ==
    LET chk == is_in_check(made, m.castles, m.lm, white, KingOf(made, white))
    IN  /\ BothKings(made) /\ chk.ret = "valid"
        /\ Refuse
        /\ castles' = chk.castles /\ lm' = chk.lm
        /\ UNCHANGED board

\* En passant clears the square below lm for both colours: IS_WHITE is asked of the
\* square the pawn has left.  Below the first rank lies no square of the board.
Captured(to) == to - 8
MutLeavesBoard(m, to) == FALSE   \* mutant
LeavesBoard(m, to) == m.ret = "en_passant" /\ Rank(to) = 0

MutPlaced(m, made, from, to) ==   \* mutant: the pawn is not taken
    CASE m.ret = "long_castles"  -> MOVE(made, from - 4, from - 1)
      [] m.ret = "short_castles" -> MOVE(made, from + 3, from + 1)
      [] OTHER                   -> made

\* The board once castling has moved what stands on the rook's square, or en passant
\* has taken its pawn.
Placed(m, made, from, to) ==
    CASE m.ret = "long_castles"  -> MOVE(made, from - 4, from - 1)
      [] m.ret = "short_castles" -> MOVE(made, from + 3, from + 1)
      [] m.ret = "en_passant"    -> [made EXCEPT ![Captured(to)] = EMPTY_SQUARE]
      [] OTHER                   -> made

\* Mutant: the opponent is told first.
MutPackets(verdict, mover) ==
    LET Packet(c, tells) == [to |-> c, tells |-> tells]
    IN  CASE verdict \in {"long_castles", "short_castles"} ->
               <<Packet(~mover, verdict), Packet(mover, "response"), Packet(mover, verdict)>>
          [] verdict = "en_passant" ->
               <<Packet(~mover, "pawn"), Packet(mover, "pawn"),
                 Packet(~mover, "move"), Packet(mover, "move"), Packet(mover, "response")>>
          [] OTHER ->
               <<Packet(~mover, "move"), Packet(mover, "move"), Packet(mover, "response")>>

\* What p_movepc sends, in its order: MOVE_RESPONSE_OUT, MOVE_CASTLES_OUT, MOVE_EN_PASSANT_OUT
\* with the square g->lm, and MOVE_OUT.
Packets(verdict, mover) ==
    LET Packet(c, tells) == [to |-> c, tells |-> tells]
    IN  CASE verdict \in {"long_castles", "short_castles"} ->
               <<Packet(mover, "response"), Packet(mover, verdict), Packet(~mover, verdict)>>
          [] verdict = "en_passant" ->
               <<Packet(mover, "pawn"), Packet(~mover, "pawn"),
                 Packet(mover, "move"), Packet(~mover, "move"), Packet(mover, "response")>>
          [] OTHER ->
               <<Packet(mover, "move"), Packet(~mover, "move"), Packet(mover, "response")>>

\* The board of a client who had b, after the packets that tell what says holds.
Told(says, b, lm1, from, to) ==
    LET taken == IF "pawn" \in says THEN [s \in Squares |-> IF s = lm1 THEN EMPTY_SQUARE ELSE b[s]]
                 ELSE b
    IN  IF "long_castles" \in says THEN MOVE(MOVE(b, from, from - 2), from - 4, from - 1)
        ELSE IF "short_castles" \in says THEN MOVE(MOVE(b, from, from + 2), from + 3, from + 1)
        ELSE IF "move" \in says THEN MOVE(taken, from, to)
        ELSE taken

\* p_movepc ends with the first send that fails.
SentUpTo(packets, n) == \A i \in 1 .. n : Reached(packets[i].to)
AllSent(packets, n)  == n = Len(packets)

Says(packets, n, c) == {packets[i].tells : i \in {j \in 1 .. n : packets[j].to = c}}

SeenAfter(packets, n, from, to) ==
    [c \in BOOLEAN |->
        IF ~Reached(c) \/ (~AllSent(packets, n) /\ packets[n + 1].to = c) THEN NoBoard
        ELSE Told(Says(packets, n, c), seen[c], lm', from, to)]

\* The packets are sent, and then a mate finishes the game: not one that is not told to the end.
tell(packets, from, to) ==
    \E n \in 0 .. Len(packets) :
       /\ SentUpTo(packets, n)
       /\ seen' = SeenAfter(packets, n, from, to)
       /\ phase' = (IF ret' = "checkmate" /\ AllSent(packets, n) THEN "mate" ELSE phase)

\* The search for a check, made first for the log, is repeated by is_mate: what the first has
\* left in lm does not change the second.
accept(white, m, made, from, to) ==
    LET chk     == is_in_check(made, m.castles, m.lm, white, KingOf(made, white))
        after   == Placed(m, made, from, to)
        lm1     == IF m.ret = "en_passant" THEN Captured(to) ELSE m.lm
        mate    == is_mate(after, m.castles, lm1, ~white, KingOf(made, ~white))
    IN  /\ BothKings(made) /\ chk.ret = "invalid"
        /\ ~LeavesBoard(m, to)
        /\ board' = mate.board /\ castles' = mate.castles /\ lm' = mate.lm
        /\ ret' = (IF mate.mate THEN "checkmate" ELSE m.ret)
        /\ tell(Packets(ret', white), from, to)
        /\ \/ mate.mate /\ UNCHANGED countVars
           \/ /\ ~mate.mate
              /\ halfmove_clock' =
                    IF after[to] # EMPTY_SQUARE \/ after[from] \in {"P", "p"} THEN 0
                    ELSE halfmove_clock + 1
              /\ fullmove_count' = fullmove_count + (IF white_to_move THEN 0 ELSE 1)
              /\ white_to_move' = ~white_to_move

\* The write to the rank before the first is outside the board by 32 GB.
off_board(white, m, made, to) ==
    /\ BothKings(made)
    /\ is_in_check(made, m.castles, m.lm, white, KingOf(made, white)).ret = "invalid"
    /\ LeavesBoard(m, to)
    /\ phase' = "segv"
    /\ UNCHANGED <<gameVars, countVars, ret, seen>>

\* The handler accepts the move of the player whose turn it is.
make_move(white, from, to) ==
    LET m    == move(board, castles, lm, from, to)
        made == MOVE(board, from, to)
    IN  /\ m.ret # "invalid"
        /\ \/ refuse_kingless(m, made)
           \/ refuse_check(white, m, made)
           \/ accept(white, m, made, from, to)
           \/ off_board(white, m, made, to)

\* A MOVE packet of a player of the game, with squares on the board.
p_movepc ==
    /\ phase = "play" /\ fullmove_count < FullmoveLimit
    /\ \/ refuse_player
       \/ refuse_move
       \/ \E from \in PiecesOf(board, white_to_move), to \in Squares : make_move(white_to_move, from, to)

\* reconnect_to_game: a player who has logged in again gets the position.
reconnect_to_game(c) ==
    /\ phase = "play" /\ ~Reached(c)
    /\ seen' = [seen EXCEPT ![c] = board]
    /\ UNCHANGED <<gameVars, countVars, ret, phase>>

Next == p_movepc \/ \E c \in BOOLEAN : reconnect_to_game(c)

Spec == Init /\ [][Next]_vars

---------------------------------------------------------------------------
\* generate_fen, with which a game begins and a player who returns goes on.

Digit == <<"1", "2", "3", "4", "5", "6", "7", "8">>

Flushed(row) == IF row.empty = 0 THEN row.text ELSE Append(row.text, Digit[row.empty])

MutRowText(b, rank) ==   \* mutant: the count of empty squares is not reset
    LET upTo[f \in 0 .. 8] ==
          IF f = 0 THEN [text |-> <<>>, empty |-> 0]
          ELSE LET row   == upTo[f - 1]
                   piece == b[SQUARE_TO_INT(rank, f - 1)]
               IN  IF piece = EMPTY_SQUARE THEN [row EXCEPT !.empty = @ + 1]
                   ELSE [row EXCEPT !.text = Append(Flushed(row), piece)]
    IN  Flushed(upTo[8])

RowText(b, rank) ==
    LET upTo[f \in 0 .. 8] ==
          IF f = 0 THEN [text |-> <<>>, empty |-> 0]
          ELSE LET row   == upTo[f - 1]
                   piece == b[SQUARE_TO_INT(rank, f - 1)]
               IN  IF piece = EMPTY_SQUARE THEN [row EXCEPT !.empty = @ + 1]
                   ELSE [text |-> Append(Flushed(row), piece), empty |-> 0]
    IN  Flushed(upTo[8])

generate_fen ==
    [rows |-> [r \in 1 .. 8 |-> RowText(board, 8 - r)],
     turn |-> IF white_to_move THEN "w" ELSE "b",
     castles |-> castles, lm |-> lm,
     halfmove |-> halfmove_clock, fullmove |-> fullmove_count]

---------------------------------------------------------------------------
\* The rules of chess, to judge the code by.

Between(s, t) ==
    {u \in Squares \ {s, t} :
        /\ (Rank(u) - Rank(s)) * (File(t) - File(s)) = (File(u) - File(s)) * (Rank(t) - Rank(s))
        /\ (Rank(u) - Rank(s)) * (Rank(u) - Rank(t)) <= 0
        /\ (File(u) - File(s)) * (File(u) - File(t)) <= 0}

Attacks(b, s, t) ==
    LET dr == Abs(Rank(s) - Rank(t))
        df == Abs(File(s) - File(t))
        straight == dr = 0 \/ df = 0
    IN  /\ s # t
        /\ CASE b[s] = "P" -> Rank(t) = Rank(s) + 1 /\ df = 1
             [] b[s] = "p" -> Rank(t) = Rank(s) - 1 /\ df = 1
             [] b[s] \in {"N", "n"} -> dr * df = 2
             [] b[s] \in {"K", "k"} -> dr <= 1 /\ df <= 1
             [] b[s] \in {"R", "r"} -> straight
             [] b[s] \in {"B", "b"} -> dr = df
             [] b[s] \in {"Q", "q"} -> straight \/ dr = df
        /\ b[s] \in {"R", "r", "B", "b", "Q", "q"} => \A u \in Between(s, t) : b[u] = EMPTY_SQUARE

\* The king of that colour stands on an attacked square.
InCheck(b, white) ==
    \E k \in Squares : b[k] = KING(white) /\ \E s \in PiecesOf(b, ~white) : Attacks(b, s, k)

Pushes(b, s, t) ==
    /\ b[s] \in {"P", "p"} /\ b[t] = EMPTY_SQUARE
    /\ \/ t = Passed(IS_WHITE(b[s]), s)
       \/ IsDoubleStep(IS_WHITE(b[s]), s, t) /\ b[Passed(IS_WHITE(b[s]), s)] = EMPTY_SQUARE

\* A move of the rules that is neither castling nor en passant.
Plain(b, white, s, t) ==
    /\ is_players_piece(white, b[s]) /\ ~is_players_piece(white, b[t])
    /\ \/ Pushes(b, s, t)
       \/ Attacks(b, s, t) /\ (b[s] \in {"P", "p"} => b[t] # EMPTY_SQUARE)

Helps(b, white, s, t) == Plain(b, white, s, t) /\ ~InCheck(MOVE(b, s, t), white)
CanEscape(b, white) == \E s \in PiecesOf(b, white), t \in Squares : Helps(b, white, s, t)

---------------------------------------------------------------------------
\* Properties.

Rets == {"none", "invalid", "valid", "short_castles", "long_castles", "en_passant", "checkmate"}

\* Every variable keeps its type; in particular lm is NoSquare or a square.
TypeOK ==
    /\ board \in [Squares -> Pieces] /\ seen \in [BOOLEAN -> [Squares -> Pieces] \cup {NoBoard}]
    /\ castles \subseteq Rights /\ lm \in Squares \cup {NoSquare}
    /\ halfmove_clock \in Nat /\ fullmove_count \in Nat /\ white_to_move \in BOOLEAN
    /\ ret \in Rets /\ phase \in {"play", "mate", "segv"}

\* An accepted move, en passant apart, leaves the player's own king unattacked, also when
\* castling has moved what stood on the rook's square.  Only the opponent's king may come to
\* stand beside it: castling moves that one too, if it stands on the square of the rook.
MoverIsSafe ==
    ret \in {"valid", "short_castles", "long_castles"} =>
       \A k \in Squares, s \in PiecesOf(board, white_to_move) :
          board[k] = KING(~white_to_move) /\ Attacks(board, s, k) =>
             ret = "long_castles" /\ board[s] = KING(white_to_move)

Legal(s, t) == Helps(board, white_to_move, s, t)

\* A move accepted as MOVE_VALID is one of the rules: no piece jumps, takes its own side's
\* pieces or leaves a pin, and the board changes on the two squares of the move only.
AcceptedIsLegal ==
    [][ret' = "valid" /\ white_to_move' # white_to_move =>
         \E s, t \in {u \in Squares : board'[u] # board[u]} :
            board' = MOVE(board, s, t) /\ Legal(s, t)]_vars

\* No move of the rules is refused, as long as lm does not make one en passant or a check.
LegalIsAccepted ==
    phase = "play" /\ lm = NoSquare /\ BothKings(board) =>
       \A s \in PiecesOf(board, white_to_move), t \in Squares :
          Legal(s, t) =>
             LET m    == move(board, castles, lm, s, t)
                 made == MOVE(board, s, t)
             IN  /\ m.ret = "valid"
                 /\ is_in_check(made, m.castles, m.lm, white_to_move, KingOf(made, white_to_move)).ret = "invalid"

\* What lm may be in the search for a mate: what it was, what en passant makes of that, or a
\* square that a pawn passes.
MayBeLm(t) == t \in {lm, Captured(lm)} \/ Rank(t) \in {2, 5}

\* Where the opponent's king stands it stood before the move, and not on lm: castling moves
\* the king from the rook's square after it was looked for, and any pawn attacks a king on lm.
KingStands == \A k \in Squares : board'[k] = KING(~white_to_move) => board[k] = board'[k]
KingOffLm  == \A k \in Squares : board'[k] = KING(~white_to_move) => k # lm

\* A move is answered as mate exactly when the opponent is in check and no move of the rules
\* helps, en passant apart.  The king's way to a square that is lm does not count as help:
\* lm is not restored after a try, and the handler lets any pawn of the mover go there.
MateIsMate ==
    [][BothKings(board') =>
         /\ ret' = "checkmate" /\ board' # board /\ KingOffLm =>
               /\ KingStands => InCheck(board', ~white_to_move)
               /\ \A s, t \in Squares :
                     Helps(board', ~white_to_move, s, t) => board'[s] = KING(~white_to_move) /\ MayBeLm(t)
         /\ /\ white_to_move' # white_to_move /\ lm' = NoSquare /\ KingStands
            /\ InCheck(board', white_to_move')
            => CanEscape(board', white_to_move')]_vars

\* A refused move leaves the board as it was: what is tried on it to find checks and
\* mates is taken back.  A move after which a king is missing is the exception.
RefusedIsUnmade == [][ret' = "invalid" /\ BothKings(board') => board' = board]_vars

\* A right to castle is that of a king which has not left its square, whatever moves of
\* it the searches for checks and mates have tried.
RightsMeanKingHome ==
    BothKings(board) =>
       /\ castles \cap WhiteRights # {} => board[4] = "K"
       /\ castles \cap BlackRights # {} => board[60] = "k"

RightsOf(white) == IF white THEN WhiteRights ELSE BlackRights

\* Nothing a player sends, accepted or refused, costs his opponent a right to castle,
\* although the searches for checks and mates try the moves of the opponent's king.
OthersRightsStand ==
    [][BothKings(board') =>
         castles' \cap RightsOf(~white_to_move) = castles \cap RightsOf(~white_to_move)]_vars

\* Castling and en passant that mate are told as plain moves.
MateIsTold ==
    ret' = "checkmate" => \E s, t \in {u \in Squares : board'[u] # board[u]} : board' = MOVE(board, s, t)

\* The square of a pawn taken en passant is read from lm after the search for a mate, which
\* changes lm when there is a check; and a pawn may come to stand where it clears its own square.
PawnIsTold ==
    ret' = "en_passant" => ~InCheck(board', white_to_move') /\ lm' \notin PiecesOf(board, white_to_move)

\* A failed send ends p_movepc, and what is left is told to neither: the opponent is told
\* last, but of en passant the mover is told the half before and the half after him.
RestIsTold(c) ==
    /\ c = ~white_to_move => Reached(~c)'
    /\ c = white_to_move /\ ret' = "en_passant" => Reached(~c)'

\* A client whom the packets reach, and who applies them, goes on to see the board of the
\* server, whether or not the other one can be reached.  The exceptions are what is told
\* wrong or not at all.
ClientsSeeBoard ==
    [][\A c \in BOOLEAN :
          /\ seen[c] = board /\ Reached(c)' /\ BothKings(board')
          /\ MateIsTold /\ PawnIsTold /\ RestIsTold(c)
          => seen'[c] = board']_vars

\* What is answered as en passant is a capture in passing: a pawn goes diagonally forward
\* to the square behind the pawn that has just advanced by two, and takes that pawn.
EnPassantIsRules ==
    [][ret' = "en_passant" =>
         \E s \in PiecesOf(board, white_to_move), t \in Squares :
            /\ board[s] \in {"P", "p"} /\ Attacks(board, s, t) /\ t = lm
            /\ board' = [MOVE(board, s, t) EXCEPT ![Passed(~white_to_move, t)] = EMPTY_SQUARE]]_vars

Expanded(token) ==
    IF token \in Pieces THEN <<token>>
    ELSE [i \in 1 .. (CHOOSE n \in 1 .. 8 : Digit[n] = token) |-> EMPTY_SQUARE]

\* The rows of the FEN text, read the way FEN is read, are the board again: a client who
\* returns to a game sees the position he left.
FenReadsBack ==
    LET rows == generate_fen.rows
    IN  \A r \in 1 .. 8 : \E text \in {rows[r]} :
          FlattenSeq([i \in DOMAIN text |-> Expanded(text[i])])
             = [f \in 1 .. 8 |-> board[SQUARE_TO_INT(8 - r, f - 1)]]
=============================================================================
