---------------------------- MODULE ChessProofs ----------------------------
(***************************************************************************)
(* Theorems of ChessGame, for every position a game may stand in.          *)
(***************************************************************************)
EXTENDS ChessGame, SequenceTheorems, WellFoundedInduction, TLAPS

---------------------------------------------------------------------------
\* Squares.

LEMMA Coordinates ==
    ASSUME NEW s \in Squares
    PROVE  /\ Rank(s) \in 0 .. 7 /\ File(s) \in 0 .. 7
           /\ s = 8 * Rank(s) + File(s)
BY DEF Squares, Rank, File

LEMMA SquareAt ==
    ASSUME NEW r \in 0 .. 7, NEW f \in 0 .. 7
    PROVE  /\ 8 * r + f \in Squares
           /\ Rank(8 * r + f) = r /\ File(8 * r + f) = f
BY DEF Squares, Rank, File

LEMMA SameSquare ==
    ASSUME NEW s \in Squares, NEW t \in Squares, Rank(s) = Rank(t), File(s) = File(t)
    PROVE  s = t
BY Coordinates

Dirs == {-1, 0, 1}

LEMMA DirectionIs ==
    ASSUME NEW d \in Every
    PROVE  d[1] \in Dirs /\ d[2] \in Dirs /\ d # <<0, 0>> /\ (d[1] # 0 \/ d[2] # 0)
BY DEF Every, Straight, Diagonal, Dirs

\* A square on a ray is as far away as Steps counts.
LEMMA RaySteps ==
    ASSUME NEW s \in Squares, NEW t \in Squares, NEW d \in Every, NEW k \in Nat, Lies(t, s, d, k)
    PROVE  k \in 1 .. 7 /\ Steps(s, t) = k
<1> DEFINE a == d[1]  b == d[2]
<1>1. a \in Dirs /\ b \in Dirs /\ (a # 0 \/ b # 0) BY DirectionIs
<1>2. k > 0 /\ Rank(t) = Rank(s) + k * a /\ File(t) = File(s) + k * b BY DEF Lies
<1>3. Rank(s) \in 0 .. 7 /\ File(s) \in 0 .. 7 /\ Rank(t) \in 0 .. 7 /\ File(t) \in 0 .. 7 BY Coordinates
<1> HIDE DEF a, b
<1>4. /\ Rank(t) = Rank(s) + (IF a = 0 THEN 0 ELSE IF a = 1 THEN k ELSE -k)
      /\ File(t) = File(s) + (IF b = 0 THEN 0 ELSE IF b = 1 THEN k ELSE -k)
  <2>1. k * 0 = 0 /\ k * 1 = k /\ k * (-1) = -k OBVIOUS
  <2> QED BY <1>1, <1>2, <2>1 DEF Dirs
<1>0. k > 0 BY <1>2
<1>5. k \in 1 .. 7 BY <1>0, <1>1, <1>3, <1>4 DEF Dirs
<1>6. Steps(s, t) = k
  <2>1. CASE a = 0
    <3>1. Rank(s) = Rank(t) /\ (File(s) - File(t) = k \/ File(s) - File(t) = -k)
        BY <1>1, <1>3, <1>4, <1>5, <2>1 DEF Dirs
    <3>2. Abs(File(s) - File(t)) = k BY <1>5, <3>1 DEF Abs
    <3> QED BY <3>1, <3>2 DEF Steps
  <2>2. CASE a # 0
    <3>1. Rank(s) # Rank(t) /\ (Rank(s) - Rank(t) = k \/ Rank(s) - Rank(t) = -k)
        BY <1>1, <1>3, <1>4, <1>5, <2>2 DEF Dirs
    <3>2. Abs(Rank(s) - Rank(t)) = k BY <1>5, <3>1 DEF Abs
    <3> QED BY <3>1, <3>2 DEF Steps
  <2> QED BY <2>1, <2>2
<1> QED BY <1>5, <1>6

LEMMA Cancel ==
    ASSUME NEW x \in Int, NEW y \in Int, NEW k \in Nat \ {0}, x * k = y * k
    PROVE  x = y
<1>1. (x - y) * k = 0 OBVIOUS
<1>2. x - y \in Int OBVIOUS
<1>3. \A z \in Int : z * k = 0 => z = 0 OBVIOUS
<1> QED BY <1>1, <1>2, <1>3

LEMMA Interval ==
    ASSUME NEW x \in Int, NEW k \in Nat \ {0}
    PROVE  x * (x - k) <= 0 <=> x \in 0 .. k
<1>1. CASE x < 0 BY <1>1
<1>2. CASE x > k BY <1>2
<1>3. CASE x \in 0 .. k BY <1>3
<1> QED BY <1>1, <1>2, <1>3

\* The offsets that lie between nothing and k steps in the direction <<a, b>>.
OnSegment(x, y, a, b, k) ==
    x * (k * b) = y * (k * a) /\ x * (x - k * a) <= 0 /\ y * (y - k * b) <= 0

LEMMA SegmentIs ==
    ASSUME NEW x \in Int, NEW y \in Int, NEW k \in Nat \ {0}, NEW a \in Dirs, NEW b \in Dirs,
           a # 0 \/ b # 0
    PROVE  OnSegment(x, y, a, b, k) <=> \E j \in 0 .. k : x = j * a /\ y = j * b
<1>0. /\ k * 0 = 0 /\ k * 1 = k /\ k * (-1) = -k
      /\ \A j \in Int : j * 0 = 0 /\ j * 1 = j /\ j * (-1) = -j
    OBVIOUS
<1>1. /\ x * (x - k) <= 0 <=> x \in 0 .. k
      /\ y * (y - k) <= 0 <=> y \in 0 .. k
      /\ x * (x - (-k)) <= 0 <=> -x \in 0 .. k
      /\ y * (y - (-k)) <= 0 <=> -y \in 0 .. k
      /\ x * (x - 0) <= 0 <=> x = 0
      /\ y * (y - 0) <= 0 <=> y = 0
  <2>1. -x * (-x - k) = x * (x - (-k)) /\ -y * (-y - k) = y * (y - (-k)) OBVIOUS
  <2>2. -x \in Int /\ -y \in Int OBVIOUS
  <2>3. /\ x * (x - k) <= 0 <=> x \in 0 .. k
        /\ y * (y - k) <= 0 <=> y \in 0 .. k
      BY Interval
  <2>4. /\ -x * (-x - k) <= 0 <=> -x \in 0 .. k
        /\ -y * (-y - k) <= 0 <=> -y \in 0 .. k
      BY <2>2, Interval
  <2>5. x * (x - 0) <= 0 <=> x = 0 OBVIOUS
  <2>6. y * (y - 0) <= 0 <=> y = 0 OBVIOUS
  <2> QED BY <2>1, <2>3, <2>4, <2>5, <2>6
<1>2. /\ x * k = y * k <=> x = y
      /\ x * k = y * (-k) <=> x = -y
      /\ x * (-k) = y * k <=> x = -y
      /\ x * (-k) = y * (-k) <=> x = y
      /\ x * 0 = y * k <=> y = 0
      /\ x * 0 = y * (-k) <=> y = 0
      /\ x * k = y * 0 <=> x = 0
      /\ x * (-k) = y * 0 <=> x = 0
  <2>1. -y \in Int /\ y * (-k) = (-y) * k /\ x * (-k) = (-x) * k /\ -x \in Int /\ 0 * k = 0 OBVIOUS
  <2>2. \A v, w \in Int : v * k = w * k => v = w BY Cancel
  <2> QED BY <2>1, <2>2
<1>3. CASE a = 0 /\ b = 1
    BY <1>0, <1>1, <1>2, <1>3 DEF OnSegment
<1>4. CASE a = 0 /\ b = -1
    BY <1>0, <1>1, <1>2, <1>4 DEF OnSegment
<1>5. CASE a = 1 /\ b = 0
    BY <1>0, <1>1, <1>2, <1>5 DEF OnSegment
<1>6. CASE a = 1 /\ b = 1
    BY <1>0, <1>1, <1>2, <1>6 DEF OnSegment
<1>7. CASE a = 1 /\ b = -1
    BY <1>0, <1>1, <1>2, <1>7 DEF OnSegment
<1>8. CASE a = -1 /\ b = 0
    BY <1>0, <1>1, <1>2, <1>8 DEF OnSegment
<1>9. CASE a = -1 /\ b = 1
    BY <1>0, <1>1, <1>2, <1>9 DEF OnSegment
<1>10. CASE a = -1 /\ b = -1
    BY <1>0, <1>1, <1>2, <1>10 DEF OnSegment
<1> QED BY <1>3, <1>4, <1>5, <1>6, <1>7, <1>8, <1>9, <1>10 DEF Dirs

\* What lies between a square and another on a ray from it.
LEMMA BetweenIs ==
    ASSUME NEW s \in Squares, NEW t \in Squares, NEW d \in Every, NEW k \in Nat, Lies(t, s, d, k)
    PROVE  \A u \in Squares : u \in Between(s, t) <=> \E j \in 1 .. k - 1 : Lies(u, s, d, j)
<1> SUFFICES ASSUME NEW u \in Squares
             PROVE  u \in Between(s, t) <=> \E j \in 1 .. k - 1 : Lies(u, s, d, j)
    OBVIOUS
<1> DEFINE a == d[1]  b == d[2]  x == Rank(u) - Rank(s)  y == File(u) - File(s)
<1>1. a \in Dirs /\ b \in Dirs /\ (a # 0 \/ b # 0) /\ k \in 1 .. 7
    BY DirectionIs, RaySteps
<1>2. k * a \in Int /\ k * b \in Int BY <1>1 DEF Dirs
<1>3. /\ Rank(s) \in Int /\ File(s) \in Int /\ Rank(t) \in Int /\ File(t) \in Int
      /\ Rank(u) \in Int /\ File(u) \in Int
    BY Coordinates
<1>4. Rank(t) = Rank(s) + k * a /\ File(t) = File(s) + k * b
    BY DEF Lies
<1>5. /\ Rank(t) - Rank(s) = k * a /\ File(t) - File(s) = k * b
      /\ Rank(u) - Rank(t) = x - k * a /\ File(u) - File(t) = y - k * b
    BY <1>2, <1>3, <1>4
<1>6. x \in Int /\ y \in Int BY <1>3
<1>7. u \in Between(s, t) <=> u \notin {s, t} /\ OnSegment(x, y, a, b, k)
  <2>1. u \in Between(s, t) <=>
           /\ u \notin {s, t}
           /\ x * (File(t) - File(s)) = y * (Rank(t) - Rank(s))
           /\ x * (Rank(u) - Rank(t)) <= 0 /\ y * (File(u) - File(t)) <= 0
      BY DEF Between
  <2> HIDE DEF x, y, a, b
  <2> QED BY <1>5, <2>1 DEF OnSegment
<1>8. OnSegment(x, y, a, b, k) <=> \E j \in 0 .. k : x = j * a /\ y = j * b
  <2> HIDE DEF x, y, a, b
  <2> QED BY <1>1, <1>6, SegmentIs
<1>9. \A j \in Nat : j > 0 => (Lies(u, s, d, j) <=> x = j * a /\ y = j * b)
  <2> SUFFICES ASSUME NEW j \in Nat, j > 0 PROVE Lies(u, s, d, j) <=> x = j * a /\ y = j * b OBVIOUS
  <2>1. j * a \in Int /\ j * b \in Int BY <1>1 DEF Dirs
  <2>2. Lies(u, s, d, j) <=> Rank(u) = Rank(s) + j * a /\ File(u) = File(s) + j * b BY DEF Lies
  <2> QED BY <1>3, <2>1, <2>2
<1>10. x = 0 * a /\ y = 0 * b <=> u = s
  <2>1. 0 * a = 0 /\ 0 * b = 0 BY <1>1 DEF Dirs
  <2>2. x = 0 /\ y = 0 <=> Rank(u) = Rank(s) /\ File(u) = File(s) BY <1>3
  <2> QED BY <2>1, <2>2, SameSquare
<1>11. x = k * a /\ y = k * b <=> u = t
  <2>1. x = k * a /\ y = k * b <=> Rank(u) = Rank(t) /\ File(u) = File(t) BY <1>2, <1>3, <1>4
  <2> QED BY <2>1, SameSquare
<1>12. \A i, j \in Nat : x = i * a /\ y = i * b /\ x = j * a /\ y = j * b => i = j
  <2>1. \A i \in Nat : i * 1 = i /\ i * (-1) = -i OBVIOUS
  <2>2. a \in {1, -1} \/ b \in {1, -1} BY <1>1 DEF Dirs
  <2> HIDE DEF a, b, x, y
  <2>3. \A i, j \in Nat : i * a = j * a /\ i * b = j * b => i = j BY <2>1, <2>2
  <2> QED BY <2>3
<1> HIDE DEF x, y, a, b
<1>13. ASSUME u \in Between(s, t) PROVE \E j \in 1 .. k - 1 : Lies(u, s, d, j)
  <2>1. PICK j \in 0 .. k : x = j * a /\ y = j * b BY <1>7, <1>8, <1>13
  <2>2. j # 0 /\ j # k BY <1>7, <1>10, <1>11, <1>13, <2>1
  <2>3. j \in 1 .. k - 1 /\ j \in Nat /\ j > 0 BY <1>1, <2>2
  <2> QED BY <1>9, <2>1, <2>3
<1>14. ASSUME NEW j \in 1 .. k - 1, Lies(u, s, d, j) PROVE u \in Between(s, t)
  <2>1. j \in 0 .. k /\ j \in Nat /\ j > 0 /\ j # k /\ j # 0 /\ k \in Nat /\ 0 \in Nat BY <1>1
  <2>2. x = j * a /\ y = j * b BY <1>9, <1>14, <2>1
  <2>3. u # s BY <1>10, <1>12, <2>1, <2>2
  <2>4. u # t BY <1>11, <1>12, <2>1, <2>2
  <2> QED BY <1>7, <1>8, <2>1, <2>2, <2>3, <2>4
<1> QED BY <1>13, <1>14

\* The square j steps along a ray that stays on the board.
LEMMA RaySquare ==
    ASSUME NEW s \in Squares, NEW t \in Squares, NEW d \in Every, NEW k \in Nat, Lies(t, s, d, k),
           NEW j \in 1 .. k - 1
    PROVE  /\ s + j * SQUARE_TO_INT(d[1], d[2]) \in Squares
           /\ Lies(s + j * SQUARE_TO_INT(d[1], d[2]), s, d, j)
<1> DEFINE a == d[1]  b == d[2]  r == Rank(s) + j * a  f == File(s) + j * b
<1>1. a \in Dirs /\ b \in Dirs /\ (a # 0 \/ b # 0) /\ k \in 1 .. 7
    BY DirectionIs, RaySteps
<1>2. /\ Rank(s) \in 0 .. 7 /\ File(s) \in 0 .. 7 /\ Rank(t) \in 0 .. 7 /\ File(t) \in 0 .. 7
      /\ s = 8 * Rank(s) + File(s)
    BY Coordinates
<1>3. Rank(t) = Rank(s) + k * a /\ File(t) = File(s) + k * b
    BY DEF Lies
<1>4. SQUARE_TO_INT(a, b) = a * 8 + b BY DEF SQUARE_TO_INT
<1>5. /\ j * a = IF a = 0 THEN 0 ELSE IF a = 1 THEN j ELSE -j
      /\ j * b = IF b = 0 THEN 0 ELSE IF b = 1 THEN j ELSE -j
      /\ k * a = IF a = 0 THEN 0 ELSE IF a = 1 THEN k ELSE -k
      /\ k * b = IF b = 0 THEN 0 ELSE IF b = 1 THEN k ELSE -k
  <2>1. \A i \in Int : i * 0 = 0 /\ i * 1 = i /\ i * (-1) = -i OBVIOUS
  <2>2. j \in Int /\ k \in Int BY <1>1
  <2> HIDE DEF a, b
  <2> QED BY <1>1, <2>1, <2>2 DEF Dirs
<1>6. j * (a * 8 + b) = 8 * (j * a) + j * b
  <2> HIDE DEF a, b
  <2> QED BY <1>1 DEF Dirs
<1>7. r \in 0 .. 7 /\ f \in 0 .. 7
  <2> HIDE DEF a, b
  <2>1. /\ r = Rank(s) + (IF a = 0 THEN 0 ELSE IF a = 1 THEN j ELSE -j)
        /\ f = File(s) + (IF b = 0 THEN 0 ELSE IF b = 1 THEN j ELSE -j)
      BY <1>5
  <2>2. /\ Rank(t) = Rank(s) + (IF a = 0 THEN 0 ELSE IF a = 1 THEN k ELSE -k)
        /\ File(t) = File(s) + (IF b = 0 THEN 0 ELSE IF b = 1 THEN k ELSE -k)
      BY <1>3, <1>5
  <2> HIDE DEF r, f
  <2> QED BY <1>1, <1>2, <2>1, <2>2 DEF Dirs
<1>8. s + j * SQUARE_TO_INT(a, b) = 8 * r + f
  <2> HIDE DEF a, b
  <2>1. j * a \in Int /\ j * b \in Int BY <1>1 DEF Dirs
  <2> QED BY <1>2, <1>4, <1>6, <2>1
<1>9. 8 * r + f \in Squares /\ Rank(8 * r + f) = r /\ File(8 * r + f) = f
  <2> HIDE DEF r, f
  <2> QED BY <1>7, SquareAt
<1>10. j > 0 OBVIOUS
<1> QED BY <1>8, <1>9, <1>10 DEF Lies

---------------------------------------------------------------------------
\* What a piece reaches.

\* Nothing stands between two squares on a ray.
Clear(b, s, t) == \A u \in Between(s, t) : b[u] = EMPTY_SQUARE

LEMMA ClearIs ==
    ASSUME NEW s \in Squares, NEW t \in Squares, NEW d \in Every, NEW k \in Nat, Lies(t, s, d, k), NEW b
    PROVE  (\A j \in 1 .. k - 1 : b[s + j * SQUARE_TO_INT(d[1], d[2])] = EMPTY_SQUARE) <=> Clear(b, s, t)
<1> DEFINE at(j) == s + j * SQUARE_TO_INT(d[1], d[2])
<1>1. \A j \in 1 .. k - 1 : at(j) \in Squares /\ Lies(at(j), s, d, j) BY RaySquare
<1>2. \A u \in Squares : u \in Between(s, t) <=> \E j \in 1 .. k - 1 : Lies(u, s, d, j) BY BetweenIs
<1>3. \A u, v \in Squares, j \in 1 .. k - 1 : Lies(u, s, d, j) /\ Lies(v, s, d, j) => u = v
  <2>1. \A u, v \in Squares, j \in 1 .. k - 1 :
           Lies(u, s, d, j) /\ Lies(v, s, d, j) => Rank(u) = Rank(v) /\ File(u) = File(v)
      BY DEF Lies
  <2> QED BY <2>1, SameSquare
<1>4. \A u \in Between(s, t) : u \in Squares BY DEF Between
<1> HIDE DEF at
<1>5. (\A j \in 1 .. k - 1 : b[at(j)] = EMPTY_SQUARE) <=> Clear(b, s, t)
    BY <1>1, <1>2, <1>3, <1>4 DEF Clear
<1> QED BY <1>5 DEF at

\* The square may be entered: it is empty, or its piece is of the other colour.
Enterable(b, s, t) == b[t] = EMPTY_SQUARE \/ IS_WHITE(b[t]) # IS_WHITE(b[s])

OnRay(s, t, dirs) == \E d \in dirs : Lies(t, s, d, Steps(s, t))

LEMMA StepsType ==
    ASSUME NEW s \in Squares, NEW t \in Squares
    PROVE  Steps(s, t) \in 0 .. 7
BY Coordinates DEF Steps, Abs

LEMMA SlideIs ==
    ASSUME NEW s \in Squares, NEW t \in Squares, NEW dirs \in SUBSET Every, NEW b
    PROVE  handle_simple_piece(b, s, t, dirs, 8) <=> Enterable(b, s, t) /\ OnRay(s, t, dirs) /\ Clear(b, s, t)
<1> DEFINE k == Steps(s, t)
<1>1. k \in 0 .. 7 /\ k \in Nat /\ k <= 8 BY StepsType
<1> HIDE DEF k
<1>2. ASSUME NEW d \in dirs, Lies(t, s, d, k)
      PROVE  (\A j \in 1 .. k - 1 : b[s + j * SQUARE_TO_INT(d[1], d[2])] = EMPTY_SQUARE) <=> Clear(b, s, t)
    BY <1>1, <1>2, ClearIs
<1>3. handle_simple_piece(b, s, t, dirs, 8) <=>
         /\ Enterable(b, s, t)
         /\ \E d \in dirs :
               /\ Lies(t, s, d, k)
               /\ \A j \in 1 .. k - 1 : b[s + j * SQUARE_TO_INT(d[1], d[2])] = EMPTY_SQUARE
    BY <1>1 DEF handle_simple_piece, Enterable, k
<1> QED BY <1>2, <1>3 DEF OnRay, k

LEMMA OneStepIs ==
    ASSUME NEW s \in Squares, NEW t \in Squares, NEW dirs \in SUBSET Every, NEW b
    PROVE  handle_simple_piece(b, s, t, dirs, 1) <=> Enterable(b, s, t) /\ \E d \in dirs : Lies(t, s, d, 1)
<1> DEFINE k == Steps(s, t)
<1>1. k \in 0 .. 7 BY StepsType
<1>2. \A d \in dirs : Lies(t, s, d, 1) => k = 1 BY RaySteps
<1>3. \A d \in dirs : Lies(t, s, d, k) => k > 0 BY DEF Lies
<1>4. handle_simple_piece(b, s, t, dirs, 1) <=>
         /\ k <= 1 /\ Enterable(b, s, t)
         /\ \E d \in dirs :
               /\ Lies(t, s, d, k)
               /\ \A j \in 1 .. k - 1 : b[s + j * SQUARE_TO_INT(d[1], d[2])] = EMPTY_SQUARE
    BY DEF handle_simple_piece, Enterable
<1> HIDE DEF k
<1>5. k = 1 => 1 .. k - 1 = {} OBVIOUS
<1>6. k > 0 /\ k <= 1 => k = 1 BY <1>1
<1> QED BY <1>2, <1>3, <1>4, <1>5, <1>6

\* The offset of a square on a ray.
LEMMA LiesIs ==
    ASSUME NEW s \in Squares, NEW t \in Squares, NEW a \in Dirs, NEW b \in Dirs, NEW k \in Nat
    PROVE  Lies(t, s, <<a, b>>, k) <=>
              /\ k > 0
              /\ Rank(t) - Rank(s) = IF a = 0 THEN 0 ELSE IF a = 1 THEN k ELSE -k
              /\ File(t) - File(s) = IF b = 0 THEN 0 ELSE IF b = 1 THEN k ELSE -k
<1>1. \A c \in Dirs : k * c = IF c = 0 THEN 0 ELSE IF c = 1 THEN k ELSE -k
  <2>1. k * 0 = 0 /\ k * 1 = k /\ k * (-1) = -k OBVIOUS
  <2> QED BY <2>1 DEF Dirs
<1>2. \A c \in Dirs : k * c \in Int BY <1>1
<1>3. Rank(s) \in Int /\ File(s) \in Int /\ Rank(t) \in Int /\ File(t) \in Int BY Coordinates
<1>4. Lies(t, s, <<a, b>>, k) <=> k > 0 /\ Rank(t) = Rank(s) + k * a /\ File(t) = File(s) + k * b BY DEF Lies
<1>5. /\ Rank(t) = Rank(s) + k * a <=> Rank(t) - Rank(s) = k * a
      /\ File(t) = File(s) + k * b <=> File(t) - File(s) = k * b
    BY <1>2, <1>3
<1> QED BY <1>1, <1>4, <1>5

---------------------------------------------------------------------------
\* What the handlers and the searches return.

Boards   == [Squares -> Pieces]
LmValues == Squares \cup {NoSquare}
MoveRets == {"invalid", "valid", "short_castles", "long_castles", "en_passant"}
Verdicts == [ret : MoveRets, castles : SUBSET Rights, lm : LmValues]

LEMMA VerdictType ==
    ASSUME NEW c \in SUBSET Rights, NEW lm0 \in LmValues, NEW r \in MoveRets
    PROVE  Verdict(r, c, lm0) \in Verdicts
BY DEF Verdict, Verdicts

LEMMA JudgedType ==
    ASSUME NEW c \in SUBSET Rights, NEW lm0 \in LmValues, NEW valid
    PROVE  /\ Judged(valid, c, lm0) \in Verdicts
           /\ Judged(valid, c, lm0).castles = c /\ Judged(valid, c, lm0).lm = lm0
           /\ Judged(valid, c, lm0).ret = IF valid THEN "valid" ELSE "invalid"
BY VerdictType DEF Judged, Verdict, MoveRets

\* No colour is both.
LEMMA Colours ==
    ASSUME NEW x \in Pieces, x # EMPTY_SQUARE
    PROVE  /\ x \in White <=> IS_WHITE(x)
           /\ x \in Black <=> ~IS_WHITE(x)
           /\ IS_WHITE(x) \in BOOLEAN
BY DEF Pieces, White, Black, IS_WHITE, EMPTY_SQUARE

\* The square passed lies on the board.
LEMMA PassedType ==
    ASSUME NEW s \in Squares, NEW t \in Squares, NEW white \in BOOLEAN, IsDoubleStep(white, s, t)
    PROVE  Passed(white, s) \in Squares
<1>1. Rank(s) \in 0 .. 7 /\ File(s) \in 0 .. 7 /\ s = 8 * Rank(s) + File(s) BY Coordinates
<1>2. CASE white
  <2>1. Rank(s) = 1 /\ Passed(white, s) = s + 8 BY <1>2 DEF IsDoubleStep, Passed
  <2> QED BY <1>1, <2>1 DEF Squares
<1>3. CASE ~white
  <2>1. Rank(s) = 6 /\ Passed(white, s) = s - 8 BY <1>3 DEF IsDoubleStep, Passed
  <2> QED BY <1>1, <2>1 DEF Squares
<1> QED BY <1>2, <1>3

Kings == {"K", "k"}

\* A handler returns a verdict; only the king's takes rights away, those of its own side.
LEMMA MoveType ==
    ASSUME NEW b \in Boards, NEW c \in SUBSET Rights, NEW lm0 \in LmValues,
           NEW s \in Squares, NEW t \in Squares, b[s] # EMPTY_SQUARE
    PROVE  /\ move(b, c, lm0, s, t) \in Verdicts
           /\ b[s] \notin Kings => move(b, c, lm0, s, t).castles = c
           /\ move(b, c, lm0, s, t).castles \in
                 {c, c \ (IF IS_WHITE(b[s]) THEN WhiteRights ELSE BlackRights)}
           /\ s = t => move(b, c, lm0, s, t).ret = "invalid"
           /\ move(b, c, lm0, s, t).ret = "invalid" => move(b, c, lm0, s, t).lm = lm0
<1> DEFINE m == move(b, c, lm0, s, t)
           left == c \ (IF IS_WHITE(b[s]) THEN WhiteRights ELSE BlackRights)
           Fine(v) == /\ v \in Verdicts
                      /\ b[s] \notin Kings => v.castles = c
                      /\ v.castles \in {c, left}
                      /\ v.ret = "invalid" => v.lm = lm0
<1>0. b[s] \in Pieces /\ b[s] \in {"P", "p", "R", "r", "N", "n", "B", "b", "Q", "q", "K", "k"}
    BY DEF Boards, Pieces, White, Black
<1>1. \A valid : Fine(Judged(valid, c, lm0))
    BY JudgedType
<1>2. Fine(Verdict("invalid", c, lm0))
    BY VerdictType DEF MoveRets, Verdict
<1>3. CASE s = t
  <2>1. m = Verdict("invalid", c, lm0) BY <1>3 DEF move
  <2> QED BY <1>2, <2>1 DEF Verdict
<1>4. CASE s # t /\ b[s] \in {"P", "p"}
  <2>1. m = pawn_handle(b, c, lm0, s, t) BY <1>4 DEF move
  <2>2. Fine(pawn_handle(b, c, lm0, s, t))
    <3> DEFINE white == IS_WHITE(b[s])
    <3>1. white \in BOOLEAN BY DEF IS_WHITE
    <3>2. IsDoubleStep(white, s, t) => Passed(white, s) \in LmValues BY <3>1, PassedType DEF LmValues
    <3>3. NoSquare \in LmValues BY DEF LmValues
    <3>4. Fine(Verdict("en_passant", c, lm0)) BY VerdictType DEF Verdict, MoveRets
    <3>5. IsDoubleStep(white, s, t) => Fine(Verdict("valid", c, Passed(white, s)))
        BY <3>2, VerdictType DEF Verdict, MoveRets
    <3>6. Fine(Verdict("valid", c, NoSquare)) BY <3>3, VerdictType DEF Verdict, MoveRets
    <3>7. \/ pawn_handle(b, c, lm0, s, t) \in {Verdict("en_passant", c, lm0), Verdict("valid", c, NoSquare),
                                               Verdict("invalid", c, lm0)}
          \/ /\ IsDoubleStep(white, s, t)
             /\ pawn_handle(b, c, lm0, s, t) = Verdict("valid", c, Passed(white, s))
        BY DEF pawn_handle
    <3> HIDE DEF Fine
    <3> QED BY <1>2, <3>4, <3>5, <3>6, <3>7
  <2> QED BY <1>4, <2>1, <2>2
<1>5. CASE s # t /\ b[s] \in {"R", "r"}
    BY <1>1, <1>5 DEF move, rook_handle
<1>6. CASE s # t /\ b[s] \in {"N", "n"}
    BY <1>1, <1>6 DEF move, knight_handle
<1>7. CASE s # t /\ b[s] \in {"B", "b"}
    BY <1>1, <1>7 DEF move, bishop_handle
<1>8. CASE s # t /\ b[s] \in {"Q", "q"}
    BY <1>1, <1>8 DEF move, queen_handle
<1>9. CASE s # t /\ b[s] \in {"K", "k"}
  <2>1. m = king_handle(b, c, lm0, s, t) BY <1>9 DEF move
  <2>2. Fine(king_handle(b, c, lm0, s, t))
    <3>1. left \in SUBSET Rights /\ b[s] \in Kings BY <1>9 DEF Kings
    <3>2. \A valid : Fine(Judged(valid, left, lm0))
      <4> HIDE DEF left
      <4> QED BY <3>1, JudgedType
    <3>3. \A r \in MoveRets : Fine(Verdict(r, left, lm0)) BY <3>1, VerdictType DEF Verdict
    <3>4. \/ king_handle(b, c, lm0, s, t) = Judged(handle_simple_piece(b, s, t, Every, 1), left, lm0)
          \/ king_handle(b, c, lm0, s, t) = Verdict("long_castles", left, lm0)
          \/ king_handle(b, c, lm0, s, t) = Verdict("short_castles", left, lm0)
          \/ king_handle(b, c, lm0, s, t) = Verdict("invalid", c, lm0)
        BY DEF king_handle
    <3> HIDE DEF Fine, left
    <3> QED BY <1>2, <3>2, <3>3, <3>4 DEF MoveRets
  <2> QED BY <1>9, <2>1, <2>2
<1> QED BY <1>0, <1>3, <1>4, <1>5, <1>6, <1>7, <1>8, <1>9

LEMMA LeastIs ==
    ASSUME NEW S \in SUBSET Squares, S # {}
    PROVE  \E k \in S : Least(S) = {k}
<1> DEFINE R == {ss \in Nat \X Nat : ss[1] < ss[2]}
<1>1. IsWellFoundedOn(R, Nat) BY NatLessThanWellFounded DEF OpToRel
<1>2. S \subseteq Nat BY DEF Squares
<1>3. PICK k \in S : \A j \in S : <<j, k>> \notin R
  <2> HIDE DEF R
  <2> QED BY <1>1, <1>2, WFMin
<1>6. \A j \in S : ~(j < k) BY <1>2, <1>3
<1>4. \A j \in S : j \in Nat /\ k \in Nat /\ k <= j BY <1>2, <1>6
<1>5. Least(S) = {k} BY <1>4 DEF Least
<1> QED BY <1>5

LEMMA KingSquare ==
    ASSUME NEW b, NEW white, \E k \in Squares : b[k] = KING(white)
    PROVE  /\ KingOf(b, white) \in Squares /\ b[KingOf(b, white)] = KING(white)
           /\ get_king_sq(b, white) = {KingOf(b, white)}
<1> DEFINE S == {s \in Squares : b[s] = KING(white)}
<1>1. S \in SUBSET Squares /\ S # {} OBVIOUS
<1>2. PICK k \in S : get_king_sq(b, white) = {k}
  <2> HIDE DEF S
  <2>1. \E k \in S : Least(S) = {k} BY <1>1, LeastIs
  <2> QED BY <2>1 DEF get_king_sq, S
<1>3. KingOf(b, white) = k BY <1>2 DEF KingOf
<1> QED BY <1>2, <1>3

LEMMA KingMissing ==
    ASSUME NEW b, NEW white
    PROVE  get_king_sq(b, white) = {} <=> ~\E k \in Squares : b[k] = KING(white)
BY KingSquare DEF get_king_sq, Least

\* What the search for a check returns: it answers that there is none exactly when the
\* handlers refuse every move of the other side to the square.
CheckLeft(b, c, lm0, white, k) ==
    LET chk == is_in_check(b, c, lm0, white, k)
    IN  /\ chk.ret \in {"valid", "invalid"} /\ chk.castles = c /\ chk.lm \in LmValues
        /\ chk.ret = "invalid" <=> \A s \in PiecesOf(b, ~white) : move(b, c, lm0, s, k).ret = "invalid"
        /\ chk.ret = "invalid" => chk.lm = lm0

LEMMA CheckIs ==
    ASSUME NEW b \in Boards, NEW c \in SUBSET Rights, NEW lm0 \in LmValues, NEW white \in BOOLEAN,
           NEW k \in Squares
    PROVE  CheckLeft(b, c, lm0, white, k)
<1> DEFINE attackers == {s \in PiecesOf(b, ~white) : move(b, c, lm0, s, k).ret # "invalid"}
           first == CHOOSE r \in {move(b, c, lm0, s, k).lm : s \in Least(attackers)} : TRUE
           chk == is_in_check(b, c, lm0, white, k)
<1>1. \A s \in PiecesOf(b, ~white) : s \in Squares /\ b[s] # EMPTY_SQUARE
    BY DEF PiecesOf, is_players_piece
<1>2. attackers \in SUBSET Squares BY <1>1
<1>3. CASE attackers = {}
  <2>1. chk = Judged(FALSE, c, lm0) BY <1>3 DEF is_in_check
  <2> QED BY <1>3, <2>1 DEF Judged, Verdict, CheckLeft
<1>4. CASE attackers # {}
  <2>1. first \in LmValues
    <3>1. \E j \in attackers : Least(attackers) = {j}
      <4> HIDE DEF attackers
      <4> QED BY <1>2, <1>4, LeastIs
    <3>2. PICK j \in attackers : first = move(b, c, lm0, j, k).lm
      <4> HIDE DEF attackers
      <4> QED BY <3>1
    <3>3. move(b, c, lm0, j, k) \in Verdicts BY <1>1, MoveType
    <3> QED BY <3>2, <3>3 DEF Verdicts
  <2>2. chk = Judged(TRUE, c, first) BY <1>4 DEF is_in_check
  <2> HIDE DEF first
  <2> QED BY <1>4, <2>1, <2>2 DEF Judged, Verdict, CheckLeft
<1> QED BY <1>3, <1>4

LEMMA MoveMakesBoard ==
    ASSUME NEW b \in Boards, NEW s \in Squares, NEW t \in Squares
    PROVE  /\ MOVE(b, s, t) \in Boards
           /\ \A u \in Squares : MOVE(b, s, t)[u] =
                 IF u = t THEN b[s] ELSE IF u = s THEN EMPTY_SQUARE ELSE b[u]
BY DEF MOVE, Boards, Pieces

---------------------------------------------------------------------------
\* The loops of the search for a mate.

Accs == [found : {"none", "escape", "no_king"}, board : Boards, castles : SUBSET Rights, lm : LmValues]

\* What a search begun on the board b may have left: b, unless it took the king off.
Left(b, white) ==
    {acc \in Accs : IF acc.found = "no_king" THEN get_king_sq(acc.board, white) = {} ELSE acc.board = b}

LEMMA TryLeaves ==
    ASSUME NEW b \in Boards, NEW white \in BOOLEAN, NEW acc \in Left(b, white), acc.found = "none",
           NEW s \in Squares, NEW t \in Squares, is_players_piece(white, b[s])
    PROVE  Try(acc, white, s, t) \in Left(b, white)
<1> DEFINE r    == move(acc.board, acc.castles, acc.lm, s, t)
           made == MOVE(acc.board, s, t)
           king == get_king_sq(made, white)
           chk  == is_in_check(made, r.castles, r.lm, white, CHOOSE k \in king : TRUE)
           next == Try(acc, white, s, t)
<1>1. acc \in Accs /\ acc.board = b BY DEF Left
<1>2. acc.board \in Boards /\ acc.castles \in SUBSET Rights /\ acc.lm \in LmValues BY <1>1 DEF Accs
<1>3. r \in Verdicts BY <1>1, <1>2, MoveType DEF is_players_piece
<1>4. made \in Boards BY <1>2, MoveMakesBoard
<1>5. next = IF r.ret \notin {"valid", "en_passant"} THEN [acc EXCEPT !.castles = r.castles]
             ELSE IF king = {}
             THEN [found |-> "no_king", board |-> made, castles |-> r.castles, lm |-> r.lm]
             ELSE [acc EXCEPT !.castles = r.castles, !.lm = chk.lm,
                              !.found = IF chk.ret = "invalid" THEN "escape" ELSE "none"]
    BY DEF Try
<1>6. king # {} => chk.lm \in LmValues
  <2> SUFFICES ASSUME king # {} PROVE chk.lm \in LmValues OBVIOUS
  <2>1. \E k \in Squares : made[k] = KING(white) BY KingMissing
  <2>2. KingOf(made, white) \in Squares BY <2>1, KingSquare
  <2>3. r.castles \in SUBSET Rights /\ r.lm \in LmValues BY <1>3 DEF Verdicts
  <2>4. is_in_check(made, r.castles, r.lm, white, KingOf(made, white)).lm \in LmValues
    <3> HIDE DEF r, made
    <3> QED BY <1>4, <2>2, <2>3, CheckIs DEF CheckLeft
  <2> QED BY <2>4 DEF KingOf
<1> HIDE DEF next, chk, r, made
<1>7. CASE r.ret \notin {"valid", "en_passant"}
  <2>1. next = [acc EXCEPT !.castles = r.castles] BY <1>5, <1>7
  <2> QED BY <1>1, <1>3, <2>1 DEF Left, Accs, Verdicts, next
<1>8. CASE r.ret \in {"valid", "en_passant"} /\ king = {}
  <2>1. next = [found |-> "no_king", board |-> made, castles |-> r.castles, lm |-> r.lm] BY <1>5, <1>8
  <2> QED BY <1>3, <1>4, <1>8, <2>1 DEF Left, Accs, Verdicts, next
<1>9. CASE r.ret \in {"valid", "en_passant"} /\ king # {}
  <2>1. next = [acc EXCEPT !.castles = r.castles, !.lm = chk.lm,
                           !.found = IF chk.ret = "invalid" THEN "escape" ELSE "none"]
      BY <1>5, <1>9
  <2> QED BY <1>1, <1>3, <1>6, <1>9, <2>1 DEF Left, Accs, Verdicts, next
<1> QED BY <1>7, <1>8, <1>9 DEF next

\* The places a loop goes through: the ranks, or the files of a rank.
Places == 0 .. 7

LEMMA SquareIs ==
    ASSUME NEW rank \in Places, NEW file \in Places
    PROVE  SQUARE_TO_INT(rank, file) \in Squares
<1>1. SQUARE_TO_INT(rank, file) = 8 * rank + file BY DEF SQUARE_TO_INT, Places
<1> QED BY <1>1, SquareAt DEF Places

LEMMA SquareHas ==
    ASSUME NEW s \in Squares
    PROVE  Rank(s) \in Places /\ File(s) \in Places /\ s = SQUARE_TO_INT(Rank(s), File(s))
<1>1. Rank(s) \in 0 .. 7 /\ File(s) \in 0 .. 7 /\ s = 8 * Rank(s) + File(s) BY Coordinates
<1> QED BY <1>1 DEF SQUARE_TO_INT, Places

LEMMA UpToEnd ==
    ASSUME NEW Q, 0 \in Q, \A i \in 1 .. 8 : i - 1 \in Q => i \in Q
    PROVE  0 .. 8 \subseteq Q
<1>1. 1 \in Q /\ 2 \in Q /\ 3 \in Q /\ 4 \in Q OBVIOUS
<1>2. 5 \in Q /\ 6 \in Q /\ 7 \in Q /\ 8 \in Q BY <1>1
<1>3. \A i \in 0 .. 8 : i = 0 \/ i = 1 \/ i = 2 \/ i = 3 \/ i = 4 \/ i = 5 \/ i = 6 \/ i = 7 \/ i = 8
    OBVIOUS
<1> QED BY <1>1, <1>2, <1>3

\* The equation of a loop's function, for a step that stays in a set.
Turn(G, prev, i) == IF prev.found = "none" THEN G[<<prev, i>>] ELSE prev

LoopOf(f, a0, G) == f = [i \in 0 .. 8 |-> IF i = 0 THEN a0 ELSE Turn(G, f[i - 1], i - 1)]

LEMMA LoopRuns ==
    ASSUME NEW S, NEW a0 \in S, NEW G \in [S \X Places -> S]
    PROVE  \E f \in [0 .. 8 -> S] : LoopOf(f, a0, G)
<1> DEFINE Runs(f, n) == /\ f \in [0 .. n -> S] /\ f[0] = a0
                         /\ \A i \in 1 .. n : f[i] = Turn(G, f[i - 1], i - 1)
           Q == {n \in 0 .. 8 : \E f : Runs(f, n)}
<1>1. 0 \in Q
  <2>1. Runs([i \in 0 .. 0 |-> a0], 0) OBVIOUS
  <2> HIDE DEF Runs
  <2> QED BY <2>1
<1>2. ASSUME NEW n \in 1 .. 8, n - 1 \in Q PROVE n \in Q
  <2>1. PICK f : Runs(f, n - 1) BY <1>2
  <2> DEFINE g == [i \in 0 .. n |-> IF i = n THEN Turn(G, f[n - 1], n - 1) ELSE f[i]]
  <2>2. f[n - 1] \in S /\ n - 1 \in Places BY <2>1 DEF Places
  <2>3. Turn(G, f[n - 1], n - 1) \in S BY <2>2 DEF Turn
  <2>4. \A i \in 0 .. n - 1 : g[i] = f[i] /\ f[i] \in S BY <2>1
  <2>5. g[n] = Turn(G, f[n - 1], n - 1) OBVIOUS
  <2>6. g \in [0 .. n -> S]
    <3>1. \A i \in 0 .. n : i = n \/ i \in 0 .. n - 1 OBVIOUS
    <3>2. \A i \in 0 .. n : (IF i = n THEN Turn(G, f[n - 1], n - 1) ELSE f[i]) \in S
        BY <2>3, <2>4, <3>1
    <3> QED BY <3>2
  <2>7. g[0] = a0 BY <2>1, <2>4
  <2>8. ASSUME NEW i \in 1 .. n PROVE g[i] = Turn(G, g[i - 1], i - 1)
    <3>1. g[i - 1] = f[i - 1] BY <2>4
    <3>2. CASE i = n BY <2>5, <3>1, <3>2
    <3>3. CASE i # n
      <4>1. i \in 1 .. n - 1 BY <3>3
      <4>2. f[i] = Turn(G, f[i - 1], i - 1) BY <2>1, <4>1
      <4> QED BY <2>4, <3>1, <4>1, <4>2
    <3> QED BY <3>2, <3>3
  <2>9. Runs(g, n)
    <3> HIDE DEF g
    <3> QED BY <2>6, <2>7, <2>8
  <2> HIDE DEF Runs, g
  <2> QED BY <2>9
<1>3. 8 \in Q
  <2> HIDE DEF Q
  <2>1. 0 .. 8 \subseteq Q BY <1>1, <1>2, UpToEnd
  <2> QED BY <2>1
<1>4. PICK f : Runs(f, 8) BY <1>3
<1>5. f = [i \in 0 .. 8 |-> f[i]] BY <1>4
<1>6. \A i \in 0 .. 8 : f[i] = IF i = 0 THEN a0 ELSE Turn(G, f[i - 1], i - 1)
    BY <1>4
<1>7. f = [i \in 0 .. 8 |-> IF i = 0 THEN a0 ELSE Turn(G, f[i - 1], i - 1)]
    BY <1>5, <1>6
<1> QED BY <1>4, <1>7 DEF LoopOf

\* A loop that ends without a find has found nothing on the way.
Follows(f, g) == \A i \in 1 .. 8 : f[i] = IF f[i - 1].found = "none" THEN g[i - 1] ELSE f[i - 1]
Passes(f, g)  == \A i \in Places : f[i].found = "none" /\ f[i + 1].found = "none" /\ f[i + 1] = g[i]

LEMMA LoopPasses ==
    ASSUME NEW f, NEW g, f[8].found = "none", Follows(f, g)
    PROVE  Passes(f, g)
<1> USE DEF Follows, Passes
<1> DEFINE Q == {i \in 0 .. 8 : f[8 - i].found = "none"}
<1>1. 0 \in Q OBVIOUS
<1>2. ASSUME NEW i \in 1 .. 8, i - 1 \in Q PROVE i \in Q
  <2>1. f[8 - (i - 1)].found = "none" BY <1>2
  <2>2. 8 - (i - 1) \in 1 .. 8 /\ (8 - (i - 1)) - 1 = 8 - i OBVIOUS
  <2>3. f[8 - (i - 1)] = IF f[8 - i].found = "none" THEN g[8 - i] ELSE f[8 - i] BY <2>2
  <2>4. f[8 - i].found = "none" BY <2>1, <2>3
  <2> QED BY <2>4
<1>3. 0 .. 8 \subseteq Q
  <2> HIDE DEF Q
  <2> QED BY <1>1, <1>2, UpToEnd
<1>4. ASSUME NEW j \in 0 .. 8 PROVE f[j].found = "none"
  <2>1. 8 - j \in 0 .. 8 /\ 8 - (8 - j) = j OBVIOUS
  <2>2. 8 - j \in Q
    <3> HIDE DEF Q
    <3> QED BY ONLY <1>3, <2>1
  <2>3. \A i \in Q : f[8 - i].found = "none" OBVIOUS
  <2>4. f[8 - (8 - j)].found = "none"
    <3> HIDE DEF Q
    <3> QED BY ONLY <2>2, <2>3
  <2> QED BY ONLY <2>1, <2>4
<1>5. SUFFICES ASSUME NEW i \in Places PROVE f[i].found = "none" /\ f[i + 1].found = "none" /\ f[i + 1] = g[i]
    OBVIOUS
<1>6. i \in 0 .. 8 /\ i + 1 \in 1 .. 8 /\ i + 1 \in 0 .. 8 /\ (i + 1) - 1 = i BY DEF Places
<1>7. f[i].found = "none" /\ f[i + 1].found = "none" BY <1>4, <1>6
<1>8. f[i + 1] = IF f[i].found = "none" THEN g[i] ELSE f[i] BY <1>6
<1> QED BY <1>7, <1>8

\* The states f that a loop goes through, and what its steps make of them, when it stays in S.
Run(f, g, S, a0, end) ==
    /\ f[0] = a0 /\ f[8] = end /\ Follows(f, g)
    /\ \A i \in 0 .. 8 : f[i] \in S

LEMMA LoopStays ==
    ASSUME NEW S, NEW f, NEW g, f[0] \in S, Follows(f, g),
           \A i \in Places : f[i] \in S /\ f[i].found = "none" => g[i] \in S
    PROVE  \A i \in 0 .. 8 : f[i] \in S
<1> DEFINE Q == {i \in 0 .. 8 : f[i] \in S}
<1>1. 0 \in Q OBVIOUS
<1>2. ASSUME NEW i \in 1 .. 8, i - 1 \in Q PROVE i \in Q
  <2>1. i - 1 \in Places BY DEF Places
  <2>2. f[i] = IF f[i - 1].found = "none" THEN g[i - 1] ELSE f[i - 1] BY DEF Follows
  <2> QED BY <1>2, <2>1, <2>2
<1>3. 0 .. 8 \subseteq Q
  <2> HIDE DEF Q
  <2> QED BY <1>1, <1>2, UpToEnd
<1> QED BY <1>3

LEMMA RunPasses ==
    ASSUME NEW S, NEW f, NEW g, NEW a0, NEW end, Run(f, g, S, a0, end)
    PROVE  /\ end \in S
           /\ end.found = "none"
                 => \A i \in Places : f[i] \in S /\ f[i].found = "none" /\ g[i].found = "none"
<1>1. f[8] = end /\ Follows(f, g) /\ \A i \in 0 .. 8 : f[i] \in S BY DEF Run
<1>2. ASSUME end.found = "none" PROVE Passes(f, g)
  <2>1. f[8].found = "none" BY <1>1, <1>2
  <2> QED BY ONLY <1>1, <2>1, LoopPasses
<1>3. \A i \in Places : i \in 0 .. 8 BY DEF Places
<1> QED BY <1>1, <1>2, <1>3 DEF Passes

LEMMA TriesToRankRuns ==
    ASSUME NEW S, NEW white, NEW s, NEW rank_to, NEW acc \in S,
           \A a \in S, i \in Places :
              a.found = "none" => Try(a, white, s, SQUARE_TO_INT(rank_to, i)) \in S
    PROVE  \E f, g : /\ Run(f, g, S, acc, TriesToRank(acc, white, s, rank_to))
                      /\ \A i \in Places : g[i] = Try(f[i], white, s, SQUARE_TO_INT(rank_to, i))
<1> DEFINE Go(a, i) == Try(a, white, s, SQUARE_TO_INT(rank_to, i))
           u == CHOOSE f : f = [i \in 0 .. 8 |->
                   IF i = 0 THEN acc
                   ELSE IF f[i - 1].found = "none" THEN Go(f[i - 1], i - 1) ELSE f[i - 1]]
           G == [p \in S \X Places |-> IF p[1].found = "none" THEN Go(p[1], p[2]) ELSE p[1]]
           g == [i \in Places |-> Go(u[i], i)]
<1>1. TriesToRank(acc, white, s, rank_to) = u[8]
    BY DEF TriesToRank, Loop
<1>2. \A a \in S, i \in Places : a.found = "none" => Go(a, i) \in S
    OBVIOUS
<1>3. \A i \in Places : Go(u[i], i) = Try(u[i], white, s, SQUARE_TO_INT(rank_to, i))
    OBVIOUS
<1> HIDE DEF Go
<1>4. G \in [S \X Places -> S]
    BY <1>2
<1>5. \A p \in S, i \in Places : Turn(G, p, i) = IF p.found = "none" THEN Go(p, i) ELSE p
    BY DEF Turn
<1>6. \A i \in Places : g[i] = Go(u[i], i)
    OBVIOUS
<1> HIDE DEF G, g
<1>7. PICK f \in [0 .. 8 -> S] : LoopOf(f, acc, G)
  <2> HIDE DEF u
  <2> QED BY <1>4, LoopRuns
<1>8. f = [i \in 0 .. 8 |-> IF i = 0 THEN acc
             ELSE IF f[i - 1].found = "none" THEN Go(f[i - 1], i - 1) ELSE f[i - 1]]
  <2>1. \A i \in 0 .. 8 : i # 0 => f[i - 1] \in S /\ i - 1 \in Places BY <1>7 DEF Places
  <2>2. \A i \in 0 .. 8 : i # 0 =>
           Turn(G, f[i - 1], i - 1) = IF f[i - 1].found = "none" THEN Go(f[i - 1], i - 1) ELSE f[i - 1]
      BY <1>5, <2>1
  <2> QED BY <1>7, <2>2 DEF LoopOf
<1>9. u = [i \in 0 .. 8 |-> IF i = 0 THEN acc
             ELSE IF u[i - 1].found = "none" THEN Go(u[i - 1], i - 1) ELSE u[i - 1]]
    BY <1>8
<1> HIDE DEF u
<1>10. u[0] = acc /\ Follows(u, g)
  <2>1. \A i \in 1 .. 8 : i - 1 \in Places BY DEF Places
  <2>2. \A i \in 1 .. 8 : g[i - 1] = Go(u[i - 1], i - 1) BY <1>6, <2>1
  <2> QED BY <1>9, <2>2 DEF Follows
<1>11. \A i \in Places : u[i] \in S /\ u[i].found = "none" => g[i] \in S BY <1>2, <1>6
<1>12. Run(u, g, S, acc, TriesToRank(acc, white, s, rank_to)) BY <1>1, <1>10, <1>11, LoopStays DEF Run
<1> QED BY <1>3, <1>6, <1>12

LEMMA TriesFromRuns ==
    ASSUME NEW S, NEW white, NEW s, NEW acc \in S,
           \A a \in S, i \in Places : a.found = "none" => TriesToRank(a, white, s, i) \in S
    PROVE  \E f, g : /\ Run(f, g, S, acc, TriesFrom(acc, white, s))
                      /\ \A i \in Places : g[i] = TriesToRank(f[i], white, s, i)
<1> DEFINE Go(a, i) == TriesToRank(a, white, s, i)
           u == CHOOSE f : f = [i \in 0 .. 8 |->
                   IF i = 0 THEN acc
                   ELSE IF f[i - 1].found = "none" THEN Go(f[i - 1], i - 1) ELSE f[i - 1]]
           G == [p \in S \X Places |-> IF p[1].found = "none" THEN Go(p[1], p[2]) ELSE p[1]]
           g == [i \in Places |-> Go(u[i], i)]
<1>1. TriesFrom(acc, white, s) = u[8]
    BY DEF TriesFrom, Loop
<1>2. \A a \in S, i \in Places : a.found = "none" => Go(a, i) \in S
    OBVIOUS
<1>3. \A i \in Places : Go(u[i], i) = TriesToRank(u[i], white, s, i)
    OBVIOUS
<1> HIDE DEF Go
<1>4. G \in [S \X Places -> S]
    BY <1>2
<1>5. \A p \in S, i \in Places : Turn(G, p, i) = IF p.found = "none" THEN Go(p, i) ELSE p
    BY DEF Turn
<1>6. \A i \in Places : g[i] = Go(u[i], i)
    OBVIOUS
<1> HIDE DEF G, g
<1>7. PICK f \in [0 .. 8 -> S] : LoopOf(f, acc, G)
  <2> HIDE DEF u
  <2> QED BY <1>4, LoopRuns
<1>8. f = [i \in 0 .. 8 |-> IF i = 0 THEN acc
             ELSE IF f[i - 1].found = "none" THEN Go(f[i - 1], i - 1) ELSE f[i - 1]]
  <2>1. \A i \in 0 .. 8 : i # 0 => f[i - 1] \in S /\ i - 1 \in Places BY <1>7 DEF Places
  <2>2. \A i \in 0 .. 8 : i # 0 =>
           Turn(G, f[i - 1], i - 1) = IF f[i - 1].found = "none" THEN Go(f[i - 1], i - 1) ELSE f[i - 1]
      BY <1>5, <2>1
  <2> QED BY <1>7, <2>2 DEF LoopOf
<1>9. u = [i \in 0 .. 8 |-> IF i = 0 THEN acc
             ELSE IF u[i - 1].found = "none" THEN Go(u[i - 1], i - 1) ELSE u[i - 1]]
    BY <1>8
<1> HIDE DEF u
<1>10. u[0] = acc /\ Follows(u, g)
  <2>1. \A i \in 1 .. 8 : i - 1 \in Places BY DEF Places
  <2>2. \A i \in 1 .. 8 : g[i - 1] = Go(u[i - 1], i - 1) BY <1>6, <2>1
  <2> QED BY <1>9, <2>2 DEF Follows
<1>11. \A i \in Places : u[i] \in S /\ u[i].found = "none" => g[i] \in S BY <1>2, <1>6
<1>12. Run(u, g, S, acc, TriesFrom(acc, white, s)) BY <1>1, <1>10, <1>11, LoopStays DEF Run
<1> QED BY <1>3, <1>6, <1>12

\* A turn of the loop over the files of a rank: the tries with the piece there, if it is one's own.
TriesAt(a, white, s) == IF is_players_piece(white, a.board[s]) THEN TriesFrom(a, white, s) ELSE a

LEMMA TriesOnRankRuns ==
    ASSUME NEW S, NEW white, NEW rank, NEW acc \in S,
           \A a \in S, i \in Places :
              a.found = "none" => TriesAt(a, white, SQUARE_TO_INT(rank, i)) \in S
    PROVE  \E f, g : /\ Run(f, g, S, acc, TriesOnRank(acc, white, rank))
                      /\ \A i \in Places : g[i] = TriesAt(f[i], white, SQUARE_TO_INT(rank, i))
<1> DEFINE Go(a, i) == TriesAt(a, white, SQUARE_TO_INT(rank, i))
           u == CHOOSE f : f = [i \in 0 .. 8 |->
                   IF i = 0 THEN acc
                   ELSE IF f[i - 1].found = "none" THEN Go(f[i - 1], i - 1) ELSE f[i - 1]]
           G == [p \in S \X Places |-> IF p[1].found = "none" THEN Go(p[1], p[2]) ELSE p[1]]
           g == [i \in Places |-> Go(u[i], i)]
<1>1. TriesOnRank(acc, white, rank) = u[8]
    BY DEF TriesOnRank, TriesAt, Loop
<1>2. \A a \in S, i \in Places : a.found = "none" => Go(a, i) \in S
    OBVIOUS
<1>3. \A i \in Places : Go(u[i], i) = TriesAt(u[i], white, SQUARE_TO_INT(rank, i))
    OBVIOUS
<1> HIDE DEF Go
<1>4. G \in [S \X Places -> S]
    BY <1>2
<1>5. \A p \in S, i \in Places : Turn(G, p, i) = IF p.found = "none" THEN Go(p, i) ELSE p
    BY DEF Turn
<1>6. \A i \in Places : g[i] = Go(u[i], i)
    OBVIOUS
<1> HIDE DEF G, g
<1>7. PICK f \in [0 .. 8 -> S] : LoopOf(f, acc, G)
  <2> HIDE DEF u
  <2> QED BY <1>4, LoopRuns
<1>8. f = [i \in 0 .. 8 |-> IF i = 0 THEN acc
             ELSE IF f[i - 1].found = "none" THEN Go(f[i - 1], i - 1) ELSE f[i - 1]]
  <2>1. \A i \in 0 .. 8 : i # 0 => f[i - 1] \in S /\ i - 1 \in Places BY <1>7 DEF Places
  <2>2. \A i \in 0 .. 8 : i # 0 =>
           Turn(G, f[i - 1], i - 1) = IF f[i - 1].found = "none" THEN Go(f[i - 1], i - 1) ELSE f[i - 1]
      BY <1>5, <2>1
  <2> QED BY <1>7, <2>2 DEF LoopOf
<1>9. u = [i \in 0 .. 8 |-> IF i = 0 THEN acc
             ELSE IF u[i - 1].found = "none" THEN Go(u[i - 1], i - 1) ELSE u[i - 1]]
    BY <1>8
<1> HIDE DEF u
<1>10. u[0] = acc /\ Follows(u, g)
  <2>1. \A i \in 1 .. 8 : i - 1 \in Places BY DEF Places
  <2>2. \A i \in 1 .. 8 : g[i - 1] = Go(u[i - 1], i - 1) BY <1>6, <2>1
  <2> QED BY <1>9, <2>2 DEF Follows
<1>11. \A i \in Places : u[i] \in S /\ u[i].found = "none" => g[i] \in S BY <1>2, <1>6
<1>12. Run(u, g, S, acc, TriesOnRank(acc, white, rank)) BY <1>1, <1>10, <1>11, LoopStays DEF Run
<1> QED BY <1>3, <1>6, <1>12

LEMMA TriesRuns ==
    ASSUME NEW S, NEW white, NEW acc \in S,
           \A a \in S, i \in Places : a.found = "none" => TriesOnRank(a, white, i) \in S
    PROVE  \E f, g : /\ Run(f, g, S, acc, Tries(acc, white))
                      /\ \A i \in Places : g[i] = TriesOnRank(f[i], white, i)
<1> DEFINE Go(a, i) == TriesOnRank(a, white, i)
           u == CHOOSE f : f = [i \in 0 .. 8 |->
                   IF i = 0 THEN acc
                   ELSE IF f[i - 1].found = "none" THEN Go(f[i - 1], i - 1) ELSE f[i - 1]]
           G == [p \in S \X Places |-> IF p[1].found = "none" THEN Go(p[1], p[2]) ELSE p[1]]
           g == [i \in Places |-> Go(u[i], i)]
<1>1. Tries(acc, white) = u[8]
    BY DEF Tries, Loop
<1>2. \A a \in S, i \in Places : a.found = "none" => Go(a, i) \in S
    OBVIOUS
<1>3. \A i \in Places : Go(u[i], i) = TriesOnRank(u[i], white, i)
    OBVIOUS
<1> HIDE DEF Go
<1>4. G \in [S \X Places -> S]
    BY <1>2
<1>5. \A p \in S, i \in Places : Turn(G, p, i) = IF p.found = "none" THEN Go(p, i) ELSE p
    BY DEF Turn
<1>6. \A i \in Places : g[i] = Go(u[i], i)
    OBVIOUS
<1> HIDE DEF G, g
<1>7. PICK f \in [0 .. 8 -> S] : LoopOf(f, acc, G)
  <2> HIDE DEF u
  <2> QED BY <1>4, LoopRuns
<1>8. f = [i \in 0 .. 8 |-> IF i = 0 THEN acc
             ELSE IF f[i - 1].found = "none" THEN Go(f[i - 1], i - 1) ELSE f[i - 1]]
  <2>1. \A i \in 0 .. 8 : i # 0 => f[i - 1] \in S /\ i - 1 \in Places BY <1>7 DEF Places
  <2>2. \A i \in 0 .. 8 : i # 0 =>
           Turn(G, f[i - 1], i - 1) = IF f[i - 1].found = "none" THEN Go(f[i - 1], i - 1) ELSE f[i - 1]
      BY <1>5, <2>1
  <2> QED BY <1>7, <2>2 DEF LoopOf
<1>9. u = [i \in 0 .. 8 |-> IF i = 0 THEN acc
             ELSE IF u[i - 1].found = "none" THEN Go(u[i - 1], i - 1) ELSE u[i - 1]]
    BY <1>8
<1> HIDE DEF u
<1>10. u[0] = acc /\ Follows(u, g)
  <2>1. \A i \in 1 .. 8 : i - 1 \in Places BY DEF Places
  <2>2. \A i \in 1 .. 8 : g[i - 1] = Go(u[i - 1], i - 1) BY <1>6, <2>1
  <2> QED BY <1>9, <2>2 DEF Follows
<1>11. \A i \in Places : u[i] \in S /\ u[i].found = "none" => g[i] \in S BY <1>2, <1>6
<1>12. Run(u, g, S, acc, Tries(acc, white)) BY <1>1, <1>10, <1>11, LoopStays DEF Run
<1> QED BY <1>3, <1>6, <1>12

\* A set that every try begun in it stays in, for the pieces on the board b.
Stays(S, b, white) ==
    /\ \A a \in S : a.found = "none" => a.board = b
    /\ \A a \in S, s \in Squares, t \in Squares :
          a.found = "none" /\ is_players_piece(white, b[s]) => Try(a, white, s, t) \in S

LEMMA LoopsStay ==
    ASSUME NEW S, NEW b, NEW white, Stays(S, b, white)
    PROVE  /\ \A a \in S, s \in Squares, i \in Places :
                 is_players_piece(white, b[s]) => TriesToRank(a, white, s, i) \in S
           /\ \A a \in S, s \in Squares : is_players_piece(white, b[s]) => TriesFrom(a, white, s) \in S
           /\ \A a \in S, s \in Squares : a.found = "none" => TriesAt(a, white, s) \in S
           /\ \A a \in S, i \in Places : TriesOnRank(a, white, i) \in S
           /\ \A a \in S : Tries(a, white) \in S
<1>1. ASSUME NEW a \in S, NEW s \in Squares, NEW rank \in Places, is_players_piece(white, b[s])
      PROVE  TriesToRank(a, white, s, rank) \in S
  <2>1. \A acc \in S, i \in Places : acc.found = "none" => Try(acc, white, s, SQUARE_TO_INT(rank, i)) \in S
      BY <1>1, SquareIs DEF Stays
  <2>2. PICK f, g : Run(f, g, S, a, TriesToRank(a, white, s, rank)) BY <2>1, TriesToRankRuns
  <2> QED BY ONLY <2>2, RunPasses
<1>2. ASSUME NEW a \in S, NEW s \in Squares, is_players_piece(white, b[s])
      PROVE  TriesFrom(a, white, s) \in S
  <2>1. \A acc \in S, i \in Places : acc.found = "none" => TriesToRank(acc, white, s, i) \in S BY <1>1, <1>2
  <2>2. PICK f, g : Run(f, g, S, a, TriesFrom(a, white, s)) BY <2>1, TriesFromRuns
  <2> QED BY ONLY <2>2, RunPasses
<1>3. ASSUME NEW a \in S, NEW s \in Squares, a.found = "none" PROVE TriesAt(a, white, s) \in S
  <2>1. a.board = b BY <1>3 DEF Stays
  <2> QED BY <1>2, <2>1 DEF TriesAt
<1>4. ASSUME NEW a \in S, NEW rank \in Places PROVE TriesOnRank(a, white, rank) \in S
  <2>1. \A acc \in S, i \in Places : acc.found = "none" => TriesAt(acc, white, SQUARE_TO_INT(rank, i)) \in S
      BY <1>3, SquareIs
  <2>2. PICK f, g : Run(f, g, S, a, TriesOnRank(a, white, rank)) BY <2>1, TriesOnRankRuns
  <2> QED BY ONLY <2>2, RunPasses
<1>5. ASSUME NEW a \in S PROVE Tries(a, white) \in S
  <2>1. \A acc \in S, i \in Places : acc.found = "none" => TriesOnRank(acc, white, i) \in S BY <1>4
  <2>2. PICK f, g : Run(f, g, S, a, Tries(a, white)) BY <2>1, TriesRuns
  <2> QED BY ONLY <2>2, RunPasses
<1> QED BY <1>1, <1>2, <1>3, <1>4, <1>5

LEMMA TriesLeaves ==
    ASSUME NEW b \in Boards, NEW white \in BOOLEAN, NEW acc \in Left(b, white)
    PROVE  Tries(acc, white) \in Left(b, white)
<1> DEFINE S == Left(b, white)
<1>1. \A a \in S : a.found = "none" => a.board = b BY DEF Left
<1>2. \A a \in S, s \in Squares, t \in Squares :
         a.found = "none" /\ is_players_piece(white, b[s]) => Try(a, white, s, t) \in S
    BY TryLeaves
<1> HIDE DEF S
<1>3. Stays(S, b, white) BY <1>1, <1>2 DEF Stays
<1>4. acc \in S BY DEF S
<1>5. Tries(acc, white) \in S BY ONLY <1>3, <1>4, LoopsStay
<1> QED BY <1>5 DEF S

\* What the search for a mate leaves: the board and the rights as they were, unless a try
\* has taken the king off, which it calls a mate.
MateLeft(b, c, lm0, white, k) ==
    LET r == is_mate(b, c, lm0, white, k)
    IN  /\ r.mate \in BOOLEAN /\ r.board \in Boards /\ r.castles \in SUBSET Rights /\ r.lm \in LmValues
        /\ (\E s \in Squares : r.board[s] = KING(white)) => r.board = b /\ r.castles = c
        /\ ~r.mate => r.board = b /\ r.castles = c
        /\ is_in_check(b, c, lm0, white, k).ret = "invalid" => ~r.mate /\ r.lm = lm0
        /\ r.mate => is_in_check(b, c, lm0, white, k).ret = "valid"

LEMMA MateLeaves ==
    ASSUME NEW b \in Boards, NEW c \in SUBSET Rights, NEW lm0 \in LmValues, NEW white \in BOOLEAN,
           NEW k \in Squares
    PROVE  MateLeft(b, c, lm0, white, k)
<1> DEFINE chk  == is_in_check(b, c, lm0, white, k)
           acc  == [found |-> "none", board |-> b, castles |-> c, lm |-> chk.lm]
           last == Tries(acc, white)
           r    == is_mate(b, c, lm0, white, k)
<1>1. chk.ret \in {"valid", "invalid"} /\ chk.lm \in LmValues BY CheckIs DEF CheckLeft
<1>2. r = IF chk.ret = "invalid" THEN [mate |-> FALSE, board |-> b, castles |-> c, lm |-> lm0]
          ELSE [mate |-> last.found # "escape", board |-> last.board, lm |-> last.lm,
                castles |-> IF last.found = "no_king" THEN last.castles ELSE c]
    BY DEF is_mate
<1>3. last \in Left(b, white)
  <2>1. acc \in Left(b, white) /\ acc.board = b
    <3> HIDE DEF chk
    <3> QED BY <1>1 DEF Left, Accs
  <2> HIDE DEF acc
  <2> QED BY <2>1, TriesLeaves
<1> HIDE DEF r, last, chk
<1>4. /\ last.found \in {"none", "escape", "no_king"} /\ last.board \in Boards
      /\ last.castles \in SUBSET Rights /\ last.lm \in LmValues
      /\ last.found # "no_king" => last.board = b
      /\ last.found = "no_king" => ~\E s \in Squares : last.board[s] = KING(white)
    BY <1>3, KingMissing DEF Left, Accs
<1>5. CASE chk.ret = "invalid"
  <2>1. r = [mate |-> FALSE, board |-> b, castles |-> c, lm |-> lm0] BY <1>2, <1>5
  <2> QED BY <1>5, <2>1 DEF r, chk, MateLeft
<1>6. CASE chk.ret = "valid"
  <2>1. /\ r.mate = (last.found # "escape") /\ r.board = last.board /\ r.lm = last.lm
        /\ r.castles = IF last.found = "no_king" THEN last.castles ELSE c
      BY <1>2, <1>6
  <2> QED BY <1>4, <1>6, <2>1 DEF r, chk, MateLeft
<1> QED BY <1>1, <1>5, <1>6

---------------------------------------------------------------------------
\* What a verdict tells of the move.

LEMMA PieceKinds ==
    ASSUME NEW b \in Boards, NEW s \in Squares, b[s] # EMPTY_SQUARE
    PROVE  b[s] \in {"P", "p", "R", "r", "N", "n", "B", "b", "Q", "q", "K", "k"}
BY DEF Boards, Pieces, White, Black

LEMMA PawnMove ==
    ASSUME NEW b, NEW c, NEW lm0, NEW s, NEW t, s # t, b[s] \in {"P", "p"}
    PROVE  move(b, c, lm0, s, t) = pawn_handle(b, c, lm0, s, t)
BY DEF move

LEMMA KingMove ==
    ASSUME NEW b, NEW c, NEW lm0, NEW s, NEW t, s # t, b[s] \in Kings
    PROVE  move(b, c, lm0, s, t) = king_handle(b, c, lm0, s, t)
BY DEF move, Kings

\* The other pieces, by the condition under which the move is valid.
ByPiece(b, c, lm0, s, t) ==
    /\ b[s] \in {"R", "r"} =>
          move(b, c, lm0, s, t) = Judged(handle_simple_piece(b, s, t, Straight, 8), c, lm0)
    /\ b[s] \in {"B", "b"} =>
          move(b, c, lm0, s, t) = Judged(handle_simple_piece(b, s, t, Diagonal, 8), c, lm0)
    /\ b[s] \in {"Q", "q"} =>
          move(b, c, lm0, s, t) = Judged(handle_simple_piece(b, s, t, Every, 8), c, lm0)
    /\ b[s] \in {"N", "n"} =>
          move(b, c, lm0, s, t) =
             Judged(/\ {Abs(Rank(s) - Rank(t)), Abs(File(s) - File(t))} = {1, 2}
                    /\ Enterable(b, s, t), c, lm0)

LEMMA PieceMove ==
    ASSUME NEW b, NEW c, NEW lm0, NEW s, NEW t, s # t
    PROVE  ByPiece(b, c, lm0, s, t)
BY DEF ByPiece, move, rook_handle, bishop_handle, queen_handle, knight_handle, Enterable

CastlesLong(b, c, s, t) ==
    /\ s \in {4, 60} /\ t = s - 2 /\ MayCastle(c, IS_WHITE(b[s]), s)
    /\ b[s - 1] = EMPTY_SQUARE /\ b[s - 2] = EMPTY_SQUARE /\ b[s - 3] = EMPTY_SQUARE

CastlesShort(b, c, s, t) ==
    /\ s \in {4, 60} /\ t = s + 2 /\ MayCastle(c, IS_WHITE(b[s]), s)
    /\ b[s + 1] = EMPTY_SQUARE /\ b[s + 2] = EMPTY_SQUARE

\* What is left of the rights once the king on s has been tried.
Lost(b, c, s) == c \ (IF IS_WHITE(b[s]) THEN WhiteRights ELSE BlackRights)

LEMMA CastlingIs ==
    ASSUME NEW b, NEW c, NEW lm0, NEW s \in Squares, NEW t \in Squares, s # t, b[s] \in Kings
    PROVE  LET m == move(b, c, lm0, s, t)
           IN  /\ m.ret \in {"invalid", "valid", "long_castles", "short_castles"}
               /\ m.ret = "long_castles" <=> CastlesLong(b, c, s, t)
               /\ m.ret = "short_castles" <=> CastlesShort(b, c, s, t)
               /\ m.ret = "valid" <=> ~IsCastles(s, t) /\ handle_simple_piece(b, s, t, Every, 1)
               /\ m.ret # "invalid" => m.castles = Lost(b, c, s)
               /\ m.lm = lm0
<1> DEFINE m     == king_handle(b, c, lm0, s, t)
           simple == handle_simple_piece(b, s, t, Every, 1)
           left  == Lost(b, c, s)
           gap   == IF t < s THEN {s - 1, s - 2, s - 3} ELSE {s + 1, s + 2}
           free  == MayCastle(c, IS_WHITE(b[s]), s) /\ \A u \in gap : b[u] = EMPTY_SQUARE
<1>1. m = IF ~IsCastles(s, t) THEN Judged(simple, left, lm0)
          ELSE IF free THEN Verdict(IF t < s THEN "long_castles" ELSE "short_castles", left, lm0)
          ELSE Verdict("invalid", c, lm0)
    BY DEF king_handle, Lost
<1>2. s \in Int /\ t \in Int BY DEF Squares
<1>3. CastlesLong(b, c, s, t) <=> IsCastles(s, t) /\ t < s /\ free
  <2>1. t < s => (free <=> /\ MayCastle(c, IS_WHITE(b[s]), s)
                           /\ b[s - 1] = EMPTY_SQUARE /\ b[s - 2] = EMPTY_SQUARE /\ b[s - 3] = EMPTY_SQUARE)
      OBVIOUS
  <2>2. s \in {4, 60} /\ t = s - 2 <=> IsCastles(s, t) /\ t < s
      BY <1>2 DEF IsCastles, Abs
  <2> HIDE DEF free
  <2> QED BY <2>1, <2>2 DEF CastlesLong
<1>4. CastlesShort(b, c, s, t) <=> IsCastles(s, t) /\ ~(t < s) /\ free
  <2>1. ~(t < s) => (free <=> /\ MayCastle(c, IS_WHITE(b[s]), s)
                              /\ b[s + 1] = EMPTY_SQUARE /\ b[s + 2] = EMPTY_SQUARE)
      OBVIOUS
  <2>2. s \in {4, 60} /\ t = s + 2 <=> IsCastles(s, t) /\ ~(t < s)
      BY <1>2 DEF IsCastles, Abs
  <2> HIDE DEF free
  <2> QED BY <2>1, <2>2 DEF CastlesShort
<1> HIDE DEF m, simple, left, free
<1>5. /\ m.ret \in {"invalid", "valid", "long_castles", "short_castles"}
      /\ m.ret = "long_castles" <=> IsCastles(s, t) /\ t < s /\ free
      /\ m.ret = "short_castles" <=> IsCastles(s, t) /\ ~(t < s) /\ free
      /\ m.ret = "valid" <=> ~IsCastles(s, t) /\ simple
      /\ m.ret # "invalid" => m.castles = left
      /\ m.lm = lm0
    BY <1>1 DEF Judged, Verdict
<1>6. move(b, c, lm0, s, t) = m BY KingMove DEF m
<1> QED BY <1>3, <1>4, <1>5, <1>6 DEF left, simple

LEMMA PawnIs ==
    ASSUME NEW b, NEW c, NEW lm0, NEW s \in Squares, NEW t \in Squares, s # t, b[s] \in {"P", "p"}
    PROVE  LET m     == move(b, c, lm0, s, t)
               white == IS_WHITE(b[s])
               steps == \/ b[t] # EMPTY_SQUARE /\ handle_simple_piece(b, s, t, Capturing(white), 1)
                        \/ b[t] = EMPTY_SQUARE /\ handle_simple_piece(b, s, t, Forward(white), 1)
               free  == b[Passed(white, s)] = EMPTY_SQUARE /\ b[t] = EMPTY_SQUARE
           IN  /\ m.ret \in {"invalid", "valid", "en_passant"}
               /\ m.ret = "en_passant" <=> t = lm0
               /\ m.ret = "valid" <=> t # lm0 /\ IF IsDoubleStep(white, s, t) THEN free ELSE steps
               /\ m.castles = c
               /\ m.lm = IF m.ret = "valid" THEN IF IsDoubleStep(white, s, t) THEN Passed(white, s) ELSE NoSquare
                         ELSE lm0
<1> DEFINE m     == pawn_handle(b, c, lm0, s, t)
           white == IS_WHITE(b[s])
           steps == \/ b[t] # EMPTY_SQUARE /\ handle_simple_piece(b, s, t, Capturing(white), 1)
                    \/ b[t] = EMPTY_SQUARE /\ handle_simple_piece(b, s, t, Forward(white), 1)
           free  == b[Passed(white, s)] = EMPTY_SQUARE /\ b[t] = EMPTY_SQUARE
           double == IsDoubleStep(white, s, t)
           passed == Passed(white, s)
<1>1. m = IF t = lm0 THEN Verdict("en_passant", c, lm0)
          ELSE IF double THEN IF free THEN Verdict("valid", c, passed) ELSE Verdict("invalid", c, lm0)
          ELSE IF steps THEN Verdict("valid", c, NoSquare) ELSE Verdict("invalid", c, lm0)
    BY DEF pawn_handle
<1>2. move(b, c, lm0, s, t) = m BY PawnMove
<1> HIDE DEF m, steps, free, double, passed
<1>3. /\ m.ret \in {"invalid", "valid", "en_passant"}
      /\ m.ret = "en_passant" <=> t = lm0
      /\ m.ret = "valid" <=> t # lm0 /\ IF double THEN free ELSE steps
      /\ m.castles = c
      /\ m.lm = IF m.ret = "valid" THEN IF double THEN passed ELSE NoSquare ELSE lm0
    BY <1>1 DEF Verdict
<1> QED BY <1>2, <1>3 DEF steps, free, double, passed

\* A move that is more than MOVE_VALID, by its verdict.
LEMMA SpecialIs ==
    ASSUME NEW b \in Boards, NEW c \in SUBSET Rights, NEW lm0 \in LmValues,
           NEW s \in Squares, NEW t \in Squares, b[s] # EMPTY_SQUARE
    PROVE  LET m == move(b, c, lm0, s, t)
           IN  /\ m.ret = "long_castles" => b[s] \in Kings /\ CastlesLong(b, c, s, t)
               /\ m.ret = "short_castles" => b[s] \in Kings /\ CastlesShort(b, c, s, t)
               /\ m.ret = "en_passant" => b[s] \in {"P", "p"} /\ t = lm0 /\ m.lm = lm0
               /\ m.ret # "invalid" => s # t
<1> DEFINE m == move(b, c, lm0, s, t)
<1>1. m.ret # "invalid" => s # t BY DEF move, Verdict
<1>2. ASSUME s # t, b[s] \in {"R", "r", "N", "n", "B", "b", "Q", "q"}
      PROVE  m.ret \in {"valid", "invalid"}
    BY <1>2, PieceMove DEF ByPiece, Judged, Verdict
<1>3. ASSUME s # t, b[s] \in Kings
      PROVE  /\ m.ret # "en_passant"
             /\ m.ret = "long_castles" => CastlesLong(b, c, s, t)
             /\ m.ret = "short_castles" => CastlesShort(b, c, s, t)
    BY <1>3, CastlingIs
<1>4. ASSUME s # t, b[s] \in {"P", "p"}
      PROVE  m.ret \in {"invalid", "valid", "en_passant"} /\ (m.ret = "en_passant" => t = lm0 /\ m.lm = lm0)
    BY <1>4, PawnIs
<1>5. b[s] \in {"R", "r", "N", "n", "B", "b", "Q", "q"} \/ b[s] \in Kings \/ b[s] \in {"P", "p"}
    BY PieceKinds DEF Kings
<1> HIDE DEF m
<1> QED BY <1>1, <1>2, <1>3, <1>4, <1>5 DEF m

---------------------------------------------------------------------------
\* Kings.

OneKing(b) ==
    \A white \in BOOLEAN : \A j, k \in Squares : b[j] = KING(white) /\ b[k] = KING(white) => j = k

LEMMA KingsAre ==
    ASSUME NEW b
    PROVE  BothKings(b) <=> \A white \in BOOLEAN : \E k \in Squares : b[k] = KING(white)
BY KingMissing DEF BothKings

LEMMA KingIsPiece ==
    ASSUME NEW white \in BOOLEAN
    PROVE  KING(white) \in Pieces /\ KING(white) # EMPTY_SQUARE /\ KING(white) \in Kings
           /\ KING(white) # KING(~white) /\ IS_WHITE(KING(white)) = white
BY DEF KING, Pieces, White, Black, EMPTY_SQUARE, Kings, IS_WHITE

LEMMA MoveKeepsKings ==
    ASSUME NEW b \in Boards, NEW s \in Squares, NEW t \in Squares
    PROVE  /\ OneKing(b) => OneKing(MOVE(b, s, t))
           /\ BothKings(MOVE(b, s, t)) => BothKings(b)
<1> DEFINE made == MOVE(b, s, t)
<1>1. \A u \in Squares : made[u] = IF u = t THEN b[s] ELSE IF u = s THEN EMPTY_SQUARE ELSE b[u]
    BY MoveMakesBoard
<1>2. \A white \in BOOLEAN : KING(white) # EMPTY_SQUARE BY KingIsPiece
<1> HIDE DEF made
<1>3. ASSUME OneKing(b) PROVE OneKing(made)
  <2> SUFFICES ASSUME NEW white \in BOOLEAN, NEW j \in Squares, NEW k \in Squares,
                      made[j] = KING(white), made[k] = KING(white)
               PROVE  j = k
      BY DEF OneKing
  <2>1. \A u, v \in Squares : b[u] = KING(white) /\ b[v] = KING(white) => u = v BY <1>3 DEF OneKing
  <2>2. \A u \in Squares : made[u] = KING(white) =>
           (u = t /\ b[s] = KING(white)) \/ (u # t /\ u # s /\ b[u] = KING(white))
      BY <1>1, <1>2
  <2> QED BY <2>1, <2>2
<1>4. ASSUME BothKings(made) PROVE BothKings(b)
  <2> SUFFICES ASSUME NEW white \in BOOLEAN PROVE \E k \in Squares : b[k] = KING(white)
      BY KingsAre
  <2>1. PICK k \in Squares : made[k] = KING(white) BY <1>4, KingsAre
  <2> QED BY <1>1, <1>2, <2>1
<1> QED BY <1>3, <1>4 DEF made

Cleared(b, s) == [b EXCEPT ![s] = EMPTY_SQUARE]

LEMMA ClearKeepsKings ==
    ASSUME NEW b \in Boards, NEW s \in Squares
    PROVE  /\ Cleared(b, s) \in Boards
           /\ \A u \in Squares : Cleared(b, s)[u] = IF u = s THEN EMPTY_SQUARE ELSE b[u]
           /\ OneKing(b) => OneKing(Cleared(b, s))
<1> DEFINE made == Cleared(b, s)
<1>1. made \in Boards BY DEF Boards, Pieces, Cleared
<1>2. \A u \in Squares : made[u] = IF u = s THEN EMPTY_SQUARE ELSE b[u] BY DEF Boards, Cleared
<1>3. \A white \in BOOLEAN : KING(white) # EMPTY_SQUARE BY KingIsPiece
<1> HIDE DEF made
<1>4. OneKing(b) => OneKing(made) BY <1>2, <1>3 DEF OneKing
<1> QED BY <1>1, <1>2, <1>4 DEF made

\* The squares of the rook that castles.
LEMMA RookSquares ==
    ASSUME NEW s \in {4, 60}
    PROVE  {s - 4, s - 3, s - 2, s - 1, s + 1, s + 2, s + 3} \subseteq Squares
BY DEF Squares

LEMMA CapturedType ==
    ASSUME NEW t \in Squares, Rank(t) # 0
    PROVE  Captured(t) \in Squares
BY Coordinates DEF Captured, Squares

\* The board after the move is one, with no more kings than before.
LEMMA PlacedType ==
    ASSUME NEW b \in Boards, NEW c \in SUBSET Rights, NEW lm0 \in LmValues,
           NEW s \in Squares, NEW t \in Squares, b[s] # EMPTY_SQUARE,
           ~LeavesBoard(move(b, c, lm0, s, t), t)
    PROVE  LET m     == move(b, c, lm0, s, t)
               after == Placed(m, MOVE(b, s, t), s, t)
           IN  after \in Boards /\ (OneKing(b) => OneKing(after))
<1> DEFINE m == move(b, c, lm0, s, t)  made == MOVE(b, s, t)
<1>1. made \in Boards /\ (OneKing(b) => OneKing(made)) BY MoveMakesBoard, MoveKeepsKings
<1>2. m.ret \in {"long_castles", "short_castles"} => s \in {4, 60}
    BY SpecialIs DEF CastlesLong, CastlesShort
<1>3. m.ret = "en_passant" => Captured(t) \in Squares BY CapturedType DEF LeavesBoard
<1> HIDE DEF m, made
<1>4. CASE m.ret = "long_castles"
  <2>1. Placed(m, made, s, t) = MOVE(made, s - 4, s - 1) BY <1>4 DEF Placed
  <2>2. s - 4 \in Squares /\ s - 1 \in Squares BY <1>2, <1>4, RookSquares
  <2> QED BY <1>1, <2>1, <2>2, MoveMakesBoard, MoveKeepsKings DEF m, made
<1>5. CASE m.ret = "short_castles"
  <2>1. Placed(m, made, s, t) = MOVE(made, s + 3, s + 1) BY <1>5 DEF Placed
  <2>2. s + 3 \in Squares /\ s + 1 \in Squares BY <1>2, <1>5, RookSquares
  <2> QED BY <1>1, <2>1, <2>2, MoveMakesBoard, MoveKeepsKings DEF m, made
<1>6. CASE m.ret = "en_passant"
  <2>1. Placed(m, made, s, t) = Cleared(made, Captured(t)) BY <1>6 DEF Placed, Cleared
  <2>2. Placed(m, made, s, t) \in Boards /\ (OneKing(made) => OneKing(Placed(m, made, s, t)))
    <3>1. made \in Boards /\ Captured(t) \in Squares BY <1>1, <1>3, <1>6
    <3> QED BY <2>1, <3>1, ClearKeepsKings
  <2> QED BY <1>1, <2>2 DEF m, made
<1>7. CASE m.ret \notin {"long_castles", "short_castles", "en_passant"}
  <2>1. Placed(m, made, s, t) = made BY <1>7 DEF Placed
  <2> QED BY <1>1, <2>1 DEF m, made
<1> QED BY <1>4, <1>5, <1>6, <1>7

---------------------------------------------------------------------------
\* What the clients are told.

LEMMA NoBoardIsNone == NoBoard \notin Boards
<1>1. DOMAIN NoBoard = {} BY DEF NoBoard
<1>2. 0 \in Squares BY DEF Squares
<1> QED BY <1>1, <1>2 DEF Boards

\* What all the packets of a move tell together.
Reported(v, b, lm1, s, t) ==
    CASE v = "long_castles"  -> MOVE(MOVE(b, s, s - 2), s - 4, s - 1)
      [] v = "short_castles" -> MOVE(MOVE(b, s, s + 2), s + 3, s + 1)
      [] v = "en_passant"    -> MOVE([u \in Squares |-> IF u = lm1 THEN EMPTY_SQUARE ELSE b[u]], s, t)
      [] OTHER               -> MOVE(b, s, t)

Castled == {"long_castles", "short_castles"}

\* Nobody is told of a castling that was none, nor of a pawn that was not taken.
LEMMA SaysOnly ==
    ASSUME NEW v, NEW mover \in BOOLEAN, NEW n \in 0 .. Len(Packets(v, mover)), NEW c
    PROVE  LET says == Says(Packets(v, mover), n, c)
           IN  /\ \A x \in Castled : x \in says => v = x
               /\ "pawn" \in says => v = "en_passant"
<1> DEFINE packets == Packets(v, mover)  says == Says(packets, n, c)
<1>1. \A x : x \in says => \E i \in 1 .. Len(packets) : packets[i].tells = x
  <2>1. Len(packets) \in Nat /\ n \in 0 .. Len(packets) BY DEF Packets
  <2> HIDE DEF packets
  <2>2. 1 .. n \subseteq 1 .. Len(packets) BY <2>1
  <2> QED BY <2>2 DEF Says
<1>2. CASE v \in Castled
  <2>1. \A i \in 1 .. Len(packets) : packets[i].tells \in {"response", v} BY <1>2 DEF Packets, Castled
  <2> QED BY <1>1, <1>2, <2>1 DEF Castled
<1>3. CASE v = "en_passant"
  <2>1. \A i \in 1 .. Len(packets) : packets[i].tells \in {"pawn", "move", "response"} BY <1>3 DEF Packets
  <2> QED BY <1>1, <1>3, <2>1 DEF Castled
<1>4. CASE v \notin Castled \cup {"en_passant"}
  <2>1. \A i \in 1 .. Len(packets) : packets[i].tells \in {"move", "response"} BY <1>4 DEF Packets, Castled
  <2> QED BY <1>1, <2>1 DEF Castled
<1> QED BY <1>2, <1>3, <1>4

Stopped(packets, n, c) == ~AllSent(packets, n) /\ packets[n + 1].to = c

\* A client to whom no send has failed has been told all, if no send to the other one failed
\* before: to the mover, when he is the opponent, or half-way through en passant.
LEMMA SaysAll ==
    ASSUME NEW v, NEW mover \in BOOLEAN, NEW n \in 0 .. Len(Packets(v, mover)), NEW c \in BOOLEAN,
           ~Stopped(Packets(v, mover), n, c),
           c = ~mover => ~Stopped(Packets(v, mover), n, mover),
           c = mover /\ v = "en_passant" => ~Stopped(Packets(v, mover), n, ~mover)
    PROVE  LET says == Says(Packets(v, mover), n, c)
           IN  /\ v \in Castled => v \in says
               /\ v \notin Castled => "move" \in says
               /\ v = "en_passant" => "pawn" \in says
<1> DEFINE packets == Packets(v, mover)  says == Says(packets, n, c)
<1>1. ASSUME NEW i \in 1 .. n, packets[i].to = c
      PROVE  packets[i].tells \in says
  <2> HIDE DEF packets
  <2> QED BY <1>1 DEF Says
<1>2. c = mover \/ c = ~mover OBVIOUS
<1>3. CASE v \in Castled
  <2>1. /\ Len(packets) = 3 /\ packets[1].to = mover /\ packets[2].to = mover /\ packets[3].to = ~mover
        /\ packets[2].tells = v /\ packets[3].tells = v
      BY <1>3 DEF Packets, Castled
  <2> HIDE DEF packets, says
  <2>2. n \in 0 .. 3 BY <2>1 DEF packets
  <2>3. CASE c = mover
    <3>1. n >= 2 BY <2>1, <2>2, <2>3 DEF Stopped, AllSent, packets
    <3> QED BY <1>1, <1>3, <2>1, <2>2, <2>3, <3>1 DEF says, packets, Castled
  <2>4. CASE c = ~mover
    <3>1. n = 3 BY <2>1, <2>2, <2>4 DEF Stopped, AllSent, packets
    <3> QED BY <1>1, <1>3, <2>1, <2>4, <3>1 DEF says, packets, Castled
  <2> QED BY <1>2, <2>3, <2>4
<1>4. CASE v = "en_passant"
  <2>1. /\ Len(packets) = 5 /\ packets[1].to = mover /\ packets[2].to = ~mover /\ packets[3].to = mover
        /\ packets[4].to = ~mover /\ packets[5].to = mover
        /\ packets[1].tells = "pawn" /\ packets[2].tells = "pawn"
        /\ packets[3].tells = "move" /\ packets[4].tells = "move"
      BY <1>4 DEF Packets
  <2> HIDE DEF packets, says
  <2>2. n \in 0 .. 5 BY <2>1 DEF packets
  <2>3. n = 5 BY <1>2, <1>4, <2>1, <2>2 DEF Stopped, AllSent, packets
  <2> QED BY <1>1, <1>2, <1>4, <2>1, <2>3 DEF says, packets, Castled
<1>5. CASE v \notin Castled \cup {"en_passant"}
  <2>1. /\ Len(packets) = 3 /\ packets[1].to = mover /\ packets[2].to = ~mover /\ packets[3].to = mover
        /\ packets[1].tells = "move" /\ packets[2].tells = "move"
      BY <1>5 DEF Packets, Castled
  <2> HIDE DEF packets, says
  <2>2. n \in 0 .. 3 BY <2>1 DEF packets
  <2>3. CASE c = mover
    <3>1. n >= 1 BY <2>1, <2>2, <2>3 DEF Stopped, AllSent, packets
    <3> QED BY <1>1, <1>5, <2>1, <2>2, <2>3, <3>1 DEF says, packets
  <2>4. CASE c = ~mover
    <3>1. n = 3 BY <2>1, <2>2, <2>4 DEF Stopped, AllSent, packets
    <3> QED BY <1>1, <1>5, <2>1, <2>4, <3>1 DEF says, packets
  <2> QED BY <1>2, <2>3, <2>4
<1> QED BY <1>3, <1>4, <1>5

LEMMA ToldType ==
    ASSUME NEW b \in Boards, NEW says, NEW lm1, NEW s \in Squares, NEW t \in Squares,
           says \cap Castled # {} => s \in {4, 60}
    PROVE  Told(says, b, lm1, s, t) \in Boards
<1> DEFINE taken == IF "pawn" \in says THEN [u \in Squares |-> IF u = lm1 THEN EMPTY_SQUARE ELSE b[u]] ELSE b
<1>0. taken \in Boards BY DEF Boards, Pieces
<1>1. CASE "long_castles" \in says
  <2>1. Told(says, b, lm1, s, t) = MOVE(MOVE(b, s, s - 2), s - 4, s - 1) BY <1>1 DEF Told
  <2>2. s \in {4, 60} BY <1>1 DEF Castled
  <2>3. s - 4 \in Squares /\ s - 2 \in Squares /\ s - 1 \in Squares BY <2>2, RookSquares
  <2>4. MOVE(b, s, s - 2) \in Boards BY <2>3, MoveMakesBoard
  <2> QED BY <2>1, <2>3, <2>4, MoveMakesBoard
<1>2. CASE "long_castles" \notin says /\ "short_castles" \in says
  <2>1. Told(says, b, lm1, s, t) = MOVE(MOVE(b, s, s + 2), s + 3, s + 1) BY <1>2 DEF Told
  <2>2. s \in {4, 60} BY <1>2 DEF Castled
  <2>3. s + 3 \in Squares /\ s + 2 \in Squares /\ s + 1 \in Squares BY <2>2, RookSquares
  <2>4. MOVE(b, s, s + 2) \in Boards BY <2>3, MoveMakesBoard
  <2> QED BY <2>1, <2>3, <2>4, MoveMakesBoard
<1>3. CASE "long_castles" \notin says /\ "short_castles" \notin says
  <2>1. Told(says, b, lm1, s, t) \in {MOVE(taken, s, t), taken} BY <1>3 DEF Told
  <2> HIDE DEF taken
  <2> QED BY <1>0, <2>1, MoveMakesBoard
<1> QED BY <1>1, <1>2, <1>3

\* To be told all is to be told the move.
LEMMA ToldAll ==
    ASSUME NEW v, NEW says, NEW b, NEW lm1, NEW s, NEW t,
           \A x \in Castled : x \in says => v = x,
           "pawn" \in says => v = "en_passant",
           v \in Castled => v \in says,
           v \notin Castled => "move" \in says,
           v = "en_passant" => "pawn" \in says
    PROVE  Told(says, b, lm1, s, t) = Reported(v, b, lm1, s, t)
<1>1. CASE v = "long_castles"
  <2>1. "long_castles" \in says /\ "short_castles" \notin says BY <1>1 DEF Castled
  <2> QED BY <1>1, <2>1 DEF Told, Reported
<1>2. CASE v = "short_castles"
  <2>1. "short_castles" \in says /\ "long_castles" \notin says BY <1>2 DEF Castled
  <2> QED BY <1>2, <2>1 DEF Told, Reported
<1>3. CASE v = "en_passant"
  <2>1. /\ "short_castles" \notin says /\ "long_castles" \notin says /\ "move" \in says /\ "pawn" \in says
      BY <1>3 DEF Castled
  <2> QED BY <1>3, <2>1 DEF Told, Reported
<1>4. CASE v \notin Castled \cup {"en_passant"}
  <2>1. /\ "short_castles" \notin says /\ "long_castles" \notin says /\ "move" \in says /\ "pawn" \notin says
      BY <1>4 DEF Castled
  <2>2. v # "long_castles" /\ v # "short_castles" /\ v # "en_passant" BY <1>4 DEF Castled
  <2> QED BY <2>1, <2>2 DEF Told, Reported
<1> QED BY <1>1, <1>2, <1>3, <1>4 DEF Castled

\* The clients after a move of which no more was sent than up to some packet.
Sent(v, s, t) ==
    \E n \in 0 .. Len(Packets(v, white_to_move)) : seen' = SeenAfter(Packets(v, white_to_move), n, s, t)

LEMMA TellSends ==
    ASSUME NEW v, NEW s, NEW t, tell(Packets(v, white_to_move), s, t)
    PROVE  Sent(v, s, t) /\ phase' \in {"mate", phase}
BY DEF tell, Sent

LEMMA SentType ==
    ASSUME TypeOK, NEW v, NEW s \in Squares, NEW t \in Squares, Sent(v, s, t), v \in Castled => s \in {4, 60}
    PROVE  seen' \in [BOOLEAN -> Boards \cup {NoBoard}]
<1> DEFINE packets == Packets(v, white_to_move)
<1>1. white_to_move \in BOOLEAN /\ seen \in [BOOLEAN -> Boards \cup {NoBoard}] BY DEF TypeOK, Boards
<1>2. PICK n \in 0 .. Len(packets) : seen' = SeenAfter(packets, n, s, t) BY DEF Sent
<1>3. ASSUME NEW c \in BOOLEAN, Reached(c)
      PROVE  Told(Says(packets, n, c), seen[c], lm', s, t) \in Boards
  <2>1. seen[c] \in Boards BY <1>1, <1>3 DEF Reached
  <2>2. \A x \in Castled : x \in Says(packets, n, c) => v = x BY <1>1, SaysOnly
  <2>3. Says(packets, n, c) \cap Castled # {} => s \in {4, 60} BY <2>2
  <2> HIDE DEF packets
  <2> QED BY <2>1, <2>3, ToldType
<1> HIDE DEF packets
<1> QED BY <1>2, <1>3 DEF SeenAfter

\* Whoever is still reached has been told the move, but for what the other's failed send ended.
LEMMA SentTells ==
    ASSUME TypeOK, NEW v, NEW s \in Squares, NEW t \in Squares, Sent(v, s, t), v \in Castled => s \in {4, 60},
           NEW c \in BOOLEAN, Reached(c)',
           c = ~white_to_move => Reached(~c)',
           c = white_to_move /\ v = "en_passant" => Reached(~c)'
    PROVE  seen'[c] = Reported(v, seen[c], lm', s, t)
<1> DEFINE packets == Packets(v, white_to_move)
<1>1. white_to_move \in BOOLEAN /\ seen \in [BOOLEAN -> Boards \cup {NoBoard}] BY DEF TypeOK, Boards
<1>2. PICK n \in 0 .. Len(packets) : seen' = SeenAfter(packets, n, s, t) BY DEF Sent
<1>3. ASSUME NEW d \in BOOLEAN, Reached(d)' PROVE ~Stopped(packets, n, d) /\ Reached(d)
  <2>1. seen'[d] = IF ~Reached(d) \/ Stopped(packets, n, d) THEN NoBoard
                   ELSE Told(Says(packets, n, d), seen[d], lm', s, t)
    <3> HIDE DEF packets
    <3> QED BY <1>2 DEF SeenAfter, Stopped
  <2> QED BY <1>3, <2>1 DEF Reached
<1>4. seen'[c] = Told(Says(packets, n, c), seen[c], lm', s, t)
  <2>1. ~Stopped(packets, n, c) /\ Reached(c) BY <1>3
  <2> HIDE DEF packets
  <2> QED BY <1>2, <2>1 DEF SeenAfter, Stopped
<1>5. /\ ~Stopped(packets, n, c)
      /\ c = ~white_to_move => ~Stopped(packets, n, white_to_move)
      /\ c = white_to_move /\ v = "en_passant" => ~Stopped(packets, n, ~white_to_move)
  <2>1. (~c) \in BOOLEAN /\ (c = ~white_to_move => (~c) = white_to_move) BY <1>1
  <2> HIDE DEF packets
  <2> QED BY <1>1, <1>3, <2>1
<1>6. LET says == Says(packets, n, c)
      IN  /\ \A x \in Castled : x \in says => v = x
          /\ "pawn" \in says => v = "en_passant"
    BY <1>1, SaysOnly
<1>7. LET says == Says(packets, n, c)
      IN  /\ v \in Castled => v \in says
          /\ v \notin Castled => "move" \in says
          /\ v = "en_passant" => "pawn" \in says
    BY <1>1, <1>5, SaysAll
<1> HIDE DEF packets
<1>8. Told(Says(packets, n, c), seen[c], lm', s, t) = Reported(v, seen[c], lm', s, t)
    BY <1>6, <1>7, ToldAll
<1> QED BY <1>4, <1>8

---------------------------------------------------------------------------
\* An accepted move.

LastMove(m, to) == IF m.ret = "en_passant" THEN Captured(to) ELSE m.lm

LEMMA AcceptIs ==
    ASSUME TypeOK, NEW from \in PiecesOf(board, white_to_move), NEW to \in Squares, NEW m, NEW made,
           m = move(board, castles, lm, from, to), made = MOVE(board, from, to), m.ret # "invalid",
           accept(white_to_move, m, made, from, to)
    PROVE  /\ TypeOK'
           /\ m \in Verdicts /\ made \in Boards
           /\ BothKings(made) /\ ~LeavesBoard(m, to) /\ LastMove(m, to) \in LmValues
           /\ is_in_check(made, m.castles, m.lm, white_to_move, KingOf(made, white_to_move)).ret = "invalid"
           /\ Placed(m, made, from, to) \in Boards
           /\ BothKings(board') => board' = Placed(m, made, from, to) /\ castles' = m.castles
           /\ Sent(ret', from, to)
           /\ \/ /\ ret' = "checkmate" /\ white_to_move' = white_to_move
                 /\ is_in_check(Placed(m, made, from, to), m.castles, LastMove(m, to), ~white_to_move,
                                KingOf(made, ~white_to_move)).ret = "valid"
              \/ /\ ret' = m.ret /\ white_to_move' = ~white_to_move
                 /\ board' = Placed(m, made, from, to) /\ castles' = m.castles
                 /\ is_in_check(Placed(m, made, from, to), m.castles, LastMove(m, to), ~white_to_move,
                                KingOf(made, ~white_to_move)).ret = "invalid"
                       => lm' = LastMove(m, to)
<1> DEFINE after == Placed(m, made, from, to)
           lm1   == LastMove(m, to)
           k     == KingOf(made, ~white_to_move)
           mate  == is_mate(after, m.castles, lm1, ~white_to_move, k)
           chk   == is_in_check(after, m.castles, lm1, ~white_to_move, k)
<1>1. /\ board \in Boards /\ castles \in SUBSET Rights /\ lm \in LmValues
      /\ halfmove_clock \in Nat /\ fullmove_count \in Nat /\ white_to_move \in BOOLEAN
      /\ phase \in {"play", "mate", "segv"}
    BY DEF TypeOK, Boards, LmValues
<1>2. from \in Squares /\ board[from] # EMPTY_SQUARE BY DEF PiecesOf, is_players_piece
<1>3. m \in Verdicts /\ made \in Boards
    BY <1>1, <1>2, MoveType, MoveMakesBoard
<1>4. m.castles \in SUBSET Rights /\ m.lm \in LmValues /\ m.ret \in MoveRets BY <1>3 DEF Verdicts
<1>5. /\ BothKings(made) /\ ~LeavesBoard(m, to)
      /\ is_in_check(made, m.castles, m.lm, white_to_move, KingOf(made, white_to_move)).ret = "invalid"
    BY DEF accept
<1>6. lm1 \in LmValues
  <2>1. m.ret = "en_passant" => Captured(to) \in Squares BY <1>5, CapturedType DEF LeavesBoard
  <2> QED BY <1>4, <2>1 DEF LastMove, LmValues
<1>7. after \in Boards BY <1>1, <1>2, <1>5, PlacedType
<1>8. k \in Squares
  <2>1. (~white_to_move) \in BOOLEAN BY <1>1
  <2>2. \E j \in Squares : made[j] = KING(~white_to_move) BY <1>5, <2>1, KingsAre
  <2> QED BY <2>2, KingSquare
<1>9. /\ board' = mate.board /\ castles' = mate.castles /\ lm' = mate.lm
      /\ ret' = (IF mate.mate THEN "checkmate" ELSE m.ret)
      /\ tell(Packets(ret', white_to_move), from, to)
      /\ \/ /\ mate.mate
            /\ UNCHANGED countVars
         \/ /\ ~mate.mate
            /\ halfmove_clock' =
                  IF after[to] # EMPTY_SQUARE \/ after[from] \in {"P", "p"} THEN 0
                  ELSE halfmove_clock + 1
            /\ fullmove_count' = fullmove_count + (IF white_to_move THEN 0 ELSE 1)
            /\ white_to_move' = ~white_to_move
    BY DEF accept, LastMove
<1>10. Sent(ret', from, to) /\ phase' \in {"mate", phase} BY <1>9, TellSends
<1>11. /\ mate.mate \in BOOLEAN /\ mate.board \in Boards /\ mate.castles \in SUBSET Rights /\ mate.lm \in LmValues
       /\ (\E s \in Squares : mate.board[s] = KING(~white_to_move)) => mate.board = after /\ mate.castles = m.castles
       /\ ~mate.mate => mate.board = after /\ mate.castles = m.castles
       /\ chk.ret = "invalid" => ~mate.mate /\ mate.lm = lm1
       /\ mate.mate => chk.ret = "valid"
  <2>1. (~white_to_move) \in BOOLEAN BY <1>1
  <2>2. MateLeft(after, m.castles, lm1, ~white_to_move, k)
    <3> HIDE DEF after, lm1, k
    <3> QED BY <1>4, <1>6, <1>7, <1>8, <2>1, MateLeaves
  <2> HIDE DEF after, lm1, k
  <2> QED BY <2>2 DEF MateLeft
<1>12. \A v : v \in {"long_castles", "short_castles"} /\ v = m.ret => from \in {4, 60}
    BY <1>1, <1>2, SpecialIs DEF CastlesLong, CastlesShort
<1> HIDE DEF mate, chk, k, lm1, after
<1>13. seen' \in [BOOLEAN -> Boards \cup {NoBoard}]
  <2>1. ret' \in Castled => from \in {4, 60} BY <1>9, <1>12 DEF Castled
  <2> HIDE DEF accept
  <2> QED BY <1>2, <1>10, <2>1, SentType
<1>14. BothKings(board') => board' = after /\ castles' = m.castles
  <2> SUFFICES ASSUME BothKings(board') PROVE board' = after /\ castles' = m.castles OBVIOUS
  <2>1. (~white_to_move) \in BOOLEAN BY <1>1
  <2>2. \E s \in Squares : board'[s] = KING(~white_to_move) BY <2>1, KingsAre
  <2> QED BY <1>9, <1>11, <2>2
<1>15. TypeOK'
  <2>1. board' \in Boards /\ castles' \in SUBSET Rights /\ lm' \in LmValues BY <1>9, <1>11
  <2>2. phase' \in {"play", "mate", "segv"} BY <1>1, <1>10
  <2>3. CASE mate.mate
    <3>1. ret' = "checkmate" /\ UNCHANGED countVars BY <1>9, <2>3
    <3> QED BY <1>1, <1>13, <2>1, <2>2, <3>1 DEF TypeOK, Boards, LmValues, Rets, countVars
  <2>4. CASE ~mate.mate
    <3>1. /\ ret' = m.ret
          /\ halfmove_clock' =
                IF after[to] # EMPTY_SQUARE \/ after[from] \in {"P", "p"} THEN 0 ELSE halfmove_clock + 1
          /\ fullmove_count' = fullmove_count + (IF white_to_move THEN 0 ELSE 1)
          /\ white_to_move' = ~white_to_move
        BY <1>9, <2>4
    <3>2. ret' \in Rets BY <1>4, <3>1 DEF MoveRets, Rets
    <3>3. halfmove_clock' \in Nat /\ fullmove_count' \in Nat BY <1>1, <3>1
    <3> QED BY <1>1, <1>13, <2>1, <2>2, <3>1, <3>2, <3>3 DEF TypeOK, Boards, LmValues
  <2> QED BY <2>3, <2>4
<1>16. /\ Sent(ret', from, to)
       /\ \/ /\ ret' = "checkmate" /\ white_to_move' = white_to_move
             /\ chk.ret = "valid"
          \/ /\ ret' = m.ret /\ white_to_move' = ~white_to_move
             /\ board' = after /\ castles' = m.castles
             /\ chk.ret = "invalid" => lm' = lm1
    BY <1>9, <1>10, <1>11 DEF countVars
<1> QED BY <1>3, <1>5, <1>6, <1>7, <1>14, <1>15, <1>16 DEF after, chk, k, lm1

---------------------------------------------------------------------------
\* The inductive invariant: the types, at most one king of each side as long as neither is
\* lost, and the rights of kings that are at home.

Home(white) == IF white THEN 4 ELSE 60
AtHome(b, c) == \A white \in BOOLEAN : c \cap RightsOf(white) # {} => b[Home(white)] = KING(white)

ChessInv == TypeOK /\ (BothKings(board) => OneKing(board)) /\ RightsMeanKingHome

LEMMA AtHomeIs == RightsMeanKingHome <=> (BothKings(board) => AtHome(board, castles))
BY DEF RightsMeanKingHome, AtHome, Home, RightsOf, KING

LEMMA MoveAway ==
    ASSUME NEW b \in Boards, NEW s \in Squares, NEW t \in Squares, NEW u \in Squares, u # s, u # t
    PROVE  MOVE(b, s, t)[u] = b[u]
BY MoveMakesBoard

LEMMA AcceptKeepsHome ==
    ASSUME NEW b \in Boards, NEW c \in SUBSET Rights, NEW lm0 \in LmValues, OneKing(b), AtHome(b, c),
           NEW s \in Squares, NEW t \in Squares, b[s] # EMPTY_SQUARE, NEW m, NEW made, NEW after,
           m = move(b, c, lm0, s, t), made = MOVE(b, s, t), after = Placed(m, made, s, t),
           m.ret # "invalid", ~LeavesBoard(m, t), BothKings(made), BothKings(after)
    PROVE  AtHome(after, m.castles)
<1> SUFFICES ASSUME NEW white \in BOOLEAN, m.castles \cap RightsOf(white) # {}
             PROVE  after[Home(white)] = KING(white)
    BY DEF AtHome
<1> DEFINE h == Home(white)
<1>0. h \in {4, 60} /\ h \in Squares BY DEF Home, Squares
<1>1. /\ m.castles \in {c, Lost(b, c, s)} /\ (b[s] \in Kings => m.castles = Lost(b, c, s))
  <2>1. s # t BY SpecialIs
  <2>2. m.castles \in {c, Lost(b, c, s)} BY MoveType DEF Lost
  <2>3. b[s] \in Kings => m.castles = Lost(b, c, s) BY <2>1, CastlingIs
  <2> QED BY <2>2, <2>3
<1>2. b[h] = KING(white)
  <2>1. c \cap RightsOf(white) # {} BY <1>1 DEF Lost
  <2> QED BY <2>1 DEF AtHome
<1>3. s # h
  <2> SUFFICES ASSUME s = h PROVE FALSE OBVIOUS
  <2>1. b[s] = KING(white) /\ b[s] \in Kings /\ IS_WHITE(b[s]) = white BY <1>2, KingIsPiece
  <2>2. m.castles = c \ RightsOf(white) BY <1>1, <2>1 DEF Lost, RightsOf
  <2> QED BY <2>2
<1>4. made \in Boards /\ OneKing(made) BY MoveMakesBoard, MoveKeepsKings
<1>5. \A u \in Squares : made[u] = IF u = t THEN b[s] ELSE IF u = s THEN EMPTY_SQUARE ELSE b[u]
  <2>1. \A u \in Squares : MOVE(b, s, t)[u] = IF u = t THEN b[s] ELSE IF u = s THEN EMPTY_SQUARE ELSE b[u]
      BY MoveMakesBoard
  <2> QED BY <2>1
<1>6. KING(white) # EMPTY_SQUARE BY KingIsPiece
<1>7. \A u \in Squares : b[u] = KING(white) => u = h BY <1>0, <1>2 DEF OneKing
<1>8. made[h] = KING(white)
  <2>1. PICK k \in Squares : made[k] = KING(white) BY KingsAre
  <2>2. b[s] # KING(white) BY <1>3, <1>7
  <2>3. k # t /\ k # s /\ b[k] = KING(white) BY <1>5, <1>6, <2>1, <2>2
  <2> QED BY <1>7, <2>1, <2>3
<1> HIDE DEF h
<1>9. CASE m.ret = "long_castles"
  <2>1. after = MOVE(made, s - 4, s - 1) BY <1>9 DEF Placed
  <2>2. s \in {4, 60} BY <1>9, SpecialIs DEF CastlesLong
  <2>3. s - 4 \in Squares /\ s - 1 \in Squares /\ h # s - 4 /\ h # s - 1 BY <1>0, <2>2 DEF Squares
  <2>4. MOVE(made, s - 4, s - 1)[h] = made[h] BY <1>0, <1>4, <2>3, MoveAway
  <2> QED BY <1>8, <2>1, <2>4 DEF h
<1>10. CASE m.ret = "short_castles"
  <2>1. after = MOVE(made, s + 3, s + 1) BY <1>10 DEF Placed
  <2>2. s \in {4, 60} BY <1>10, SpecialIs DEF CastlesShort
  <2>3. s + 3 \in Squares /\ s + 1 \in Squares /\ h # s + 3 /\ h # s + 1 BY <1>0, <2>2 DEF Squares
  <2>4. MOVE(made, s + 3, s + 1)[h] = made[h] BY <1>0, <1>4, <2>3, MoveAway
  <2> QED BY <1>8, <2>1, <2>4 DEF h
<1>11. CASE m.ret = "en_passant"
  <2>1. after = Cleared(made, Captured(t)) BY <1>11 DEF Placed, Cleared
  <2>2. Captured(t) \in Squares BY <1>11, CapturedType DEF LeavesBoard
  <2>3. \A u \in Squares : after[u] = IF u = Captured(t) THEN EMPTY_SQUARE ELSE made[u]
    <3>1. \A u \in Squares : Cleared(made, Captured(t))[u] = IF u = Captured(t) THEN EMPTY_SQUARE ELSE made[u]
        BY <1>4, <2>2, ClearKeepsKings
    <3> QED BY <2>1, <3>1
  <2>4. PICK k \in Squares : after[k] = KING(white) BY KingsAre
  <2>5. made[k] = KING(white) /\ after[k] = made[k] BY <1>6, <2>3, <2>4
  <2>6. k = h BY <1>0, <1>4, <1>8, <2>5 DEF OneKing
  <2> QED BY <2>4, <2>6 DEF h
<1>12. CASE m.ret \notin {"long_castles", "short_castles", "en_passant"}
  <2>1. after = made BY <1>12 DEF Placed
  <2> QED BY <1>8, <2>1 DEF h
<1> QED BY <1>9, <1>10, <1>11, <1>12

LEMMA PositionHas ==
    ASSUME Init
    PROVE  ChessInv
<1>1. PICK p \in Positions :
         /\ board = p.board /\ castles = p.castles /\ lm = p.lm
         /\ fullmove_count = p.fullmove_count /\ white_to_move = p.white_to_move
    BY DEF Init
<1>2. /\ board \in [Squares -> Pieces]
      /\ castles \subseteq Rights /\ lm \in Squares \cup {NoSquare}
      /\ fullmove_count \in Nat /\ white_to_move \in BOOLEAN
      /\ \A white \in BOOLEAN : \E k \in Squares : {s \in Squares : board[s] = KING(white)} = {k}
      /\ castles \cap WhiteRights # {} => board[4] = "K"
      /\ castles \cap BlackRights # {} => board[60] = "k"
    BY <1>1, PositionAssumption
<1>3. TypeOK BY <1>2 DEF Init, TypeOK, Rets
<1>4. OneKing(board)
  <2> SUFFICES ASSUME NEW white \in BOOLEAN, NEW j \in Squares, NEW k \in Squares,
                      board[j] = KING(white), board[k] = KING(white)
               PROVE  j = k
      BY DEF OneKing
  <2>1. PICK i \in Squares : {s \in Squares : board[s] = KING(white)} = {i} BY <1>2
  <2>2. j \in {s \in Squares : board[s] = KING(white)} /\ k \in {s \in Squares : board[s] = KING(white)} OBVIOUS
  <2> QED BY <2>1, <2>2
<1>5. RightsMeanKingHome BY <1>2 DEF RightsMeanKingHome
<1> QED BY <1>3, <1>4, <1>5 DEF ChessInv

---------------------------------------------------------------------------
\* The steps of a game.

\* Nothing but castles and lm has changed, and castles by rights of the player's own, or a
\* player has returned.
Refused ==
    /\ board' = board /\ white_to_move' = white_to_move
    /\ seen' = seen \/ \E c \in BOOLEAN : ~Reached(c) /\ seen' = [seen EXCEPT ![c] = board]
    /\ ret' \in {"invalid", ret} /\ phase' \in {phase, "segv"}
    /\ castles' \subseteq castles
    /\ castles \ RightsOf(white_to_move) \subseteq castles'

Kingless == ~BothKings(board') /\ ret' = "invalid" /\ white_to_move' = white_to_move /\ phase' = phase

Accepted(from, to) ==
    /\ move(board, castles, lm, from, to).ret # "invalid"
    /\ accept(white_to_move, move(board, castles, lm, from, to), MOVE(board, from, to), from, to)

LEMMA StepIs ==
    ASSUME TypeOK, [Next]_vars
    PROVE  /\ TypeOK'
           /\ UNCHANGED vars \/ phase = "play"
           /\ \/ Refused
              \/ Kingless
              \/ phase = "play" /\ \E from \in PiecesOf(board, white_to_move), to \in Squares : Accepted(from, to)
<1>0. /\ board \in Boards /\ castles \in SUBSET Rights /\ lm \in LmValues
      /\ white_to_move \in BOOLEAN
    BY DEF TypeOK, Boards, LmValues
<1>1. ASSUME NEW from \in PiecesOf(board, white_to_move), NEW to \in Squares
      PROVE  /\ from \in Squares /\ board[from] # EMPTY_SQUARE
             /\ move(board, castles, lm, from, to) \in Verdicts
             /\ move(board, castles, lm, from, to).castles \subseteq castles
             /\ castles \ RightsOf(white_to_move) \subseteq move(board, castles, lm, from, to).castles
  <2>1. from \in Squares /\ board[from] # EMPTY_SQUARE /\ IS_WHITE(board[from]) = white_to_move
      BY DEF PiecesOf, is_players_piece
  <2>2. /\ move(board, castles, lm, from, to) \in Verdicts
        /\ move(board, castles, lm, from, to).castles \in
              {castles, castles \ (IF IS_WHITE(board[from]) THEN WhiteRights ELSE BlackRights)}
      BY <1>0, <2>1, MoveType
  <2>3. move(board, castles, lm, from, to).castles \in {castles, castles \ RightsOf(white_to_move)}
      BY <2>1, <2>2 DEF RightsOf
  <2> HIDE DEF RightsOf
  <2> QED BY <2>1, <2>2, <2>3
<1>7. UNCHANGED vars \/ phase = "play" BY DEF Next, p_movepc, reconnect_to_game
<1>2. CASE UNCHANGED vars
  <2>1. Refused BY <1>2 DEF Refused, vars, gameVars, countVars
  <2>2. TypeOK' BY <1>2 DEF TypeOK, vars, gameVars, countVars
  <2> QED BY <1>7, <2>1, <2>2
<1>3. CASE refuse_player
  <2>1. Refused BY <1>3 DEF refuse_player, Refuse, Refused, gameVars, countVars
  <2>2. TypeOK' BY <1>3 DEF refuse_player, Refuse, TypeOK, gameVars, countVars, Rets
  <2> QED BY <1>7, <2>1, <2>2
<1>4. CASE refuse_move
  <2>1. PICK from \in PiecesOf(board, white_to_move), to \in Squares :
           /\ Refuse /\ board' = board
           /\ castles' = move(board, castles, lm, from, to).castles
           /\ lm' = move(board, castles, lm, from, to).lm
      BY <1>4 DEF refuse_move
  <2>2. castles' \in SUBSET Rights /\ lm' \in LmValues BY <1>1, <2>1 DEF Verdicts
  <2>3. castles' \subseteq castles /\ castles \ RightsOf(white_to_move) \subseteq castles' BY <1>1, <2>1
  <2>4. Refused BY <2>1, <2>3 DEF Refuse, Refused, countVars
  <2>5. TypeOK' BY <2>1, <2>2 DEF Refuse, TypeOK, countVars, Rets, LmValues
  <2> QED BY <1>7, <2>4, <2>5
<1>5. ASSUME phase = "play", NEW from \in PiecesOf(board, white_to_move), NEW to \in Squares,
             make_move(white_to_move, from, to)
      PROVE  TypeOK' /\ (Refused \/ Kingless \/ Accepted(from, to))
  <2> DEFINE m == move(board, castles, lm, from, to)  made == MOVE(board, from, to)
             chk == is_in_check(made, m.castles, m.lm, white_to_move, KingOf(made, white_to_move))
  <2>1. m.ret # "invalid" BY <1>5 DEF make_move
  <2>2. /\ made \in Boards /\ m.castles \in SUBSET Rights /\ m.lm \in LmValues
        /\ m.castles \subseteq castles /\ castles \ RightsOf(white_to_move) \subseteq m.castles
    <3>1. made \in Boards BY <1>0, <1>1, MoveMakesBoard
    <3>2. m \in Verdicts /\ m.castles \subseteq castles /\ castles \ RightsOf(white_to_move) \subseteq m.castles BY <1>1
    <3> HIDE DEF m, made
    <3> QED BY <3>1, <3>2 DEF Verdicts
  <2>3. CASE refuse_kingless(m, made)
    <3>1. Kingless
      <4>1. ~BothKings(made) BY <2>3 DEF refuse_kingless, BothKings
      <4> HIDE DEF m, made
      <4> QED BY <2>3, <4>1 DEF refuse_kingless, Kingless, Refuse, countVars
    <3>2. TypeOK'
      <4> HIDE DEF m, made
      <4> QED BY <2>2, <2>3 DEF refuse_kingless, Refuse, TypeOK, countVars, Rets, LmValues, Boards
    <3> QED BY <3>1, <3>2
  <2>4. CASE refuse_check(white_to_move, m, made)
    <3>1. BothKings(made) /\ Refuse /\ castles' = chk.castles /\ lm' = chk.lm /\ board' = board
        BY <2>4 DEF refuse_check
    <3>2. KingOf(made, white_to_move) \in Squares
      <4>1. \E k \in Squares : made[k] = KING(white_to_move) BY <1>0, <3>1, KingsAre
      <4> QED BY <4>1, KingSquare
    <3>3. chk.castles = m.castles /\ chk.lm \in LmValues
      <4> DEFINE k == KingOf(made, white_to_move)
      <4>1. /\ made \in Boards /\ m.castles \in SUBSET Rights /\ m.lm \in LmValues
            /\ white_to_move \in BOOLEAN /\ k \in Squares
          BY <1>0, <2>2, <3>2
      <4> HIDE DEF m, made, k
      <4>2. CheckLeft(made, m.castles, m.lm, white_to_move, k) BY <4>1, CheckIs
      <4> QED BY <4>2 DEF k, CheckLeft
    <3> HIDE DEF m, made, chk
    <3>4. Refused BY <2>2, <3>1, <3>3 DEF Refuse, Refused, countVars
    <3>5. TypeOK' BY <2>2, <3>1, <3>3 DEF Refuse, TypeOK, countVars, Rets, LmValues
    <3> QED BY <3>4, <3>5
  <2>5. CASE accept(white_to_move, m, made, from, to)
    <3>1. TypeOK' BY <2>1, <2>5, AcceptIs
    <3> QED BY <2>1, <2>5, <3>1 DEF Accepted
  <2>6. CASE off_board(white_to_move, m, made, to)
    <3>1. Refused BY <2>6 DEF off_board, Refused, gameVars, countVars
    <3>2. TypeOK' BY <2>6 DEF off_board, TypeOK, gameVars, countVars
    <3> QED BY <3>1, <3>2
  <2>7. \/ refuse_kingless(m, made) \/ refuse_check(white_to_move, m, made)
        \/ accept(white_to_move, m, made, from, to) \/ off_board(white_to_move, m, made, to)
      BY <1>5 DEF make_move
  <2> QED BY <2>3, <2>4, <2>5, <2>6, <2>7
<1>8. ASSUME NEW c \in BOOLEAN, reconnect_to_game(c) PROVE TypeOK' /\ Refused
  <2>1. Refused BY <1>8 DEF reconnect_to_game, Refused, gameVars, countVars
  <2>2. TypeOK' BY <1>8 DEF reconnect_to_game, TypeOK, gameVars, countVars
  <2> QED BY <2>1, <2>2
<1>6. CASE p_movepc
  <2>1. phase = "play" /\ \/ refuse_player
                          \/ refuse_move
                          \/ \E from \in PiecesOf(board, white_to_move), to \in Squares :
                                make_move(white_to_move, from, to)
      BY <1>6 DEF p_movepc
  <2> QED BY <1>3, <1>4, <1>5, <2>1
<1> QED BY <1>2, <1>6, <1>7, <1>8 DEF Next

LEMMA StepKeeps ==
    ASSUME ChessInv, [Next]_vars
    PROVE  ChessInv'
<1>1. TypeOK /\ (BothKings(board) => OneKing(board)) /\ (BothKings(board) => AtHome(board, castles))
    BY AtHomeIs DEF ChessInv
<1>2. TypeOK' BY <1>1, StepIs
<1>3. ASSUME BothKings(board') PROVE OneKing(board') /\ AtHome(board', castles')
  <2>1. CASE Refused
    <3>1. board' = board /\ castles' \subseteq castles BY <2>1 DEF Refused
    <3>2. OneKing(board) /\ AtHome(board, castles) BY <1>1, <1>3, <3>1
    <3> QED BY <3>1, <3>2 DEF AtHome
  <2>2. CASE Kingless BY <1>3, <2>2 DEF Kingless
  <2>3. ASSUME NEW from \in PiecesOf(board, white_to_move), NEW to \in Squares, Accepted(from, to)
        PROVE  OneKing(board') /\ AtHome(board', castles')
    <3> DEFINE m == move(board, castles, lm, from, to)  made == MOVE(board, from, to)
               after == Placed(m, made, from, to)
    <3>1. m.ret # "invalid" /\ accept(white_to_move, m, made, from, to) BY <2>3 DEF Accepted
    <3>2. board' = after /\ castles' = m.castles /\ BothKings(made) /\ ~LeavesBoard(m, to)
        BY <1>1, <1>3, <3>1, AcceptIs
    <3>3. from \in Squares /\ board[from] # EMPTY_SQUARE BY DEF PiecesOf, is_players_piece
    <3>4. board \in Boards /\ castles \in SUBSET Rights /\ lm \in LmValues
        BY <1>1 DEF TypeOK, Boards, LmValues
    <3>5. BothKings(board) BY <3>2, <3>3, <3>4, MoveKeepsKings
    <3>6. OneKing(after) BY <1>1, <3>2, <3>3, <3>4, <3>5, PlacedType
    <3>7. BothKings(after) BY <1>3, <3>2
    <3>8. AtHome(after, m.castles)
        BY <1>1, <3>1, <3>2, <3>3, <3>4, <3>5, <3>7, AcceptKeepsHome
    <3> HIDE DEF after, m, made
    <3> QED BY <3>2, <3>6, <3>8
  <2> QED BY <1>1, <2>1, <2>2, <2>3, StepIs
<1>4. (BothKings(board') => AtHome(board', castles')) => RightsMeanKingHome'
    BY DEF RightsMeanKingHome, AtHome, Home, RightsOf, KING
<1> QED BY <1>2, <1>3, <1>4 DEF ChessInv

LEMMA ChessInvariant == Spec => []ChessInv
<1>1. Init => ChessInv BY PositionHas
<1>2. ChessInv /\ [Next]_vars => ChessInv' BY StepKeeps
<1> QED BY <1>1, <1>2, PTL DEF Spec

\* Whatever is moved, and however the searches for checks and mates end, the board keeps 64
\* squares with pieces on them, the clients' boards too, and lm stays NoSquare or a square:
\* g->lm is never a pair that indexes g->board outside of it.
THEOREM TypeCorrect == Spec => []TypeOK
<1>1. ChessInv => TypeOK BY DEF ChessInv
<1> QED BY <1>1, ChessInvariant, PTL

\* A right to castle left in g->castles is that of a king that stands on its first square,
\* although king_handle takes the rights away when a move is only tried and is_in_check and
\* is_mate give them back.
THEOREM RightsCorrect == Spec => []RightsMeanKingHome
<1>1. ChessInv => RightsMeanKingHome BY DEF ChessInv
<1> QED BY <1>1, ChessInvariant, PTL

\* move_piece takes back what it has tried: a move it answers as invalid leaves the board as it
\* was, unless it left a side without a king.
THEOREM RefusedIsUnmadeCorrect == Spec => RefusedIsUnmade
<1>1. ASSUME ChessInv, [Next]_vars
      PROVE  [ret' = "invalid" /\ BothKings(board') => board' = board]_vars
  <2>1. TypeOK BY <1>1 DEF ChessInv
  <2>2. CASE Refused BY <2>2 DEF Refused
  <2>3. CASE Kingless BY <2>3 DEF Kingless
  <2>4. ASSUME NEW from \in PiecesOf(board, white_to_move), NEW to \in Squares, Accepted(from, to)
        PROVE  ret' # "invalid"
    <3> DEFINE m == move(board, castles, lm, from, to)
    <3>1. m.ret # "invalid" BY <2>4 DEF Accepted
    <3>2. ret' = "checkmate" \/ ret' = m.ret BY <2>1, <2>4, AcceptIs DEF Accepted
    <3> QED BY <3>1, <3>2
  <2> QED BY <1>1, <2>1, <2>2, <2>3, <2>4, StepIs
<1> QED BY <1>1, ChessInvariant, PTL DEF Spec, RefusedIsUnmade

\* No packet of a player, accepted or refused, takes a right to castle from his opponent,
\* although the searches for checks and mates call king_handle for the opponent's king.
THEOREM OthersRightsStandCorrect == Spec => OthersRightsStand
<1>1. ASSUME ChessInv, [Next]_vars
      PROVE  [BothKings(board') =>
                castles' \cap RightsOf(~white_to_move) = castles \cap RightsOf(~white_to_move)]_vars
  <2>1. TypeOK BY <1>1 DEF ChessInv
  <2>0. /\ board \in Boards /\ castles \in SUBSET Rights /\ lm \in LmValues /\ white_to_move \in BOOLEAN
      BY <2>1 DEF TypeOK, Boards, LmValues
  <2>2. RightsOf(~white_to_move) \cap RightsOf(white_to_move) = {}
      BY <2>0 DEF RightsOf, WhiteRights, BlackRights
  <2>3. CASE Refused BY <2>2, <2>3 DEF Refused
  <2>4. CASE Kingless BY <2>4 DEF Kingless
  <2>5. ASSUME NEW from \in PiecesOf(board, white_to_move), NEW to \in Squares, Accepted(from, to),
               BothKings(board')
        PROVE  castles' \cap RightsOf(~white_to_move) = castles \cap RightsOf(~white_to_move)
    <3> DEFINE m == move(board, castles, lm, from, to)
    <3>1. castles' = m.castles BY <2>1, <2>5, AcceptIs DEF Accepted
    <3>2. from \in Squares /\ board[from] # EMPTY_SQUARE /\ IS_WHITE(board[from]) = white_to_move
        BY DEF PiecesOf, is_players_piece
    <3>3. m.castles \in {castles, castles \ (IF IS_WHITE(board[from]) THEN WhiteRights ELSE BlackRights)}
        BY <2>0, <3>2, MoveType
    <3>4. m.castles \in {castles, castles \ RightsOf(white_to_move)} BY <3>2, <3>3 DEF RightsOf
    <3> HIDE DEF m
    <3> QED BY <2>2, <3>1, <3>4
  <2> QED BY <1>1, <2>1, <2>3, <2>4, <2>5, StepIs
<1> QED BY <1>1, ChessInvariant, PTL DEF Spec, OthersRightsStand

---------------------------------------------------------------------------
\* The moves of the handlers against those of the rules.

\* A square on a ray, by the distances of ranks and files.
LEMMA RaysAre ==
    ASSUME NEW s \in Squares, NEW t \in Squares
    PROVE  LET dr == Abs(Rank(s) - Rank(t))  df == Abs(File(s) - File(t))
           IN  /\ OnRay(s, t, Straight) <=> s # t /\ (dr = 0 \/ df = 0)
               /\ OnRay(s, t, Diagonal) <=> s # t /\ dr = df
               /\ (\E d \in Every : Lies(t, s, d, 1)) <=> s # t /\ dr <= 1 /\ df <= 1
               /\ \A white \in BOOLEAN :
                     (\E d \in Capturing(white) : Lies(t, s, d, 1))
                        <=> Rank(t) = Rank(s) + (IF white THEN 1 ELSE -1) /\ df = 1
               /\ \A white \in BOOLEAN :
                     (\E d \in Forward(white) : Lies(t, s, d, 1)) <=> t = Passed(white, s)
<1> DEFINE x == Rank(t) - Rank(s)  y == File(t) - File(s)  k == Steps(s, t)
           dr == Abs(Rank(s) - Rank(t))  df == Abs(File(s) - File(t))
           Off(a, n) == IF a = 0 THEN 0 ELSE IF a = 1 THEN n ELSE -n
<1>1. /\ Rank(s) \in 0 .. 7 /\ File(s) \in 0 .. 7 /\ Rank(t) \in 0 .. 7 /\ File(t) \in 0 .. 7
      /\ s = 8 * Rank(s) + File(s) /\ t = 8 * Rank(t) + File(t)
    BY Coordinates
<1>2. /\ x \in -7 .. 7 /\ y \in -7 .. 7
      /\ dr = (IF x < 0 THEN -x ELSE x) /\ df = (IF y < 0 THEN -y ELSE y)
      /\ k = (IF x = 0 THEN df ELSE dr)
      /\ s = t <=> x = 0 /\ y = 0
      /\ t - s = 8 * x + y
    BY <1>1 DEF Steps, Abs
<1>3. ASSUME NEW a \in Dirs, NEW b \in Dirs, NEW n \in Nat
      PROVE  Lies(t, s, <<a, b>>, n) <=> n > 0 /\ x = Off(a, n) /\ y = Off(b, n)
    BY LiesIs
<1>4. k \in Nat BY StepsType
<1> HIDE DEF x, y, k, dr, df
<1>5. /\ OnRay(s, t, Straight) <=> \/ k > 0 /\ x = -k /\ y = 0
                                   \/ k > 0 /\ x = k /\ y = 0
                                   \/ k > 0 /\ x = 0 /\ y = -k
                                   \/ k > 0 /\ x = 0 /\ y = k
      /\ OnRay(s, t, Diagonal) <=> \/ k > 0 /\ x = -k /\ y = -k
                                   \/ k > 0 /\ x = -k /\ y = k
                                   \/ k > 0 /\ x = k /\ y = -k
                                   \/ k > 0 /\ x = k /\ y = k
  <2>1. 0 \in Dirs /\ 1 \in Dirs /\ -1 \in Dirs BY DEF Dirs
  <2>2. /\ Lies(t, s, <<-1, 0>>, k) <=> k > 0 /\ x = -k /\ y = 0
        /\ Lies(t, s, <<1, 0>>, k) <=> k > 0 /\ x = k /\ y = 0
        /\ Lies(t, s, <<0, -1>>, k) <=> k > 0 /\ x = 0 /\ y = -k
        /\ Lies(t, s, <<0, 1>>, k) <=> k > 0 /\ x = 0 /\ y = k
      BY <1>3, <1>4, <2>1
  <2>3. /\ Lies(t, s, <<-1, -1>>, k) <=> k > 0 /\ x = -k /\ y = -k
        /\ Lies(t, s, <<-1, 1>>, k) <=> k > 0 /\ x = -k /\ y = k
        /\ Lies(t, s, <<1, -1>>, k) <=> k > 0 /\ x = k /\ y = -k
        /\ Lies(t, s, <<1, 1>>, k) <=> k > 0 /\ x = k /\ y = k
      BY <1>3, <1>4, <2>1
  <2>4. OnRay(s, t, Straight) <=> \/ Lies(t, s, <<-1, 0>>, k) \/ Lies(t, s, <<1, 0>>, k)
                                  \/ Lies(t, s, <<0, -1>>, k) \/ Lies(t, s, <<0, 1>>, k)
      BY DEF OnRay, Straight, k
  <2>5. OnRay(s, t, Diagonal) <=> \/ Lies(t, s, <<-1, -1>>, k) \/ Lies(t, s, <<-1, 1>>, k)
                                  \/ Lies(t, s, <<1, -1>>, k) \/ Lies(t, s, <<1, 1>>, k)
      BY DEF OnRay, Diagonal, k
  <2> QED BY <2>2, <2>3, <2>4, <2>5
<1>6. /\ OnRay(s, t, Straight) <=> s # t /\ (dr = 0 \/ df = 0)
      /\ OnRay(s, t, Diagonal) <=> s # t /\ dr = df
    BY <1>2, <1>4, <1>5
<1>7. (\E d \in Every : Lies(t, s, d, 1)) <=> s # t /\ dr <= 1 /\ df <= 1
  <2>1. \A a, b \in Dirs : Lies(t, s, <<a, b>>, 1) <=> x = a /\ y = b BY <1>3 DEF Dirs
  <2>2. (\E d \in Every : Lies(t, s, d, 1)) <=> \E a, b \in Dirs : (a # 0 \/ b # 0) /\ Lies(t, s, <<a, b>>, 1)
      BY DEF Every, Straight, Diagonal, Dirs
  <2>3. (\E d \in Every : Lies(t, s, d, 1)) <=> x \in Dirs /\ y \in Dirs /\ (x # 0 \/ y # 0)
      BY <2>1, <2>2
  <2> QED BY <1>2, <2>3 DEF Dirs
<1>8. ASSUME NEW white \in BOOLEAN
      PROVE  /\ (\E d \in Capturing(white) : Lies(t, s, d, 1))
                   <=> Rank(t) = Rank(s) + (IF white THEN 1 ELSE -1) /\ df = 1
             /\ (\E d \in Forward(white) : Lies(t, s, d, 1)) <=> t = Passed(white, s)
  <2> DEFINE up == IF white THEN 1 ELSE -1
  <2>1. up \in Dirs /\ (-1) \in Dirs /\ 0 \in Dirs /\ 1 \in Dirs BY DEF Dirs
  <2>2. \A a, b \in Dirs : Lies(t, s, <<a, b>>, 1) <=> x = a /\ y = b BY <1>3 DEF Dirs
  <2>3. (\E d \in Capturing(white) : Lies(t, s, d, 1)) <=> Lies(t, s, <<up, -1>>, 1) \/ Lies(t, s, <<up, 1>>, 1)
      BY DEF Capturing
  <2>4. (\E d \in Forward(white) : Lies(t, s, d, 1)) <=> Lies(t, s, <<up, 0>>, 1) BY DEF Forward
  <2>5. x = up <=> Rank(t) = Rank(s) + up BY <1>1 DEF x
  <2>6. x = up /\ y = 0 <=> t = Passed(white, s) BY <1>1, <1>2 DEF Passed
  <2> HIDE DEF up
  <2>7. (\E d \in Capturing(white) : Lies(t, s, d, 1)) <=> x = up /\ (y = -1 \/ y = 1) BY <2>1, <2>2, <2>3
  <2>8. (\E d \in Forward(white) : Lies(t, s, d, 1)) <=> x = up /\ y = 0 BY <2>1, <2>2, <2>4
  <2>9. y = -1 \/ y = 1 <=> df = 1 BY <1>2
  <2> QED BY <2>5, <2>6, <2>7, <2>8, <2>9 DEF up
<1> QED BY <1>6, <1>7, <1>8 DEF dr, df

LEMMA LeapIs ==
    ASSUME NEW x \in 0 .. 7, NEW y \in 0 .. 7
    PROVE  x * y = 2 <=> (x = 1 /\ y = 2) \/ (x = 2 /\ y = 1)
<1>1. 0 * y = 0 /\ 1 * y = y /\ 2 * y = y + y /\ 3 * y = y + y + y /\ 4 * y = y + y + y + y OBVIOUS
<1>2. /\ 5 * y = y + y + y + y + y /\ 6 * y = y + y + y + y + y + y
      /\ 7 * y = y + y + y + y + y + y + y
    OBVIOUS
<1>3. x \in {0, 1, 2, 3, 4, 5, 6, 7} OBVIOUS
<1>4. \A z \in {0, 1, 2, 3, 4, 5, 6, 7} : z * y = 2 <=> (z = 1 /\ y = 2) \/ (z = 2 /\ y = 1)
    BY <1>1, <1>2
<1> QED BY <1>3, <1>4

LEMMA PairIs ==
    ASSUME NEW x, NEW y
    PROVE  {x, y} = {1, 2} <=> (x = 1 /\ y = 2) \/ (x = 2 /\ y = 1)
<1>1. ASSUME {x, y} = {1, 2} PROVE (x = 1 /\ y = 2) \/ (x = 2 /\ y = 1)
  <2>1. x \in {1, 2} /\ y \in {1, 2} /\ 1 \in {x, y} /\ 2 \in {x, y} BY <1>1
  <2>2. 1 # 2 OBVIOUS
  <2> QED BY <2>1, <2>2
<1>2. ASSUME (x = 1 /\ y = 2) \/ (x = 2 /\ y = 1) PROVE {x, y} = {1, 2} BY <1>2
<1> QED BY <1>1, <1>2

\* What a piece attacks, by its kind.
LEMMA AttacksAre ==
    ASSUME NEW b \in Boards, NEW s \in Squares, NEW t \in Squares, b[s] # EMPTY_SQUARE
    PROVE  /\ b[s] \in {"R", "r"} => (Attacks(b, s, t) <=> OnRay(s, t, Straight) /\ Clear(b, s, t))
           /\ b[s] \in {"B", "b"} => (Attacks(b, s, t) <=> OnRay(s, t, Diagonal) /\ Clear(b, s, t))
           /\ b[s] \in {"Q", "q"} => (Attacks(b, s, t) <=> OnRay(s, t, Every) /\ Clear(b, s, t))
           /\ b[s] \in {"K", "k"} => (Attacks(b, s, t) <=> \E d \in Every : Lies(t, s, d, 1))
           /\ b[s] \in {"P", "p"} =>
                 (Attacks(b, s, t) <=> \E d \in Capturing(IS_WHITE(b[s])) : Lies(t, s, d, 1))
           /\ b[s] \in {"N", "n"} =>
                 (Attacks(b, s, t) <=> {Abs(Rank(s) - Rank(t)), Abs(File(s) - File(t))} = {1, 2})
<1> DEFINE dr == Abs(Rank(s) - Rank(t))  df == Abs(File(s) - File(t))
<1>1. Rank(s) \in 0 .. 7 /\ File(s) \in 0 .. 7 /\ Rank(t) \in 0 .. 7 /\ File(t) \in 0 .. 7
    BY Coordinates
<1>2. dr \in 0 .. 7 /\ df \in 0 .. 7 /\ (s = t => dr = 0 /\ df = 0) BY <1>1 DEF Abs
<1>3. /\ OnRay(s, t, Straight) <=> s # t /\ (dr = 0 \/ df = 0)
      /\ OnRay(s, t, Diagonal) <=> s # t /\ dr = df
      /\ (\E d \in Every : Lies(t, s, d, 1)) <=> s # t /\ dr <= 1 /\ df <= 1
      /\ \A white \in BOOLEAN :
            (\E d \in Capturing(white) : Lies(t, s, d, 1))
               <=> Rank(t) = Rank(s) + (IF white THEN 1 ELSE -1) /\ df = 1
    BY RaysAre
<1>4. OnRay(s, t, Every) <=> OnRay(s, t, Straight) \/ OnRay(s, t, Diagonal) BY DEF OnRay, Every
<1>5. CASE b[s] \in {"R", "r"}
  <2>1. Attacks(b, s, t) <=> s # t /\ (dr = 0 \/ df = 0) /\ Clear(b, s, t)
      BY <1>5 DEF Attacks, Clear
  <2> QED BY <1>3, <1>5, <2>1
<1>6. CASE b[s] \in {"B", "b"}
  <2>1. Attacks(b, s, t) <=> s # t /\ dr = df /\ Clear(b, s, t)
      BY <1>6 DEF Attacks, Clear
  <2> QED BY <1>3, <1>6, <2>1
<1>7. CASE b[s] \in {"Q", "q"}
  <2>1. Attacks(b, s, t) <=> s # t /\ (dr = 0 \/ df = 0 \/ dr = df) /\ Clear(b, s, t)
      BY <1>7 DEF Attacks, Clear
  <2> QED BY <1>3, <1>4, <1>7, <2>1
<1>8. CASE b[s] \in {"K", "k"}
  <2>1. Attacks(b, s, t) <=> s # t /\ dr <= 1 /\ df <= 1 BY <1>8 DEF Attacks
  <2> QED BY <1>3, <1>8, <2>1
<1>9. CASE b[s] = "P"
  <2>1. Attacks(b, s, t) <=> s # t /\ Rank(t) = Rank(s) + 1 /\ df = 1 BY <1>9 DEF Attacks
  <2>2. IS_WHITE(b[s]) = TRUE BY <1>9 DEF IS_WHITE, Black
  <2>3. (\E d \in Capturing(TRUE) : Lies(t, s, d, 1)) <=> Rank(t) = Rank(s) + 1 /\ df = 1 BY <1>3
  <2>4. df = 1 => s # t BY <1>2
  <2> DEFINE takes(w) == \E d \in Capturing(w) : Lies(t, s, d, 1)
  <2>5. Attacks(b, s, t) <=> takes(TRUE) BY <2>1, <2>3, <2>4
  <2>6. Attacks(b, s, t) <=> takes(IS_WHITE(b[s])) BY <2>2, <2>5
  <2> QED BY <1>9, <2>6
<1>10. CASE b[s] = "p"
  <2>1. Attacks(b, s, t) <=> s # t /\ Rank(t) = Rank(s) - 1 /\ df = 1 BY <1>10 DEF Attacks
  <2>2. IS_WHITE(b[s]) = FALSE BY <1>10 DEF IS_WHITE, Black
  <2>3. (\E d \in Capturing(FALSE) : Lies(t, s, d, 1)) <=> Rank(t) = Rank(s) + (-1) /\ df = 1 BY <1>3
  <2>4. Rank(s) + (-1) = Rank(s) - 1 /\ (df = 1 => s # t) BY <1>1, <1>2
  <2> DEFINE takes(w) == \E d \in Capturing(w) : Lies(t, s, d, 1)
  <2>5. Attacks(b, s, t) <=> takes(FALSE) BY <2>1, <2>3, <2>4
  <2>6. Attacks(b, s, t) <=> takes(IS_WHITE(b[s])) BY <2>2, <2>5
  <2> QED BY <1>10, <2>6
<1>11. CASE b[s] \in {"N", "n"}
  <2>1. Attacks(b, s, t) <=> s # t /\ dr * df = 2 BY <1>11 DEF Attacks
  <2>2. dr * df = 2 <=> (dr = 1 /\ df = 2) \/ (dr = 2 /\ df = 1) BY <1>2, LeapIs
  <2>3. {dr, df} = {1, 2} <=> (dr = 1 /\ df = 2) \/ (dr = 2 /\ df = 1) BY PairIs
  <2>4. s = t => dr = 0 BY <1>2
  <2>5. Attacks(b, s, t) <=> {dr, df} = {1, 2}
    <3> HIDE DEF dr, df
    <3> QED BY <1>2, <2>1, <2>2, <2>3, <2>4
  <2> QED BY <1>11, <2>5
<1> QED BY <1>5, <1>6, <1>7, <1>8, <1>9, <1>10, <1>11, PieceKinds

LEMMA EnterableIs ==
    ASSUME NEW b \in Boards, NEW s \in Squares, NEW t \in Squares, NEW white \in BOOLEAN,
           is_players_piece(white, b[s])
    PROVE  Enterable(b, s, t) <=> ~is_players_piece(white, b[t])
<1>1. IS_WHITE(b[s]) = white /\ b[s] # EMPTY_SQUARE BY DEF is_players_piece
<1> QED BY <1>1 DEF Enterable, is_players_piece, IS_WHITE

\* A double step goes straight, past the square in front of the pawn.
LEMMA DoubleStepIs ==
    ASSUME NEW s \in Squares, NEW t \in Squares, NEW white \in BOOLEAN, IsDoubleStep(white, s, t)
    PROVE  /\ t # Passed(white, s) /\ s # t /\ Passed(white, s) # s
           /\ ~ \E d \in Capturing(white) : Lies(t, s, d, 1)
<1>1. Rank(s) \in 0 .. 7 /\ File(s) \in 0 .. 7 /\ Rank(t) \in 0 .. 7 /\ File(t) \in 0 .. 7
      /\ s = 8 * Rank(s) + File(s) /\ t = 8 * Rank(t) + File(t)
    BY Coordinates
<1>2. (\E d \in Capturing(white) : Lies(t, s, d, 1))
         => Rank(t) = Rank(s) + (IF white THEN 1 ELSE -1)
    BY RaysAre
<1>3. CASE white
  <2>1. t = s + 16 /\ Passed(white, s) = s + 8 BY <1>3 DEF IsDoubleStep, Passed
  <2>2. Rank(t) = Rank(s) + 2 BY <1>1, <2>1
  <2>3. Rank(t) # Rank(s) + 1 BY <1>1, <2>2
  <2>4. t # Passed(white, s) /\ s # t /\ Passed(white, s) # s BY <1>1, <2>1
  <2> QED BY <1>2, <1>3, <2>3, <2>4
<1>4. CASE ~white
  <2>1. t = s - 16 /\ Passed(white, s) = s - 8 BY <1>4 DEF IsDoubleStep, Passed
  <2>2. Rank(t) = Rank(s) - 2 BY <1>1, <2>1
  <2>3. Rank(t) # Rank(s) + (-1) BY <1>1, <2>2
  <2>4. t # Passed(white, s) /\ s # t /\ Passed(white, s) # s BY <1>1, <2>1
  <2> QED BY <1>2, <1>4, <2>3, <2>4
<1> QED BY <1>3, <1>4

\* What the handlers accept as MOVE_VALID is what the rules allow, short of castling and of
\* en passant, except for a pawn's way to lm.
LEMMA PlainIs ==
    ASSUME NEW b \in Boards, NEW c, NEW lm0, NEW s \in Squares, NEW t \in Squares,
           NEW white \in BOOLEAN, is_players_piece(white, b[s])
    PROVE  move(b, c, lm0, s, t).ret = "valid"
              <=> Plain(b, white, s, t) /\ (b[s] \in {"P", "p"} => t # lm0)
<1> DEFINE m == move(b, c, lm0, s, t)
           enter == Enterable(b, s, t)
<1>1. b[s] # EMPTY_SQUARE /\ IS_WHITE(b[s]) = white /\ white \in BOOLEAN BY DEF is_players_piece
<1>2. enter <=> ~is_players_piece(white, b[t]) BY EnterableIs
<1>3. CASE s = t
  <2>1. m.ret = "invalid" BY <1>3 DEF move, Verdict
  <2>2. ~Plain(b, white, s, t) BY <1>3 DEF Plain
  <2> QED BY <2>1, <2>2
<1>4. CASE s # t /\ b[s] \in {"R", "r", "B", "b", "Q", "q", "N", "n"}
  <2>0. ByPiece(b, c, lm0, s, t) BY <1>4, PieceMove
  <2>1. Plain(b, white, s, t) <=> enter /\ Attacks(b, s, t)
      BY <1>2, <1>4 DEF Plain, Pushes
  <2>2. \A valid : Judged(valid, c, lm0).ret = "valid" <=> valid BY DEF Judged, Verdict
  <2>3. /\ Straight \in SUBSET Every /\ Diagonal \in SUBSET Every /\ Every \in SUBSET Every
      BY DEF Every
  <2>4. \A dirs \in SUBSET Every :
           handle_simple_piece(b, s, t, dirs, 8) <=> enter /\ OnRay(s, t, dirs) /\ Clear(b, s, t)
      BY SlideIs
  <2>5. m.ret = "valid" <=> enter /\ Attacks(b, s, t)
    <3> HIDE DEF m, enter
    <3>1. CASE b[s] \in {"R", "r"}
      <4>1. m = Judged(handle_simple_piece(b, s, t, Straight, 8), c, lm0) BY <2>0, <3>1 DEF ByPiece, m
      <4>2. m.ret = "valid" <=> handle_simple_piece(b, s, t, Straight, 8) BY <2>2, <4>1
      <4>3. Attacks(b, s, t) <=> OnRay(s, t, Straight) /\ Clear(b, s, t) BY <1>1, <3>1, AttacksAre
      <4> QED BY <2>3, <2>4, <4>2, <4>3
    <3>2. CASE b[s] \in {"B", "b"}
      <4>1. m = Judged(handle_simple_piece(b, s, t, Diagonal, 8), c, lm0) BY <2>0, <3>2 DEF ByPiece, m
      <4>2. m.ret = "valid" <=> handle_simple_piece(b, s, t, Diagonal, 8) BY <2>2, <4>1
      <4>3. Attacks(b, s, t) <=> OnRay(s, t, Diagonal) /\ Clear(b, s, t) BY <1>1, <3>2, AttacksAre
      <4> QED BY <2>3, <2>4, <4>2, <4>3
    <3>3. CASE b[s] \in {"Q", "q"}
      <4>1. m = Judged(handle_simple_piece(b, s, t, Every, 8), c, lm0) BY <2>0, <3>3 DEF ByPiece, m
      <4>2. m.ret = "valid" <=> handle_simple_piece(b, s, t, Every, 8) BY <2>2, <4>1
      <4>3. Attacks(b, s, t) <=> OnRay(s, t, Every) /\ Clear(b, s, t) BY <1>1, <3>3, AttacksAre
      <4> QED BY <2>3, <2>4, <4>2, <4>3
    <3>4. CASE b[s] \in {"N", "n"}
      <4> DEFINE leap == {Abs(Rank(s) - Rank(t)), Abs(File(s) - File(t))} = {1, 2}
      <4>1. m = Judged(leap /\ enter, c, lm0) BY <2>0, <3>4 DEF ByPiece, m, enter
      <4>2. m.ret = "valid" <=> leap /\ enter BY <2>2, <4>1
      <4>3. Attacks(b, s, t) <=> leap BY <1>1, <3>4, AttacksAre
      <4> HIDE DEF leap
      <4> QED BY <4>2, <4>3
    <3> QED BY <1>4, <3>1, <3>2, <3>3, <3>4
  <2>6. b[s] \notin {"P", "p"} BY <1>4
  <2> QED BY <2>1, <2>5, <2>6
<1>5. CASE s # t /\ b[s] \in {"K", "k"}
  <2>1. Plain(b, white, s, t) <=> enter /\ Attacks(b, s, t) BY <1>1, <1>2, <1>5 DEF Plain, Pushes
  <2>2. m.ret = "valid" <=> ~IsCastles(s, t) /\ handle_simple_piece(b, s, t, Every, 1)
      BY <1>5, CastlingIs DEF Kings
  <2>3. handle_simple_piece(b, s, t, Every, 1) <=> enter /\ \E d \in Every : Lies(t, s, d, 1)
      BY OneStepIs DEF Every
  <2>4. Attacks(b, s, t) <=> \E d \in Every : Lies(t, s, d, 1) BY <1>1, <1>5, AttacksAre
  <2>5. Attacks(b, s, t) => ~IsCastles(s, t)
    <3>1. Attacks(b, s, t) => Abs(File(s) - File(t)) <= 1 BY <2>4, RaysAre
    <3>2. IsCastles(s, t) => Abs(File(s) - File(t)) = 2 BY DEF IsCastles, Abs, File, Squares
    <3>3. Abs(File(s) - File(t)) \in Int BY Coordinates DEF Abs
    <3> QED BY <3>1, <3>2, <3>3
  <2> HIDE DEF m, enter
  <2>6. b[s] \notin {"P", "p"} BY <1>5
  <2> QED BY <2>1, <2>2, <2>3, <2>4, <2>5, <2>6 DEF m
<1>6. CASE s # t /\ b[s] \in {"P", "p"}
  <2> DEFINE double == IsDoubleStep(white, s, t)  passed == Passed(white, s)
             takes == \E d \in Capturing(white) : Lies(t, s, d, 1)
             empty == b[t] = EMPTY_SQUARE
  <2>1. m.ret = "valid" <=>
           t # lm0 /\ IF double THEN b[passed] = EMPTY_SQUARE /\ empty
                      ELSE \/ ~empty /\ handle_simple_piece(b, s, t, Capturing(white), 1)
                           \/ empty /\ handle_simple_piece(b, s, t, Forward(white), 1)
      BY <1>1, <1>6, PawnIs
  <2>2. Capturing(white) \in SUBSET Every /\ Forward(white) \in SUBSET Every
      BY DEF Capturing, Forward, Every, Straight, Diagonal
  <2>3. /\ handle_simple_piece(b, s, t, Capturing(white), 1) <=> enter /\ takes
        /\ handle_simple_piece(b, s, t, Forward(white), 1) <=> enter /\ t = passed
    <3>1. (\E d \in Forward(white) : Lies(t, s, d, 1)) <=> t = passed BY RaysAre
    <3> QED BY <2>2, <3>1, OneStepIs
  <2>4. Attacks(b, s, t) <=> takes BY <1>1, <1>6, AttacksAre
  <2>5. double => t # passed /\ ~takes BY DoubleStepIs
  <2>6. empty => enter BY DEF Enterable
  <2>7. Plain(b, white, s, t) <=>
           /\ enter
           /\ \/ empty /\ (t = passed \/ (double /\ b[passed] = EMPTY_SQUARE))
              \/ Attacks(b, s, t) /\ ~empty
      BY <1>1, <1>2, <1>6 DEF Plain, Pushes, is_players_piece
  <2> HIDE DEF double, passed, takes, empty, m, enter
  <2>8. m.ret = "valid" <=> Plain(b, white, s, t) /\ t # lm0
      BY <2>1, <2>3, <2>4, <2>5, <2>6, <2>7
  <2> QED BY <1>6, <2>8 DEF m
<1> QED BY <1>1, <1>3, <1>4, <1>5, <1>6, PieceKinds

---------------------------------------------------------------------------
\* The search for a check against the rules.

Unattacked(b, white, k) == \A s \in PiecesOf(b, ~white) : ~Attacks(b, s, k)

\* A handler lets a piece go to the other side's king if the piece attacks it, and if the king
\* stands on lm.
LEMMA StrikesKing ==
    ASSUME NEW b \in Boards, NEW c \in SUBSET Rights, NEW lm0 \in LmValues, NEW white \in BOOLEAN,
           NEW k \in Squares, b[k] = KING(white), NEW s \in PiecesOf(b, ~white)
    PROVE  move(b, c, lm0, s, k).ret # "invalid" <=> Attacks(b, s, k) \/ (b[s] \in {"P", "p"} /\ k = lm0)
<1> DEFINE m == move(b, c, lm0, s, k)
<1>1. /\ s \in Squares /\ (~white) \in BOOLEAN /\ is_players_piece(~white, b[s])
      /\ b[s] # EMPTY_SQUARE
    BY DEF PiecesOf, is_players_piece
<1>2. /\ b[k] # EMPTY_SQUARE /\ ~is_players_piece(~white, b[k]) /\ s # k
  <2>1. b[k] # EMPTY_SQUARE /\ IS_WHITE(b[k]) = white BY KingIsPiece
  <2>2. ~is_players_piece(~white, b[k]) BY <2>1 DEF is_players_piece
  <2> QED BY <1>1, <2>1, <2>2
<1>3. Plain(b, ~white, s, k) <=> Attacks(b, s, k)
    BY <1>1, <1>2 DEF Plain, Pushes
<1>4. m.ret = "valid" <=> Plain(b, ~white, s, k) /\ (b[s] \in {"P", "p"} => k # lm0)
  <2>1. \A w \in BOOLEAN : is_players_piece(w, b[s]) =>
           (m.ret = "valid" <=> Plain(b, w, s, k) /\ (b[s] \in {"P", "p"} => k # lm0))
      BY <1>1, PlainIs
  <2> QED BY <1>1, <2>1
<1>5. m.ret = "en_passant" <=> b[s] \in {"P", "p"} /\ k = lm0
  <2>1. m.ret = "en_passant" => b[s] \in {"P", "p"} /\ k = lm0 BY <1>1, SpecialIs
  <2>2. b[s] \in {"P", "p"} => (m.ret = "en_passant" <=> k = lm0) BY <1>1, <1>2, PawnIs
  <2> QED BY <2>1, <2>2
<1>6. m.ret # "long_castles"
  <2>1. m.ret = "long_castles" => CastlesLong(b, c, s, k) BY <1>1, SpecialIs
  <2> QED BY <1>2, <2>1 DEF CastlesLong
<1>7. m.ret # "short_castles"
  <2>1. m.ret = "short_castles" => CastlesShort(b, c, s, k) BY <1>1, SpecialIs
  <2> QED BY <1>2, <2>1 DEF CastlesShort
<1>8. m.ret \in MoveRets
  <2>1. m \in Verdicts BY <1>1, MoveType
  <2> QED BY <2>1 DEF Verdicts
<1> HIDE DEF m
<1> QED BY <1>3, <1>4, <1>5, <1>6, <1>7, <1>8 DEF MoveRets, m

\* is_in_check finds every check of the rules, and none but them unless the king stands on lm.
ChecksAre(b, c, lm0, white, k) ==
    /\ is_in_check(b, c, lm0, white, k).ret = "invalid" => Unattacked(b, white, k)
    /\ k # lm0 /\ Unattacked(b, white, k) => is_in_check(b, c, lm0, white, k).ret = "invalid"

LEMMA CheckMeans ==
    ASSUME NEW b \in Boards, NEW c \in SUBSET Rights, NEW lm0 \in LmValues, NEW white \in BOOLEAN,
           NEW k \in Squares, b[k] = KING(white)
    PROVE  ChecksAre(b, c, lm0, white, k)
<1>1. CheckLeft(b, c, lm0, white, k) BY CheckIs
<1>2. is_in_check(b, c, lm0, white, k).ret = "invalid"
         <=> \A s \in PiecesOf(b, ~white) : move(b, c, lm0, s, k).ret = "invalid"
    BY <1>1 DEF CheckLeft
<1>3. \A s \in PiecesOf(b, ~white) :
         move(b, c, lm0, s, k).ret # "invalid" <=> Attacks(b, s, k) \/ (b[s] \in {"P", "p"} /\ k = lm0)
    BY StrikesKing
<1> QED BY <1>2, <1>3 DEF ChecksAre, Unattacked

\* The only king of its colour stands where get_king_sq finds it.
LEMMA KingIs ==
    ASSUME NEW b, NEW white \in BOOLEAN, BothKings(b), OneKing(b)
    PROVE  /\ KingOf(b, white) \in Squares /\ b[KingOf(b, white)] = KING(white)
           /\ \A k \in Squares : b[k] = KING(white) => k = KingOf(b, white)
           /\ InCheck(b, white) <=> ~Unattacked(b, white, KingOf(b, white))
<1>1. \E k \in Squares : b[k] = KING(white) BY KingsAre
<1>2. KingOf(b, white) \in Squares /\ b[KingOf(b, white)] = KING(white) BY <1>1, KingSquare
<1>3. \A k \in Squares : b[k] = KING(white) => k = KingOf(b, white) BY <1>2 DEF OneKing
<1> QED BY <1>2, <1>3 DEF InCheck, Unattacked

---------------------------------------------------------------------------
\* What an accepted move leaves.

LEMMA MadeIsSafe ==
    ASSUME ChessInv, NEW from \in PiecesOf(board, white_to_move), NEW to \in Squares, NEW m, NEW made,
           m = move(board, castles, lm, from, to), made = MOVE(board, from, to), Accepted(from, to)
    PROVE  /\ made \in Boards /\ m \in Verdicts /\ m.ret # "invalid"
           /\ BothKings(made) /\ OneKing(made) /\ BothKings(board) /\ OneKing(board)
           /\ OneKing(Placed(m, made, from, to))
           /\ Unattacked(made, white_to_move, KingOf(made, white_to_move))
           /\ ~InCheck(made, white_to_move)
<1>1. TypeOK /\ (BothKings(board) => OneKing(board)) BY DEF ChessInv
<1>2. /\ board \in Boards /\ castles \in SUBSET Rights /\ lm \in LmValues /\ white_to_move \in BOOLEAN
      /\ from \in Squares /\ board[from] # EMPTY_SQUARE
    BY <1>1 DEF TypeOK, Boards, LmValues, PiecesOf, is_players_piece
<1>3. m.ret # "invalid" /\ accept(white_to_move, m, made, from, to) BY DEF Accepted
<1>4. /\ m \in Verdicts /\ made \in Boards /\ BothKings(made) /\ ~LeavesBoard(m, to)
      /\ is_in_check(made, m.castles, m.lm, white_to_move, KingOf(made, white_to_move)).ret = "invalid"
    BY <1>1, <1>3, AcceptIs
<1>5. BothKings(board) /\ OneKing(board) /\ OneKing(made)
    BY <1>1, <1>2, <1>4, MoveKeepsKings
<1>6. OneKing(Placed(m, made, from, to)) BY <1>2, <1>4, <1>5, PlacedType
<1> DEFINE k == KingOf(made, white_to_move)
<1>7. /\ k \in Squares /\ made[k] = KING(white_to_move)
      /\ InCheck(made, white_to_move) <=> ~Unattacked(made, white_to_move, k)
    BY <1>2, <1>4, <1>5, KingIs
<1>8. m.castles \in SUBSET Rights /\ m.lm \in LmValues BY <1>4 DEF Verdicts
<1> HIDE DEF k
<1>9. ChecksAre(made, m.castles, m.lm, white_to_move, k) BY <1>2, <1>4, <1>7, <1>8, CheckMeans
<1> QED BY <1>3, <1>4, <1>5, <1>6, <1>7, <1>9 DEF ChecksAre, k

\* A move answered as MOVE_VALID is one of the rules of chess: the piece may go there past
\* empty squares, takes no piece of its own side, does not expose its king, and nothing else on
\* the board changes.
THEOREM AcceptedIsLegalCorrect == Spec => AcceptedIsLegal
<1>1. ASSUME ChessInv, [Next]_vars
      PROVE  [ret' = "valid" /\ white_to_move' # white_to_move =>
                \E s, t \in {u \in Squares : board'[u] # board[u]} :
                   board' = MOVE(board, s, t) /\ Legal(s, t)]_vars
  <2>1. TypeOK BY <1>1 DEF ChessInv
  <2>2. ASSUME NEW from \in PiecesOf(board, white_to_move), NEW to \in Squares, Accepted(from, to),
               ret' = "valid"
        PROVE  \E s, t \in {u \in Squares : board'[u] # board[u]} : board' = MOVE(board, s, t) /\ Legal(s, t)
    <3> DEFINE m == move(board, castles, lm, from, to)  made == MOVE(board, from, to)
    <3>1. /\ board \in Boards /\ white_to_move \in BOOLEAN /\ from \in Squares
          /\ is_players_piece(white_to_move, board[from]) /\ board[from] # EMPTY_SQUARE
        BY <2>1 DEF TypeOK, Boards, PiecesOf, is_players_piece
    <3>2. m.ret = "valid" /\ board' = Placed(m, made, from, to)
      <4>1. \/ ret' = "checkmate"
            \/ ret' = m.ret /\ board' = Placed(m, made, from, to)
          BY <2>1, <2>2, AcceptIs DEF Accepted
      <4> QED BY <2>2, <4>1
    <3>3. board' = made BY <3>2 DEF Placed
    <3>4. Plain(board, white_to_move, from, to) BY <3>1, <3>2, PlainIs
    <3>5. ~InCheck(made, white_to_move) BY <1>1, <2>2, MadeIsSafe
    <3>6. Legal(from, to) BY <3>4, <3>5 DEF Legal, Helps
    <3>7. board'[from] # board[from] /\ board'[to] # board[to]
      <4>1. from # to /\ board[to] # board[from] BY <3>1, <3>4 DEF Plain, is_players_piece
      <4>2. made[from] = EMPTY_SQUARE /\ made[to] = board[from] BY <3>1, <4>1, MoveMakesBoard
      <4> QED BY <3>1, <3>3, <4>1, <4>2
    <3> QED BY <3>1, <3>3, <3>6, <3>7
  <2> QED BY <1>1, <2>1, <2>2, StepIs DEF Refused, Kingless
<1> QED BY <1>1, ChessInvariant, PTL DEF Spec, AcceptedIsLegal

---------------------------------------------------------------------------
\* Castling.

\* The rook's square, on the edge beside the king or a square away from it, hides nothing.
LEMMA EdgeSquare ==
    ASSUME NEW x \in Squares, NEW k \in Squares, NEW s \in Squares, Rank(x) = Rank(k),
           \/ File(x) = 7 /\ File(k) = 6
           \/ File(x) = 0 /\ File(k) = 2
    PROVE  x \notin Between(s, k)
<1> SUFFICES ASSUME x \in Between(s, k) PROVE FALSE OBVIOUS
<1> DEFINE d == Rank(x) - Rank(s)  e == File(x) - File(s)
<1>1. /\ Rank(s) \in 0 .. 7 /\ File(s) \in 0 .. 7 /\ Rank(k) \in 0 .. 7 /\ File(k) \in 0 .. 7
      /\ Rank(x) \in 0 .. 7 /\ File(x) \in 0 .. 7
    BY Coordinates
<1>2. /\ x # s
      /\ d * (File(k) - File(s)) = e * (Rank(k) - Rank(s))
      /\ e * (File(x) - File(k)) <= 0
    BY DEF Between
<1>3. Rank(k) - Rank(s) = d BY DEF d
<1>4. d \in Int /\ e \in Int BY <1>1
<1>5. CASE File(x) = 7 /\ File(k) = 6
  <2>1. File(k) - File(s) = e - 1 /\ File(x) - File(k) = 1 BY <1>1, <1>5
  <2> HIDE DEF d, e
  <2>2. d * (e - 1) = e * d /\ e * 1 <= 0 BY <1>2, <1>3, <2>1
  <2>3. d * (e - 1) = d * e - d /\ e * d = d * e /\ e * 1 = e /\ d * e \in Int BY <1>4
  <2>4. d = 0 /\ e <= 0 BY <1>4, <2>2, <2>3
  <2>5. Rank(x) = Rank(s) /\ File(x) = File(s) BY <1>1, <1>5, <2>4 DEF d, e
  <2> QED BY <1>2, <2>5, SameSquare
<1>6. CASE File(x) = 0 /\ File(k) = 2
  <2>1. File(k) - File(s) = e + 2 /\ File(x) - File(k) = -2 BY <1>1, <1>6
  <2> HIDE DEF d, e
  <2>2. d * (e + 2) = e * d /\ e * (-2) <= 0 BY <1>2, <1>3, <2>1
  <2>3. d * (e + 2) = d * e + 2 * d /\ e * d = d * e /\ e * (-2) = -2 * e /\ d * e \in Int BY <1>4
  <2>4. d = 0 /\ e >= 0 BY <1>4, <2>2, <2>3
  <2>5. Rank(x) = Rank(s) /\ File(x) = File(s) BY <1>1, <1>6, <2>4 DEF d, e
  <2> QED BY <1>2, <2>5, SameSquare
<1> QED BY <1>5, <1>6

\* What stands on the rook's square x comes to y beside the king on k: of all pieces only a king
\* attacks from there what it did not attack before.
LEMMA CastledSafe ==
    ASSUME NEW b \in Boards, NEW w \in BOOLEAN, NEW k \in Squares, NEW x \in Squares, NEW y \in Squares,
           Unattacked(b, w, k), b[k] # EMPTY_SQUARE, b[y] = EMPTY_SQUARE, x # k, x # y,
           Rank(x) = Rank(k), Rank(y) = Rank(k), Abs(File(y) - File(k)) = 1,
           \A s \in Squares : x \notin Between(s, k), Clear(b, x, k),
           NEW s \in PiecesOf(MOVE(b, x, y), ~w), Attacks(MOVE(b, x, y), s, k)
    PROVE  s = y /\ b[x] = KING(~w) /\ Abs(File(x) - File(k)) # 1
<1> DEFINE a == MOVE(b, x, y)
<1>1. /\ a \in Boards
      /\ \A u \in Squares : a[u] = IF u = y THEN b[x] ELSE IF u = x THEN EMPTY_SQUARE ELSE b[u]
    BY MoveMakesBoard
<1>2. s \in Squares /\ a[s] # EMPTY_SQUARE /\ IS_WHITE(a[s]) = ~w BY DEF PiecesOf, is_players_piece
<1>3. \A u \in Squares : b[u] # EMPTY_SQUARE /\ IS_WHITE(b[u]) = ~w => ~Attacks(b, u, k)
    BY DEF Unattacked, PiecesOf, is_players_piece
<1> HIDE DEF a
<1>4. Attacks(a, s, k) BY DEF a
<1>5. Clear(a, s, k) => Clear(b, s, k)
  <2>1. \A u \in Between(s, k) : u \in Squares /\ u # x BY <1>2 DEF Between
  <2> QED BY <1>1, <2>1 DEF Clear
<1>6. s = y
  <2> SUFFICES ASSUME s # y PROVE FALSE OBVIOUS
  <2>1. s # x /\ a[s] = b[s] BY <1>1, <1>2
  <2>2. Attacks(a, s, k) => Attacks(b, s, k) BY <1>5, <2>1 DEF Attacks, Clear
  <2> QED BY <1>2, <1>3, <1>4, <2>1, <2>2
<1>7. a[y] = b[x] /\ b[x] # EMPTY_SQUARE /\ IS_WHITE(b[x]) = ~w /\ b[x] \in Pieces
    BY <1>1, <1>2, <1>6 DEF Boards
<1>8. ~Attacks(b, x, k) BY <1>3, <1>7
<1>9. /\ Rank(k) \in 0 .. 7 /\ File(k) \in 0 .. 7 /\ Rank(x) \in 0 .. 7 /\ File(x) \in 0 .. 7
      /\ Rank(y) \in 0 .. 7 /\ File(y) \in 0 .. 7
    BY Coordinates
<1>10. b[x] \in {"R", "r", "Q", "q", "K", "k"}
  <2>1. /\ Abs(Rank(y) - Rank(k)) = 0 /\ Abs(File(y) - File(k)) = 1
    <3>1. Rank(y) - Rank(k) = 0 BY <1>9
    <3> QED BY <3>1 DEF Abs
  <2>2. Rank(k) # Rank(y) + 1 /\ Rank(k) # Rank(y) - 1 /\ 0 * 1 # 2 /\ 0 # 1 BY <1>9
  <2>3. a[y] \notin {"P", "p", "N", "n", "B", "b"} BY <1>4, <1>6, <2>1, <2>2 DEF Attacks
  <2> QED BY <1>7, <2>3 DEF Pieces, White, Black
<1>11. Abs(Rank(x) - Rank(k)) = 0
  <2>1. Rank(x) - Rank(k) = 0 BY <1>9
  <2> QED BY <2>1 DEF Abs
<1>12. b[x] \in {"K", "k"}
  <2> SUFFICES ASSUME b[x] \in {"R", "r", "Q", "q"} PROVE Attacks(b, x, k) BY <1>8, <1>10
  <2> QED BY <1>11 DEF Attacks, Clear
<1>13. b[x] = KING(~w) BY <1>7, <1>12 DEF KING, IS_WHITE, Black
<1>14. Abs(File(x) - File(k)) # 1
  <2> SUFFICES ASSUME Abs(File(x) - File(k)) = 1 PROVE Attacks(b, x, k) BY <1>8
  <2>1. \E d \in Every : Lies(k, x, d, 1)
    <3>1. Abs(Rank(x) - Rank(k)) <= 1 /\ Abs(File(x) - File(k)) <= 1 BY <1>11
    <3> QED BY <3>1, RaysAre
  <2> QED BY <1>1, <1>7, <1>12, <2>1, AttacksAre
<1> QED BY <1>6, <1>13, <1>14

\* The squares of castling: the rook's on the edge, nothing between it and the king's new one.
LEMMA CastlingSquares ==
    ASSUME NEW from \in {4, 60}
    PROVE  /\ {from - 4, from - 3, from - 2, from - 1, from + 1, from + 2, from + 3} \subseteq Squares
           /\ File(from + 3) = 7 /\ File(from + 2) = 6 /\ File(from + 1) = 5
           /\ File(from - 4) = 0 /\ File(from - 3) = 1 /\ File(from - 2) = 2 /\ File(from - 1) = 3
           /\ \A i \in -4 .. 3 : Rank(from + i) = Rank(from)
           /\ Lies(from + 2, from + 3, <<0, -1>>, 1) /\ Lies(from - 2, from - 4, <<0, 1>>, 2)
BY DEF Squares, File, Rank, Lies

\* The king that has castled is unattacked on the board with the rook's square emptied, but
\* for the opponent's king that has come along from there.
LEMMA CastledIsSafe ==
    ASSUME ChessInv, NEW from \in PiecesOf(board, white_to_move), NEW to \in Squares, Accepted(from, to),
           NEW m, NEW made, NEW after,
           m = move(board, castles, lm, from, to), made = MOVE(board, from, to),
           after = Placed(m, made, from, to),
           m.ret \in {"long_castles", "short_castles"},
           NEW k \in Squares, after[k] = KING(white_to_move),
           NEW s \in PiecesOf(after, ~white_to_move), Attacks(after, s, k)
    PROVE  m.ret = "long_castles" /\ after[s] = KING(~white_to_move)
<1> DEFINE w == white_to_move
           x == IF m.ret = "long_castles" THEN from - 4 ELSE from + 3
           y == IF m.ret = "long_castles" THEN from - 1 ELSE from + 1
<1>1. /\ board \in Boards /\ castles \in SUBSET Rights /\ lm \in LmValues /\ w \in BOOLEAN
      /\ from \in Squares /\ board[from] # EMPTY_SQUARE /\ IS_WHITE(board[from]) = w
    BY DEF ChessInv, TypeOK, Boards, LmValues, PiecesOf, is_players_piece
<1>2. /\ made \in Boards /\ OneKing(after) /\ OneKing(made) /\ BothKings(made)
      /\ Unattacked(made, w, KingOf(made, w))
    BY MadeIsSafe
<1>3. /\ board[from] \in Kings
      /\ m.ret = "long_castles" => CastlesLong(board, castles, from, to)
      /\ m.ret = "short_castles" => CastlesShort(board, castles, from, to)
    BY <1>1, SpecialIs
<1>4. /\ from \in {4, 60}
      /\ to = IF m.ret = "long_castles" THEN from - 2 ELSE from + 2
      /\ board[y] = EMPTY_SQUARE
      /\ m.ret = "long_castles" => board[from - 3] = EMPTY_SQUARE
    BY <1>3 DEF CastlesLong, CastlesShort
<1>5. /\ x \in Squares /\ y \in Squares /\ x # to /\ x # y /\ y # to /\ y # from /\ from # to
      /\ Rank(x) = Rank(to) /\ Rank(y) = Rank(to)
      /\ Abs(File(y) - File(to)) = 1
      /\ m.ret = "short_castles" => Abs(File(x) - File(to)) = 1
      /\ (File(x) = 7 /\ File(to) = 6) \/ (File(x) = 0 /\ File(to) = 2)
  <2>0. /\ m.ret = "long_castles" => x = from - 4 /\ y = from - 1
        /\ m.ret = "short_castles" => x = from + 3 /\ y = from + 1
      OBVIOUS
  <2> HIDE DEF x, y
  <2>1. CASE m.ret = "long_castles"
    <3>1. x = from - 4 /\ y = from - 1 /\ to = from - 2 BY <1>4, <2>0, <2>1
    <3>2. Rank(x) = Rank(from) /\ Rank(y) = Rank(from) /\ Rank(to) = Rank(from)
      <4>1. \A i \in -4 .. 3 : Rank(from + i) = Rank(from) BY <1>4, CastlingSquares
      <4>2. from - 4 = from + (-4) /\ from - 1 = from + (-1) /\ from - 2 = from + (-2) BY <1>4
      <4>3. (-4) \in -4 .. 3 /\ (-1) \in -4 .. 3 /\ (-2) \in -4 .. 3 OBVIOUS
      <4> QED BY <3>1, <4>1, <4>2, <4>3
    <3>3. File(x) = 0 /\ File(y) = 3 /\ File(to) = 2 /\ x \in Squares /\ y \in Squares
        BY <1>4, <3>1, CastlingSquares
    <3>4. Abs(3 - 2) = 1 BY DEF Abs
    <3>5. x # to /\ x # y /\ y # to /\ y # from /\ from # to
      <4>1. from \in Int BY <1>4
      <4> QED BY <3>1, <4>1
    <3> QED BY <2>1, <3>2, <3>3, <3>4, <3>5
  <2>2. CASE m.ret = "short_castles"
    <3>1. x = from + 3 /\ y = from + 1 /\ to = from + 2 BY <1>4, <2>0, <2>2
    <3>2. Rank(x) = Rank(from) /\ Rank(y) = Rank(from) /\ Rank(to) = Rank(from)
      <4>1. \A i \in -4 .. 3 : Rank(from + i) = Rank(from) BY <1>4, CastlingSquares
      <4> QED BY <3>1, <4>1
    <3>3. File(x) = 7 /\ File(y) = 5 /\ File(to) = 6 /\ x \in Squares /\ y \in Squares
        BY <1>4, <3>1, CastlingSquares
    <3>4. Abs(5 - 6) = 1 /\ Abs(7 - 6) = 1
      <4>1. \A i, j \in Int : i = j + 1 \/ j = i + 1 => Abs(i - j) = 1 BY DEF Abs
      <4> QED BY <4>1
    <3>5. x # to /\ x # y /\ y # to /\ y # from /\ from # to BY <1>4, <3>1
    <3> QED BY <3>2, <3>3, <3>4, <3>5
  <2> QED BY <2>1, <2>2
<1>6. after = MOVE(made, x, y)
    BY DEF Placed
<1>7. \A u \in Squares : made[u] = IF u = to THEN board[from] ELSE IF u = from THEN EMPTY_SQUARE ELSE board[u]
  <2>1. \A u \in Squares : MOVE(board, from, to)[u] =
           IF u = to THEN board[from] ELSE IF u = from THEN EMPTY_SQUARE ELSE board[u]
      BY <1>1 DEF MOVE, Boards
  <2> QED BY <2>1
<1>8. made[to] = KING(w) /\ made[y] = EMPTY_SQUARE /\ KING(w) # EMPTY_SQUARE
  <2>1. board[from] = KING(w) BY <1>1, <1>3 DEF Kings, KING, IS_WHITE, Black
  <2> QED BY <1>1, <1>4, <1>5, <1>7, <2>1, KingIsPiece
<1> HIDE DEF x, y, w
<1>14. \A u \in Squares : after[u] = IF u = y THEN made[x] ELSE IF u = x THEN EMPTY_SQUARE ELSE made[u]
  <2>1. \A u \in Squares : MOVE(made, x, y)[u] =
           IF u = y THEN made[x] ELSE IF u = x THEN EMPTY_SQUARE ELSE made[u]
      BY <1>2, <1>5 DEF MOVE, Boards
  <2> QED BY <1>6, <2>1
<1>9. k = to
  <2>1. after[to] = KING(w) BY <1>5, <1>8, <1>14
  <2> QED BY <1>1, <1>2, <2>1 DEF OneKing, w
<1>10. KingOf(made, w) = to
  <2>1. \A u \in Squares : made[u] = KING(w) => u = KingOf(made, w) BY <1>1, <1>2, KingIs
  <2> QED BY <1>8, <2>1
<1>11. Clear(made, x, to)
  <2>1. CASE m.ret = "long_castles"
    <3>1. Lies(to, x, <<0, 1>>, 2) BY <1>4, <2>1, CastlingSquares DEF x
    <3>2. from - 3 \in Squares /\ from - 3 # from /\ from - 3 # to BY <1>4, <2>1, CastlingSquares
    <3>3. made[from - 3] = EMPTY_SQUARE BY <1>4, <1>7, <2>1, <3>2
    <3>4. x + 1 * SQUARE_TO_INT(0, 1) = from - 3 BY <1>4, <2>1 DEF SQUARE_TO_INT, x
    <3>5. \A j \in 1 .. 2 - 1 : made[x + j * SQUARE_TO_INT(0, 1)] = EMPTY_SQUARE
      <4>1. \A j \in 1 .. 2 - 1 : j = 1 OBVIOUS
      <4> QED BY <3>3, <3>4, <4>1
    <3>6. <<0, 1>> \in Every /\ <<0, 1>>[1] = 0 /\ <<0, 1>>[2] = 1 BY DEF Every, Straight
    <3> QED BY <1>5, <3>1, <3>5, <3>6, ClearIs
  <2>2. CASE m.ret = "short_castles"
    <3>1. Lies(to, x, <<0, -1>>, 1) BY <1>4, <2>2, CastlingSquares DEF x
    <3>2. <<0, -1>> \in Every BY DEF Every, Straight
    <3>3. 1 .. 1 - 1 = {} OBVIOUS
    <3> QED BY <1>5, <3>1, <3>2, <3>3, ClearIs
  <2> QED BY <2>1, <2>2
<1>12. \A u \in Squares : x \notin Between(u, to) BY <1>5, EdgeSquare
<1>13. s = y /\ made[x] = KING(~w) /\ Abs(File(x) - File(to)) # 1
  <2>1. s \in PiecesOf(MOVE(made, x, y), ~w) /\ Attacks(MOVE(made, x, y), s, to) BY <1>6, <1>9 DEF w
  <2>2. made[to] # EMPTY_SQUARE /\ Unattacked(made, w, to) BY <1>2, <1>8, <1>10 DEF w
  <2> QED BY <1>1, <1>2, <1>5, <1>8, <1>11, <1>12, <2>1, <2>2, CastledSafe
<1> QED BY <1>5, <1>13, <1>14 DEF w

LEMMA MoverKeeps ==
    ASSUME ChessInv, MoverIsSafe, [Next]_vars
    PROVE  MoverIsSafe'
<1>1. TypeOK /\ white_to_move \in BOOLEAN BY DEF ChessInv, TypeOK
<1>2. CASE Refused
  <2>1. CASE ret' = ret
    <3>1. ret' = ret /\ board' = board /\ white_to_move' = white_to_move BY <1>2, <2>1 DEF Refused
    <3>2. PiecesOf(board', white_to_move') = PiecesOf(board, white_to_move) BY <3>1
    <3> QED BY <3>1, <3>2 DEF MoverIsSafe
  <2>2. CASE ret' = "invalid"
    <3>1. ret' \notin {"valid", "short_castles", "long_castles"} BY <2>2
    <3> QED BY <3>1 DEF MoverIsSafe
  <2>3. ret' = "invalid" \/ ret' = ret BY <1>2 DEF Refused
  <2> QED BY <2>1, <2>2, <2>3
<1>3. CASE Kingless
  <2>1. ret' \notin {"valid", "short_castles", "long_castles"} BY <1>3 DEF Kingless
  <2> QED BY <2>1 DEF MoverIsSafe
<1>4. ASSUME NEW from \in PiecesOf(board, white_to_move), NEW to \in Squares, Accepted(from, to)
      PROVE  MoverIsSafe'
  <2> DEFINE m == move(board, castles, lm, from, to)  made == MOVE(board, from, to)
             after == Placed(m, made, from, to)
  <2>1. \/ ret' = "checkmate"
        \/ ret' = m.ret /\ white_to_move' = ~white_to_move /\ board' = after
      BY <1>1, <1>4, AcceptIs DEF Accepted
  <2>2. CASE ret' \notin {"valid", "long_castles", "short_castles"} BY <2>2 DEF MoverIsSafe
  <2>3. CASE ret' \in {"valid", "long_castles", "short_castles"}
    <3>1. m.ret = ret' /\ white_to_move' = ~white_to_move /\ board' = after /\ (~white_to_move') = white_to_move
        BY <1>1, <2>1, <2>3
    <3>2. SUFFICES ASSUME NEW k \in Squares, NEW s \in PiecesOf(after, ~white_to_move),
                          after[k] = KING(white_to_move), Attacks(after, s, k)
                   PROVE  ret' = "long_castles" /\ after[s] = KING(~white_to_move)
        BY <3>1 DEF MoverIsSafe
    <3>3. CASE m.ret \in {"long_castles", "short_castles"}
        BY <1>4, <3>1, <3>2, <3>3, CastledIsSafe
    <3>4. CASE m.ret = "valid"
      <4>1. after = made BY <3>4 DEF Placed
      <4>2. BothKings(made) /\ OneKing(made) /\ Unattacked(made, white_to_move, KingOf(made, white_to_move))
          BY <1>4, MadeIsSafe
      <4>3. k = KingOf(made, white_to_move) BY <1>1, <3>2, <4>1, <4>2, KingIs
      <4> QED BY <3>2, <4>1, <4>2, <4>3 DEF Unattacked
    <3> QED BY <2>3, <3>1, <3>3, <3>4
  <2> QED BY <2>2, <2>3
<1> QED BY <1>1, <1>2, <1>3, <1>4, StepIs

\* Once a move is answered as MOVE_VALID or as castling, no piece of the opponent attacks the
\* king of the player who made it: a move into check is taken back, and castling, whose rook's
\* square move_piece empties after the search for a check, opens no line to the king.  Only the
\* opponent's king may stand beside it, moved there from the rook's square.
THEOREM MoverIsSafeCorrect == Spec => []MoverIsSafe
<1>1. Init => MoverIsSafe BY DEF Init, MoverIsSafe
<1>2. ChessInv /\ MoverIsSafe /\ [Next]_vars => MoverIsSafe' BY MoverKeeps
<1> QED BY <1>1, <1>2, ChessInvariant, PTL DEF Spec

---------------------------------------------------------------------------
\* lm.

\* A handler leaves lm alone, or sets it to no square or to the empty one a pawn has passed.
LEMMA LmIs ==
    ASSUME NEW b \in Boards, NEW c \in SUBSET Rights, NEW lm0 \in LmValues,
           NEW s \in Squares, NEW t \in Squares, b[s] # EMPTY_SQUARE
    PROVE  LET m     == move(b, c, lm0, s, t)
               white == IS_WHITE(b[s])
           IN  \/ m.lm = lm0
               \/ m.lm = NoSquare
               \/ /\ IsDoubleStep(white, s, t) /\ m.ret = "valid"
                  /\ m.lm = Passed(white, s) /\ b[Passed(white, s)] = EMPTY_SQUARE /\ b[t] = EMPTY_SQUARE
<1> DEFINE m == move(b, c, lm0, s, t)
<1>1. CASE s = t BY <1>1 DEF move, Verdict
<1>2. CASE s # t /\ b[s] \in {"R", "r", "N", "n", "B", "b", "Q", "q"}
  <2>1. ByPiece(b, c, lm0, s, t) BY <1>2, PieceMove
  <2> QED BY <1>2, <2>1 DEF ByPiece, Judged, Verdict
<1>3. CASE s # t /\ b[s] \in Kings BY <1>3, CastlingIs
<1>4. CASE s # t /\ b[s] \in {"P", "p"} BY <1>4, PawnIs
<1>5. b[s] \in {"R", "r", "N", "n", "B", "b", "Q", "q"} \/ b[s] \in Kings \/ b[s] \in {"P", "p"}
    BY PieceKinds DEF Kings
<1> HIDE DEF m
<1> QED BY <1>1, <1>2, <1>3, <1>4, <1>5

\* A move that takes no piece of its own side leaves the king on the board.
LEMMA KingStays ==
    ASSUME NEW b \in Boards, NEW w \in BOOLEAN, NEW s \in Squares, NEW t \in Squares,
           BothKings(b), ~is_players_piece(w, b[t])
    PROVE  \E k \in Squares : MOVE(b, s, t)[k] = KING(w)
<1>1. PICK k \in Squares : b[k] = KING(w) BY KingsAre
<1>2. k # t BY <1>1, KingIsPiece DEF is_players_piece
<1>3. \A u \in Squares : MOVE(b, s, t)[u] = IF u = t THEN b[s] ELSE IF u = s THEN EMPTY_SQUARE ELSE b[u]
    BY MoveMakesBoard
<1>4. CASE k = s BY <1>1, <1>3, <1>4
<1>5. CASE k # s BY <1>1, <1>2, <1>3, <1>5
<1> QED BY <1>4, <1>5

\* Whenever lm is no square, move_piece accepts every move of the rules, short of castling and of
\* en passant: the handler answers MOVE_VALID and the search finds no check.
THEOREM LegalIsAcceptedCorrect == Spec => []LegalIsAccepted
<1>1. ASSUME ChessInv PROVE LegalIsAccepted
  <2> SUFFICES ASSUME lm = NoSquare, BothKings(board),
                      NEW s \in PiecesOf(board, white_to_move), NEW t \in Squares, Legal(s, t)
               PROVE  LET m    == move(board, castles, lm, s, t)
                          made == MOVE(board, s, t)
                      IN  /\ m.ret = "valid"
                          /\ is_in_check(made, m.castles, m.lm, white_to_move, KingOf(made, white_to_move)).ret = "invalid"
      BY DEF LegalIsAccepted
  <2> DEFINE m == move(board, castles, lm, s, t)  made == MOVE(board, s, t)
             w == white_to_move  k == KingOf(made, w)
  <2>1. /\ board \in Boards /\ castles \in SUBSET Rights /\ lm \in LmValues /\ w \in BOOLEAN
        /\ s \in Squares /\ is_players_piece(w, board[s]) /\ board[s] # EMPTY_SQUARE
      BY <1>1 DEF ChessInv, TypeOK, Boards, LmValues, PiecesOf, is_players_piece
  <2>2. Plain(board, w, s, t) /\ ~InCheck(made, w) BY DEF Legal, Helps
  <2>3. t # lm BY DEF NoSquare, Squares
  <2>4. m.ret = "valid" BY <2>1, <2>2, <2>3, PlainIs
  <2>5. made \in Boards /\ m.castles \in SUBSET Rights /\ m.lm \in LmValues
    <3>1. m \in Verdicts BY <2>1, MoveType
    <3>2. made \in Boards BY <2>1, MoveMakesBoard
    <3> HIDE DEF m, made
    <3> QED BY <3>1, <3>2 DEF Verdicts
  <2>6. k \in Squares /\ made[k] = KING(w) /\ made[k] # EMPTY_SQUARE
    <3>1. ~is_players_piece(w, board[t]) BY <2>2 DEF Plain
    <3>2. \E j \in Squares : made[j] = KING(w) BY <2>1, <3>1, KingStays
    <3>3. k \in Squares /\ made[k] = KING(w) BY <3>2, KingSquare
    <3> QED BY <2>1, <3>3, KingIsPiece
  <2>7. m.lm # k
    <3> DEFINE white == IS_WHITE(board[s])  p == Passed(white, s)
    <3>1. \/ m.lm = NoSquare
          \/ IsDoubleStep(white, s, t) /\ m.lm = p /\ board[p] = EMPTY_SQUARE
        BY <2>1, LmIs
    <3>2. ASSUME IsDoubleStep(white, s, t), m.lm = p, board[p] = EMPTY_SQUARE, m.lm = k PROVE FALSE
      <4>1. white \in BOOLEAN BY DEF IS_WHITE
      <4>2. p # s /\ p # t BY <2>1, <3>2, <4>1, DoubleStepIs
      <4>3. p \in Squares BY <2>6, <3>2
      <4>4. made[p] = board[p] BY <2>1, <4>2, <4>3, MoveMakesBoard
      <4> HIDE DEF m, made, k, p
      <4> QED BY <2>6, <3>2, <4>4
    <3>3. k # NoSquare
      <4> HIDE DEF k
      <4> QED BY <2>6 DEF NoSquare, Squares
    <3> HIDE DEF m, k, p, white
    <3> QED BY <3>1, <3>2, <3>3
  <2>8. Unattacked(made, w, k) BY <2>2, <2>6 DEF InCheck, Unattacked
  <2>9. ChecksAre(made, m.castles, m.lm, w, k)
    <3> HIDE DEF m, made, k
    <3> QED BY <2>1, <2>5, <2>6, CheckMeans
  <2>10. is_in_check(made, m.castles, m.lm, w, k).ret = "invalid"
    <3> HIDE DEF m, made, k
    <3> QED BY <2>7, <2>8, <2>9 DEF ChecksAre
  <2> QED BY <2>4, <2>10
<1> QED BY <1>1, ChessInvariant, PTL

---------------------------------------------------------------------------
\* The clients' board.

\* En passant that gives no check: the square told is the one that was cleared.
LEMMA ToldSquare ==
    ASSUME ChessInv, NEW from \in PiecesOf(board, white_to_move), NEW to \in Squares, Accepted(from, to),
           NEW m, NEW made, NEW after,
           m = move(board, castles, lm, from, to), made = MOVE(board, from, to),
           after = Placed(m, made, from, to),
           m.ret = "en_passant", BothKings(after), ~InCheck(after, ~white_to_move)
    PROVE  is_in_check(after, m.castles, LastMove(m, to), ~white_to_move,
                       KingOf(made, ~white_to_move)).ret = "invalid"
<1> DEFINE w == ~white_to_move  k == KingOf(made, w)
<1>1. TypeOK /\ w \in BOOLEAN BY DEF ChessInv, TypeOK
<1>2. made \in Boards /\ m \in Verdicts /\ BothKings(made) /\ OneKing(made) BY MadeIsSafe
<1>3. /\ LastMove(m, to) \in LmValues /\ after \in Boards /\ ~LeavesBoard(m, to)
    BY <1>1, AcceptIs DEF Accepted
<1>4. LastMove(m, to) = Captured(to) BY DEF LastMove
<1>5. Captured(to) \in Squares BY <1>3, CapturedType DEF LeavesBoard
<1> HIDE DEF w
<1>6. k \in Squares /\ made[k] = KING(w) /\ \A j \in Squares : made[j] = KING(w) => j = k
    BY <1>1, <1>2, KingIs
<1>7. after = Cleared(made, Captured(to)) BY DEF Placed, Cleared
<1>8. \A u \in Squares : after[u] = IF u = Captured(to) THEN EMPTY_SQUARE ELSE made[u]
  <2>1. \A u \in Squares : Cleared(made, Captured(to))[u] = IF u = Captured(to) THEN EMPTY_SQUARE ELSE made[u]
      BY <1>2, <1>5 DEF Cleared, Boards
  <2> QED BY <1>7, <2>1
<1>9. after[k] = KING(w) /\ k # Captured(to)
  <2>1. PICK j \in Squares : after[j] = KING(w) BY <1>1, KingsAre
  <2>2. KING(w) # EMPTY_SQUARE BY <1>1, KingIsPiece
  <2>3. j # Captured(to) /\ made[j] = KING(w) BY <1>8, <2>1, <2>2
  <2> QED BY <1>6, <2>1, <2>3
<1> HIDE DEF k
<1>10. Unattacked(after, w, k) BY <1>6, <1>9 DEF InCheck, Unattacked, w
<1>11. m.castles \in SUBSET Rights BY <1>2 DEF Verdicts
<1>12. ChecksAre(after, m.castles, LastMove(m, to), w, k)
    BY <1>1, <1>3, <1>6, <1>9, <1>11, CheckMeans
<1>13. is_in_check(after, m.castles, LastMove(m, to), w, k).ret = "invalid"
    BY <1>4, <1>9, <1>10, <1>12 DEF ChecksAre
<1> QED BY <1>13 DEF k, w

\* What is told of a move, applied to the board before it, gives the board after it.
LEMMA ReportedIs ==
    ASSUME NEW b \in Boards, NEW from \in Squares, NEW to \in Squares, NEW m,
           m.ret = "long_castles" => to = from - 2,
           m.ret = "short_castles" => to = from + 2,
           m.ret = "en_passant" => Captured(to) \in Squares /\ Captured(to) # from,
           m.ret \in {"valid", "long_castles", "short_castles", "en_passant"}
    PROVE  Reported(m.ret, b, Captured(to), from, to) = Placed(m, MOVE(b, from, to), from, to)
<1>1. CASE m.ret = "en_passant"
  <2> DEFINE c == Captured(to)
             before == [s \in Squares |-> IF s = c THEN EMPTY_SQUARE ELSE b[s]]
  <2>1. Reported(m.ret, b, c, from, to) = MOVE(before, from, to) BY <1>1 DEF Reported
  <2>2. Placed(m, MOVE(b, from, to), from, to) = [MOVE(b, from, to) EXCEPT ![c] = EMPTY_SQUARE]
      BY <1>1 DEF Placed
  <2>3. c \in Squares /\ c # from /\ c # to BY <1>1 DEF Captured, Squares
  <2> HIDE DEF c
  <2>4. MOVE(before, from, to) = [MOVE(b, from, to) EXCEPT ![c] = EMPTY_SQUARE]
      BY <2>3 DEF MOVE, Boards
  <2> QED BY <2>1, <2>2, <2>4 DEF c
<1>2. CASE m.ret = "long_castles" BY <1>2 DEF Reported, Placed
<1>3. CASE m.ret = "short_castles" BY <1>3 DEF Reported, Placed
<1>4. CASE m.ret = "valid" BY <1>4 DEF Reported, Placed
<1> QED BY <1>1, <1>2, <1>3, <1>4

\* A castling leaves the king where he went.
LEMMA RookMoves ==
    ASSUME NEW b \in Boards, NEW s \in Squares, NEW t \in Squares, NEW x \in Squares, NEW y \in Squares,
           s # t, x # s, x # t, y # s, y # t
    PROVE  LET after == MOVE(MOVE(b, s, t), x, y) IN after[s] = EMPTY_SQUARE /\ after[t] = b[s]
<1>0. MOVE(b, s, t) \in Boards /\ \A u \in Squares :
         MOVE(b, s, t)[u] = IF u = t THEN b[s] ELSE IF u = s THEN EMPTY_SQUARE ELSE b[u]
    BY MoveMakesBoard
<1>1. MOVE(b, s, t) \in Boards /\ MOVE(b, s, t)[s] = EMPTY_SQUARE /\ MOVE(b, s, t)[t] = b[s]
    BY <1>0
<1> DEFINE made == MOVE(b, s, t)
<1> HIDE DEF made
<1>2. \A u \in Squares : u # x /\ u # y => MOVE(made, x, y)[u] = made[u] BY <1>1, MoveMakesBoard DEF made
<1> QED BY <1>1, <1>2 DEF made

\* The two squares of an accepted move: only en passant may end on a piece like the one that moves,
\* and apart from that square it only clears squares.
Moved(b, after, s, t) ==
    /\ s # t /\ after[s] = EMPTY_SQUARE /\ after[t] = b[s]
    /\ b[t] # b[s] \/ \A u \in Squares : u # t => after[u] \in {b[u], EMPTY_SQUARE}

LEMMA PlacedEnds ==
    ASSUME NEW b \in Boards, NEW c \in SUBSET Rights, NEW lm0 \in LmValues, NEW white \in BOOLEAN,
           NEW s \in Squares, NEW t \in Squares, is_players_piece(white, b[s]),
           move(b, c, lm0, s, t).ret # "invalid", move(b, c, lm0, s, t).ret \in MoveRets,
           ~LeavesBoard(move(b, c, lm0, s, t), t)
    PROVE  Moved(b, Placed(move(b, c, lm0, s, t), MOVE(b, s, t), s, t), s, t)
<1> DEFINE m == move(b, c, lm0, s, t)  made == MOVE(b, s, t)  after == Placed(m, made, s, t)
<1>1. b[s] # EMPTY_SQUARE BY DEF is_players_piece
<1>2. s # t BY <1>1, SpecialIs
<1>3. made \in Boards /\ \A u \in Squares : made[u] = IF u = t THEN b[s] ELSE IF u = s THEN EMPTY_SQUARE ELSE b[u]
    BY MoveMakesBoard
<1>4. ASSUME m.ret = "valid"
      PROVE  /\ after[s] = EMPTY_SQUARE /\ after[t] = b[s]
             /\ b[t] # b[s] \/ \A u \in Squares : u # t => after[u] \in {b[u], EMPTY_SQUARE}
  <2>1. Plain(b, white, s, t) BY <1>4, PlainIs
  <2>2. b[t] # b[s] BY <2>1 DEF Plain
  <2>3. after = made BY <1>4 DEF Placed
  <2> QED BY <1>2, <1>3, <2>2, <2>3
<1>5. ASSUME m.ret = "long_castles"
      PROVE  /\ after[s] = EMPTY_SQUARE /\ after[t] = b[s]
             /\ b[t] # b[s] \/ \A u \in Squares : u # t => after[u] \in {b[u], EMPTY_SQUARE}
  <2>1. s \in {4, 60} /\ t = s - 2 /\ b[t] = EMPTY_SQUARE BY <1>1, <1>5, SpecialIs DEF CastlesLong
  <2>2. after = MOVE(made, s - 4, s - 1) BY <1>5 DEF Placed
  <2>3. s - 4 \in Squares /\ s - 1 \in Squares BY <2>1, RookSquares
  <2>4. s - 4 # s /\ s - 4 # t /\ s - 1 # s /\ s - 1 # t BY <2>1
  <2>5. MOVE(made, s - 4, s - 1)[s] = EMPTY_SQUARE /\ MOVE(made, s - 4, s - 1)[t] = b[s]
      BY <1>2, <2>3, <2>4, RookMoves
  <2> QED BY <1>1, <1>2, <2>1, <2>2, <2>5
<1>6. ASSUME m.ret = "short_castles"
      PROVE  /\ after[s] = EMPTY_SQUARE /\ after[t] = b[s]
             /\ b[t] # b[s] \/ \A u \in Squares : u # t => after[u] \in {b[u], EMPTY_SQUARE}
  <2>1. s \in {4, 60} /\ t = s + 2 /\ b[t] = EMPTY_SQUARE BY <1>1, <1>6, SpecialIs DEF CastlesShort
  <2>2. after = MOVE(made, s + 3, s + 1) BY <1>6 DEF Placed
  <2>3. s + 3 \in Squares /\ s + 1 \in Squares BY <2>1, RookSquares
  <2>4. s + 3 # s /\ s + 3 # t /\ s + 1 # s /\ s + 1 # t BY <2>1
  <2>5. MOVE(made, s + 3, s + 1)[s] = EMPTY_SQUARE /\ MOVE(made, s + 3, s + 1)[t] = b[s]
      BY <1>2, <2>3, <2>4, RookMoves
  <2> QED BY <1>1, <1>2, <2>1, <2>2, <2>5
<1>7. ASSUME m.ret = "en_passant"
      PROVE  /\ after[s] = EMPTY_SQUARE /\ after[t] = b[s]
             /\ b[t] # b[s] \/ \A u \in Squares : u # t => after[u] \in {b[u], EMPTY_SQUARE}
  <2>1. after = [made EXCEPT ![Captured(t)] = EMPTY_SQUARE] BY <1>7 DEF Placed
  <2>2. Captured(t) \in Squares BY <1>7, CapturedType DEF LeavesBoard
  <2>3. Captured(t) # t BY DEF Captured, Squares
  <2> HIDE DEF made
  <2>4. \A u \in Squares : after[u] = IF u = Captured(t) THEN EMPTY_SQUARE ELSE made[u]
      BY <1>3, <2>1, <2>2 DEF Boards
  <2>5. after[s] = EMPTY_SQUARE /\ after[t] = b[s] BY <1>2, <1>3, <2>3, <2>4
  <2>6. \A u \in Squares : u # t => after[u] \in {b[u], EMPTY_SQUARE} BY <1>3, <2>4
  <2> QED BY <1>2, <2>5, <2>6
<1> HIDE DEF after, m
<1>8. Moved(b, after, s, t) BY <1>2, <1>4, <1>5, <1>6, <1>7 DEF MoveRets, Moved, m
<1> QED BY <1>8 DEF after, m, made

\* A board changed by a move is changed by no other.
LEMMA OneMove ==
    ASSUME NEW b \in Boards, NEW from \in Squares, NEW to \in Squares, from # to, b[from] # EMPTY_SQUARE,
           NEW after, after[from] = EMPTY_SQUARE, after[to] = b[from],
           b[to] # b[from] \/ \A u \in Squares : u # to => after[u] \in {b[u], EMPTY_SQUARE},
           NEW s \in Squares, NEW t \in Squares,
           \A u \in Squares : after[u] = IF u = t THEN b[s] ELSE IF u = s THEN EMPTY_SQUARE ELSE b[u],
           after[s] # b[s], after[t] # b[t]
    PROVE  s = from /\ t = to
<1>1. s # t OBVIOUS
<1>2. after[s] = EMPTY_SQUARE /\ after[t] = b[s] /\ after[t] # EMPTY_SQUARE BY <1>1
<1>3. from = s BY <1>2
<1>4. to = t BY <1>2, <1>3
<1> QED BY <1>3, <1>4

\* A mate by a move that changes the board as a plain move does was one.
LEMMA MateIsReported ==
    ASSUME ChessInv, NEW from \in PiecesOf(board, white_to_move), NEW to \in Squares, Accepted(from, to)
    PROVE  LET made  == MOVE(board, from, to)
               after == Placed(move(board, castles, lm, from, to), made, from, to)
           IN  \A s, t \in Squares :
                  after = MOVE(board, s, t) /\ after[s] # board[s] /\ after[t] # board[t] => after = made
<1> DEFINE m == move(board, castles, lm, from, to)  made == MOVE(board, from, to)
           after == Placed(m, made, from, to)
<1>1. /\ board \in Boards /\ castles \in SUBSET Rights /\ lm \in LmValues /\ white_to_move \in BOOLEAN
      /\ from \in Squares /\ board[from] # EMPTY_SQUARE /\ is_players_piece(white_to_move, board[from])
    BY DEF ChessInv, TypeOK, Boards, LmValues, PiecesOf, is_players_piece
<1>2. m.ret \in MoveRets /\ m.ret # "invalid" /\ ~LeavesBoard(m, to)
  <2>1. TypeOK BY DEF ChessInv
  <2>2. m.ret # "invalid" BY DEF Accepted
  <2>3. m \in Verdicts /\ ~LeavesBoard(m, to) BY <2>1, AcceptIs DEF Accepted
  <2> HIDE DEF m
  <2> QED BY <2>2, <2>3 DEF Verdicts
<1>3. /\ from # to /\ after[from] = EMPTY_SQUARE /\ after[to] = board[from]
      /\ board[to] # board[from] \/ \A u \in Squares : u # to => after[u] \in {board[u], EMPTY_SQUARE}
  <2>1. Moved(board, after, from, to) BY <1>1, <1>2, PlacedEnds
  <2> QED BY <2>1 DEF Moved
<1>4. \A s, t, u \in Squares : MOVE(board, s, t)[u] = IF u = t THEN board[s] ELSE IF u = s THEN EMPTY_SQUARE ELSE board[u]
    BY <1>1, MoveMakesBoard
<1>5. ASSUME NEW s \in Squares, NEW t \in Squares,
             after = MOVE(board, s, t), after[s] # board[s], after[t] # board[t]
      PROVE  after = made
  <2> HIDE DEF m, made, after
  <2>1. \A u \in Squares : after[u] = IF u = t THEN board[s] ELSE IF u = s THEN EMPTY_SQUARE ELSE board[u]
      BY <1>4, <1>5
  <2>2. s = from /\ t = to BY <1>1, <1>3, <1>5, <2>1, OneMove
  <2> QED BY <1>5, <2>2 DEF made
<1> QED BY <1>5

\* However many of its packets p_movepc has sent, a client who has had the board and can still be
\* reached has the new one, unless the other could not be reached and what was left to send
\* concerned him.  For en passant that needs that it gives no check, since the square told is then the
\* one move_piece has cleared, and that this was not the square the pawn came from; for a mate, that
\* it is the plain move it is told as.
THEOREM ClientsSeeBoardCorrect == Spec => ClientsSeeBoard
<1>1. ASSUME ChessInv, [Next]_vars
      PROVE  [\A c \in BOOLEAN :
                 /\ seen[c] = board /\ Reached(c)' /\ BothKings(board')
                 /\ MateIsTold /\ PawnIsTold /\ RestIsTold(c)
                 => seen'[c] = board']_vars
  <2>1. TypeOK BY <1>1 DEF ChessInv
  <2> SUFFICES ASSUME NEW c \in BOOLEAN, seen[c] = board, Reached(c)', BothKings(board'),
                      MateIsTold, PawnIsTold, RestIsTold(c)
               PROVE  seen'[c] = board'
      OBVIOUS
  <2>2. CASE Refused
    <3>1. board' = board BY <2>2 DEF Refused
    <3>2. seen \in [BOOLEAN -> [Squares -> Pieces] \cup {NoBoard}] BY <2>1 DEF TypeOK
    <3>3. CASE seen' = seen BY <3>1, <3>3
    <3>4. ASSUME NEW d \in BOOLEAN, seen' = [seen EXCEPT ![d] = board] PROVE seen'[c] = board'
        BY <3>1, <3>2, <3>4
    <3> QED BY <2>2, <3>3, <3>4 DEF Refused
  <2>3. CASE Kingless BY <2>3 DEF Kingless
  <2>4. ASSUME NEW from \in PiecesOf(board, white_to_move), NEW to \in Squares, Accepted(from, to)
        PROVE  seen'[c] = board'
    <3> DEFINE m == move(board, castles, lm, from, to)  made == MOVE(board, from, to)
               after == Placed(m, made, from, to)
    <3>1. /\ board \in Boards /\ castles \in SUBSET Rights /\ lm \in LmValues /\ white_to_move \in BOOLEAN
          /\ from \in Squares /\ board[from] # EMPTY_SQUARE
        BY <2>1 DEF TypeOK, Boards, LmValues, PiecesOf, is_players_piece
    <3>2. /\ board' = after /\ Sent(ret', from, to)
          /\ m.ret # "invalid" /\ ~LeavesBoard(m, to) /\ m \in Verdicts
          /\ \/ ret' = "checkmate"
             \/ /\ ret' = m.ret /\ white_to_move' = ~white_to_move
                /\ is_in_check(after, m.castles, LastMove(m, to), ~white_to_move,
                               KingOf(made, ~white_to_move)).ret = "invalid"
                      => lm' = LastMove(m, to)
        BY <2>1, <2>4, AcceptIs DEF Accepted
    <3>3. m.ret \in MoveRets BY <3>2 DEF Verdicts
    <3>4. /\ m.ret = "long_castles" => to = from - 2 /\ from \in {4, 60}
          /\ m.ret = "short_castles" => to = from + 2 /\ from \in {4, 60}
        BY <3>1, SpecialIs DEF CastlesLong, CastlesShort
    <3>5. seen'[c] = Reported(ret', board, lm', from, to)
      <4>1. ret' \in Castled => from \in {4, 60} BY <3>2, <3>4 DEF Castled
      <4> HIDE DEF m, made, after
      <4>2. /\ c = ~white_to_move => Reached(~c)'
            /\ c = white_to_move /\ ret' = "en_passant" => Reached(~c)'
          BY DEF RestIsTold
      <4> QED BY <2>1, <3>1, <3>2, <4>1, <4>2, SentTells
    <3>6. CASE ret' = "checkmate"
      <4>1. PICK s \in Squares, t \in Squares :
               board' = MOVE(board, s, t) /\ board'[s] # board[s] /\ board'[t] # board[t]
          BY <3>6 DEF MateIsTold
      <4>2. after = made BY <1>1, <2>4, <3>2, <4>1, MateIsReported
      <4>3. Reported(ret', board, lm', from, to) = made BY <3>6 DEF Reported
      <4> QED BY <3>2, <3>5, <4>2, <4>3
    <3>7. CASE ret' = m.ret /\ ret' # "checkmate"
      <4>1. m.ret = "en_passant" => lm' = Captured(to)
        <5> SUFFICES ASSUME m.ret = "en_passant" PROVE lm' = Captured(to) OBVIOUS
        <5>1. BothKings(after) /\ ~InCheck(after, ~white_to_move) BY <3>2, <3>7 DEF PawnIsTold
        <5>2. is_in_check(after, m.castles, LastMove(m, to), ~white_to_move,
                          KingOf(made, ~white_to_move)).ret = "invalid"
            BY <1>1, <2>4, <5>1, ToldSquare
        <5> QED BY <3>2, <3>7, <5>2 DEF LastMove
      <4>2. m.ret = "en_passant" => Captured(to) \in Squares /\ Captured(to) # from
          BY <3>2, <3>7, <4>1, CapturedType DEF LeavesBoard, PawnIsTold
      <4>3. Reported(m.ret, board, Captured(to), from, to) = after
        <5>1. m.ret \in {"valid", "long_castles", "short_castles", "en_passant"} BY <3>2, <3>3 DEF MoveRets
        <5> HIDE DEF m
        <5> QED BY <3>1, <3>4, <4>2, <5>1, ReportedIs
      <4>4. Reported(m.ret, board, lm', from, to) = Reported(m.ret, board, Captured(to), from, to)
        <5> HIDE DEF m
        <5> QED BY <4>1 DEF Reported
      <4> QED BY <3>2, <3>5, <3>7, <4>3, <4>4
    <3> QED BY <3>2, <3>6, <3>7
  <2> QED BY <1>1, <2>1, <2>2, <2>3, <2>4, StepIs
<1> QED BY <1>1, ChessInvariant, PTL DEF Spec, ClientsSeeBoard

---------------------------------------------------------------------------
\* The search for a mate against the rules.

\* The search for a check leaves lm alone, or sets it as the first attacker's handler does.
LEMMA CheckLm ==
    ASSUME NEW b \in Boards, NEW c \in SUBSET Rights, NEW lm0 \in LmValues, NEW white \in BOOLEAN,
           NEW k \in Squares
    PROVE  LET l == is_in_check(b, c, lm0, white, k).lm
           IN  \/ l \in {lm0, NoSquare}
               \/ \E s \in Squares : LET w == IS_WHITE(b[s])
                                     IN  /\ b[s] # EMPTY_SQUARE /\ b[k] = EMPTY_SQUARE /\ IsDoubleStep(w, s, k)
                                         /\ l = Passed(w, s) /\ b[Passed(w, s)] = EMPTY_SQUARE
<1> DEFINE attackers == {s \in PiecesOf(b, ~white) : move(b, c, lm0, s, k).ret # "invalid"}
           first == CHOOSE r \in {move(b, c, lm0, s, k).lm : s \in Least(attackers)} : TRUE
           chk == is_in_check(b, c, lm0, white, k)
<1>1. \A s \in PiecesOf(b, ~white) : s \in Squares /\ b[s] # EMPTY_SQUARE
    BY DEF PiecesOf, is_players_piece
<1>2. attackers \in SUBSET Squares BY <1>1
<1>3. CASE attackers = {}
  <2>1. chk = Judged(FALSE, c, lm0) BY <1>3 DEF is_in_check
  <2> QED BY <2>1 DEF Judged, Verdict
<1>4. CASE attackers # {}
  <2>1. \E j \in attackers : Least(attackers) = {j}
    <3> HIDE DEF attackers
    <3> QED BY <1>2, <1>4, LeastIs
  <2>2. PICK j \in attackers : first = move(b, c, lm0, j, k).lm
    <3> HIDE DEF attackers
    <3> QED BY <2>1
  <2>3. chk = Judged(TRUE, c, first) BY <1>4 DEF is_in_check
  <2>4. chk.lm = first
    <3> HIDE DEF first, chk
    <3> QED BY <2>3 DEF Judged, Verdict
  <2>5. j \in Squares /\ b[j] # EMPTY_SQUARE BY <1>1
  <2>6. LET m == move(b, c, lm0, j, k)  w == IS_WHITE(b[j])
        IN  \/ m.lm = lm0
            \/ m.lm = NoSquare
            \/ /\ IsDoubleStep(w, j, k)
               /\ m.lm = Passed(w, j) /\ b[Passed(w, j)] = EMPTY_SQUARE /\ b[k] = EMPTY_SQUARE
      BY <2>5, LmIs
  <2> HIDE DEF first, chk, attackers
  <2> QED BY <2>2, <2>4, <2>5, <2>6 DEF chk
<1> QED BY <1>3, <1>4

KingOff(b, white, l) == \A j \in Squares : b[j] = KING(white) => j # l

\* A set of squares that lm does not leave while moves of the board b are tried.
Closed(b, L) ==
    /\ L \subseteq LmValues /\ NoSquare \in L
    /\ \A s, t \in Squares : LET w == IS_WHITE(b[s])
                             IN  b[s] # EMPTY_SQUARE /\ IsDoubleStep(w, s, t) /\ b[Passed(w, s)] = EMPTY_SQUARE
                                    => Passed(w, s) \in L

Searched(b, white, L) ==
    {acc \in Left(b, white) :
        /\ acc.found = "none" => acc.lm \in L
        /\ acc.found = "escape" => acc.lm \in Squares \/ CanEscape(b, white)}

\* The move does not help, unless it is the king's, to a square that lm may be.
Tried(b, white, L, s, t) == Helps(b, white, s, t) => b[s] = KING(white) /\ t \in L

TryFound(b, white, L, next, s, t) ==
    /\ next \in Searched(b, white, L)
    /\ next.found = "none" /\ (\A l \in L : KingOff(b, white, l)) => Tried(b, white, L, s, t)

LEMMA TrySearches ==
    ASSUME NEW b \in Boards, OneKing(b), NEW white \in BOOLEAN, NEW L, Closed(b, L),
           NEW acc \in Searched(b, white, L), acc.found = "none",
           NEW s \in Squares, NEW t \in Squares, is_players_piece(white, b[s])
    PROVE  TryFound(b, white, L, Try(acc, white, s, t), s, t)
<1> DEFINE r    == move(acc.board, acc.castles, acc.lm, s, t)
           made == MOVE(acc.board, s, t)
           king == get_king_sq(made, white)
           k    == KingOf(made, white)
           chk  == is_in_check(made, r.castles, r.lm, white, k)
           next == Try(acc, white, s, t)
<1>1. acc \in Left(b, white) /\ acc \in Accs /\ acc.board = b /\ acc.lm \in L BY DEF Left, Searched
<1>2. acc.board \in Boards /\ acc.castles \in SUBSET Rights /\ acc.lm \in LmValues BY <1>1 DEF Accs
<1>3. b[s] # EMPTY_SQUARE BY DEF is_players_piece
<1>4. r \in Verdicts BY <1>1, <1>2, <1>3, MoveType
<1>5. r.castles \in SUBSET Rights /\ r.lm \in LmValues
  <2> HIDE DEF r
  <2> QED BY <1>4 DEF Verdicts
<1>6. made \in Boards /\ OneKing(made)
      /\ \A u \in Squares : made[u] = IF u = t THEN b[s] ELSE IF u = s THEN EMPTY_SQUARE ELSE b[u]
    BY <1>1, <1>2, MoveMakesBoard, MoveKeepsKings
<1>7. next = IF r.ret \notin {"valid", "en_passant"} THEN [acc EXCEPT !.castles = r.castles]
             ELSE IF king = {}
             THEN [found |-> "no_king", board |-> made, castles |-> r.castles, lm |-> r.lm]
             ELSE [acc EXCEPT !.castles = r.castles, !.lm = chk.lm,
                              !.found = IF chk.ret = "invalid" THEN "escape" ELSE "none"]
    BY DEF Try, KingOf
<1>8. next \in Left(b, white) BY <1>1, TryLeaves
<1>9. r.ret = "valid" <=> Plain(b, white, s, t) /\ (b[s] \in {"P", "p"} => t # acc.lm) BY <1>1, PlainIs
<1>10. Plain(b, white, s, t) => r.ret \in {"valid", "en_passant"}
  <2>1. Plain(b, white, s, t) => s # t BY DEF Plain
  <2>2. s # t /\ b[s] \in {"P", "p"} /\ t = acc.lm => r.ret = "en_passant" BY <1>1, PawnIs
  <2> HIDE DEF r
  <2> QED BY <1>9, <2>1, <2>2
<1>11. r.ret = "en_passant" => r.lm = t BY <1>1, <1>2, <1>3, SpecialIs
<1>12. r.lm \in L
  <2> DEFINE w == IS_WHITE(b[s])
  <2>1. \/ r.lm = acc.lm
        \/ r.lm = NoSquare
        \/ IsDoubleStep(w, s, t) /\ r.lm = Passed(w, s) /\ b[Passed(w, s)] = EMPTY_SQUARE
      BY <1>1, <1>2, <1>3, LmIs
  <2> HIDE DEF r
  <2> QED BY <1>1, <1>3, <2>1 DEF Closed
<1> HIDE DEF next, chk, r, made, king, k
<1>13. CASE r.ret \notin {"valid", "en_passant"}
  <2>1. next = [acc EXCEPT !.castles = r.castles] BY <1>7, <1>13
  <2>2. next.lm = acc.lm /\ next.found = "none" BY <1>1, <2>1 DEF Accs
  <2>3. ~Helps(b, white, s, t) BY <1>10, <1>13 DEF Helps
  <2> QED BY <1>1, <1>8, <2>2, <2>3 DEF TryFound, Searched, Tried, next
<1>14. CASE r.ret \in {"valid", "en_passant"} /\ king = {}
  <2>1. next = [found |-> "no_king", board |-> made, castles |-> r.castles, lm |-> r.lm] BY <1>7, <1>14
  <2>2. next.found = "no_king" BY <2>1
  <2> QED BY <1>8, <2>2 DEF TryFound, Searched, next
<1>15. CASE r.ret \in {"valid", "en_passant"} /\ king # {}
  <2>1. next = [acc EXCEPT !.castles = r.castles, !.lm = chk.lm,
                           !.found = IF chk.ret = "invalid" THEN "escape" ELSE "none"]
      BY <1>7, <1>15
  <2>2. next.lm = chk.lm /\ next.found = IF chk.ret = "invalid" THEN "escape" ELSE "none"
      BY <1>1, <2>1 DEF Accs
  <2>3. k \in Squares /\ made[k] = KING(white)
    <3>1. \E j \in Squares : made[j] = KING(white) BY <1>15, KingMissing DEF king
    <3> QED BY <3>1, KingSquare DEF k
  <2>4. CheckLeft(made, r.castles, r.lm, white, k) /\ ChecksAre(made, r.castles, r.lm, white, k)
      BY <1>5, <1>6, <2>3, CheckIs, CheckMeans
  <2>5. \A j \in Squares : made[j] = KING(white) => j = k BY <1>6, <2>3 DEF OneKing
  <2>6. InCheck(made, white) <=> ~Unattacked(made, white, k) BY <2>3, <2>5 DEF InCheck, Unattacked
  <2>7. Helps(b, white, s, t) <=> Plain(b, white, s, t) /\ ~InCheck(made, white)
      BY <1>1 DEF Helps, made
  <2>8. CASE chk.ret = "invalid"
    <3>1. chk.lm = r.lm /\ Unattacked(made, white, k) BY <2>4, <2>8 DEF CheckLeft, ChecksAre, chk
    <3>2. r.ret = "valid" => Helps(b, white, s, t) BY <1>9, <2>6, <2>7, <3>1
    <3>3. s \in PiecesOf(b, white) BY DEF PiecesOf
    <3>4. chk.lm \in Squares \/ CanEscape(b, white) BY <1>11, <1>15, <3>1, <3>2, <3>3 DEF CanEscape
    <3>5. next.found = "escape" /\ next.lm = chk.lm BY <2>2, <2>8
    <3> QED BY <1>8, <3>4, <3>5 DEF TryFound, Searched, next
  <2>9. CASE chk.ret # "invalid"
    <3>1. chk.lm \in L
      <4>1. made[k] # EMPTY_SQUARE BY <2>3, KingIsPiece
      <4>2. chk.lm \in {r.lm, NoSquare} BY <1>5, <1>6, <2>3, <4>1, CheckLm DEF chk
      <4> QED BY <1>12, <4>2 DEF Closed
    <3>2. ASSUME \A l \in L : KingOff(b, white, l), Helps(b, white, s, t)
          PROVE  b[s] = KING(white) /\ t \in L
      <4>1. Unattacked(made, white, k) BY <2>6, <2>7, <3>2
      <4>2. k = r.lm BY <2>4, <2>9, <4>1 DEF ChecksAre, chk
      <4>3. CASE b[s] = KING(white)
        <5>1. made[t] = KING(white) BY <1>6, <4>3
        <5>2. t = k BY <2>5, <5>1
        <5> QED BY <1>12, <4>2, <4>3, <5>2
      <4>4. CASE b[s] # KING(white)
        <5>1. KING(white) # EMPTY_SQUARE BY KingIsPiece
        <5>2. b[k] = KING(white) BY <1>6, <2>3, <4>4, <5>1
        <5> QED BY <1>12, <2>3, <3>2, <4>2, <5>2 DEF KingOff
      <4> QED BY <4>3, <4>4
    <3>3. next.found = "none" /\ next.lm = chk.lm BY <2>2, <2>9
    <3> QED BY <1>8, <3>1, <3>2, <3>3 DEF TryFound, Searched, Tried, next
  <2> QED BY <2>8, <2>9
<1> QED BY <1>13, <1>14, <1>15 DEF next

\* What a search that goes on after the tries with the piece on s says of it.
LEMMA TriesToRankSearches ==
    ASSUME NEW b \in Boards, OneKing(b), NEW white \in BOOLEAN, NEW L, Closed(b, L),
           \A l \in L : KingOff(b, white, l),
           NEW acc \in Searched(b, white, L),
           NEW s \in Squares, is_players_piece(white, b[s]), NEW rank \in Places,
           TriesToRank(acc, white, s, rank).found = "none"
    PROVE  \A i \in Places : Tried(b, white, L, s, SQUARE_TO_INT(rank, i))
<1> DEFINE S == Searched(b, white, L)
<1>1. \A a \in S, t \in Squares : a.found = "none" => TryFound(b, white, L, Try(a, white, s, t), s, t)
    BY TrySearches
<1>2. \A a \in S, t \in Squares : a.found = "none" => Try(a, white, s, t) \in S BY <1>1 DEF TryFound
<1>3. acc \in S OBVIOUS
<1> HIDE DEF S
<1>4. \A a \in S, i \in Places : a.found = "none" => Try(a, white, s, SQUARE_TO_INT(rank, i)) \in S
    BY <1>2, SquareIs
<1>5. PICK f, g : /\ Run(f, g, S, acc, TriesToRank(acc, white, s, rank))
                  /\ \A i \in Places : g[i] = Try(f[i], white, s, SQUARE_TO_INT(rank, i))
    BY <1>3, <1>4, TriesToRankRuns
<1>6. \A i \in Places : f[i] \in S /\ f[i].found = "none" /\ g[i].found = "none"
  <2>1. TriesToRank(acc, white, s, rank).found = "none" OBVIOUS
  <2> QED BY ONLY <1>5, <2>1, RunPasses
<1> SUFFICES ASSUME NEW i \in Places PROVE Tried(b, white, L, s, SQUARE_TO_INT(rank, i)) OBVIOUS
<1>7. SQUARE_TO_INT(rank, i) \in Squares BY SquareIs
<1>8. TryFound(b, white, L, g[i], s, SQUARE_TO_INT(rank, i)) BY <1>1, <1>5, <1>6, <1>7
<1> QED BY <1>6, <1>8 DEF TryFound

LEMMA SearchStays ==
    ASSUME NEW b \in Boards, OneKing(b), NEW white \in BOOLEAN, NEW L, Closed(b, L)
    PROVE  Stays(Searched(b, white, L), b, white)
<1> DEFINE S == Searched(b, white, L)
<1>1. \A a \in S : a.found = "none" => a.board = b BY DEF Searched, Left
<1>2. \A a \in S, s \in Squares, t \in Squares :
         a.found = "none" /\ is_players_piece(white, b[s]) => Try(a, white, s, t) \in S
    BY TrySearches DEF TryFound
<1> HIDE DEF S
<1> QED BY <1>1, <1>2 DEF Stays, S

LEMMA TriesFromSearches ==
    ASSUME NEW b \in Boards, OneKing(b), NEW white \in BOOLEAN, NEW L, Closed(b, L),
           \A l \in L : KingOff(b, white, l),
           NEW acc \in Searched(b, white, L),
           NEW s \in Squares, is_players_piece(white, b[s]),
           TriesFrom(acc, white, s).found = "none"
    PROVE  \A t \in Squares : Tried(b, white, L, s, t)
<1> DEFINE S == Searched(b, white, L)
<1>1. \A a \in S, rank \in Places : TriesToRank(a, white, s, rank).found = "none"
         => \A i \in Places : Tried(b, white, L, s, SQUARE_TO_INT(rank, i))
    BY TriesToRankSearches
<1>2. acc \in S OBVIOUS
<1>3. Stays(S, b, white) BY SearchStays
<1> HIDE DEF S
<1>4. \A a \in S, i \in Places : a.found = "none" => TriesToRank(a, white, s, i) \in S BY <1>3, LoopsStay
<1>5. PICK f, g : /\ Run(f, g, S, acc, TriesFrom(acc, white, s))
                  /\ \A i \in Places : g[i] = TriesToRank(f[i], white, s, i)
    BY <1>2, <1>4, TriesFromRuns
<1>6. \A i \in Places : f[i] \in S /\ f[i].found = "none" /\ g[i].found = "none"
  <2>1. TriesFrom(acc, white, s).found = "none" OBVIOUS
  <2> QED BY ONLY <1>5, <2>1, RunPasses
<1>7. \A rank \in Places, i \in Places : Tried(b, white, L, s, SQUARE_TO_INT(rank, i)) BY <1>1, <1>5, <1>6
<1> QED BY <1>7, SquareHas

LEMMA TriesOnRankSearches ==
    ASSUME NEW b \in Boards, OneKing(b), NEW white \in BOOLEAN, NEW L, Closed(b, L),
           \A l \in L : KingOff(b, white, l),
           NEW acc \in Searched(b, white, L), NEW rank \in Places,
           TriesOnRank(acc, white, rank).found = "none",
           NEW file \in Places, is_players_piece(white, b[SQUARE_TO_INT(rank, file)])
    PROVE  \A t \in Squares : Tried(b, white, L, SQUARE_TO_INT(rank, file), t)
<1> DEFINE S == Searched(b, white, L)  s == SQUARE_TO_INT(rank, file)
<1>0. s \in Squares BY SquareIs
<1>1. \A a \in S : TriesFrom(a, white, s).found = "none" => \A t \in Squares : Tried(b, white, L, s, t)
    BY <1>0, TriesFromSearches
<1>2. acc \in S OBVIOUS
<1>3. Stays(S, b, white) BY SearchStays
<1> HIDE DEF S
<1>4. \A a \in S, i \in Places : a.found = "none" => TriesAt(a, white, SQUARE_TO_INT(rank, i)) \in S
    BY <1>3, LoopsStay, SquareIs
<1>5. PICK f, g : /\ Run(f, g, S, acc, TriesOnRank(acc, white, rank))
                  /\ \A i \in Places : g[i] = TriesAt(f[i], white, SQUARE_TO_INT(rank, i))
    BY <1>2, <1>4, TriesOnRankRuns
<1>6. \A i \in Places : f[i] \in S /\ f[i].found = "none" /\ g[i].found = "none"
  <2>1. TriesOnRank(acc, white, rank).found = "none" OBVIOUS
  <2> QED BY ONLY <1>5, <2>1, RunPasses
<1>7. f[file].board = b BY <1>3, <1>6 DEF Stays
<1>8. g[file] = TriesFrom(f[file], white, s) BY <1>5, <1>7 DEF TriesAt
<1> QED BY <1>1, <1>6, <1>8

LEMMA TriesSearches ==
    ASSUME NEW b \in Boards, OneKing(b), NEW white \in BOOLEAN, NEW L, Closed(b, L),
           NEW acc \in Searched(b, white, L)
    PROVE  /\ Tries(acc, white) \in Searched(b, white, L)
           /\ Tries(acc, white).found = "none" /\ (\A l \in L : KingOff(b, white, l))
                 => \A s \in PiecesOf(b, white), t \in Squares : Tried(b, white, L, s, t)
<1> DEFINE S == Searched(b, white, L)
<1>1. ASSUME \A l \in L : KingOff(b, white, l)
      PROVE  \A a \in S, rank \in Places, file \in Places :
                /\ TriesOnRank(a, white, rank).found = "none"
                /\ is_players_piece(white, b[SQUARE_TO_INT(rank, file)])
                => \A t \in Squares : Tried(b, white, L, SQUARE_TO_INT(rank, file), t)
    BY <1>1, TriesOnRankSearches
<1>2. acc \in S OBVIOUS
<1>3. Stays(S, b, white) BY SearchStays
<1> HIDE DEF S
<1>4. \A a \in S, i \in Places : a.found = "none" => TriesOnRank(a, white, i) \in S BY <1>3, LoopsStay
<1>5. PICK f, g : /\ Run(f, g, S, acc, Tries(acc, white))
                  /\ \A i \in Places : g[i] = TriesOnRank(f[i], white, i)
    BY <1>2, <1>4, TriesRuns
<1>6. Tries(acc, white) \in S BY ONLY <1>5, RunPasses
<1>7. ASSUME Tries(acc, white).found = "none", \A l \in L : KingOff(b, white, l),
             NEW s \in PiecesOf(b, white), NEW t \in Squares
      PROVE  Tried(b, white, L, s, t)
  <2>1. \A i \in Places : f[i] \in S /\ f[i].found = "none" /\ g[i].found = "none" BY ONLY <1>5, <1>7, RunPasses
  <2>2. s \in Squares /\ is_players_piece(white, b[s]) BY DEF PiecesOf
  <2>3. PICK rank \in Places, file \in Places : s = SQUARE_TO_INT(rank, file) BY <2>2, SquareHas
  <2>4. TriesOnRank(f[rank], white, rank).found = "none" /\ f[rank] \in S BY <1>5, <2>1
  <2> QED BY <1>1, <1>7, <2>2, <2>3, <2>4
<1> QED BY <1>6, <1>7 DEF S

\* What the search for a mate answers, by the rules: whoever is not mated has a move that
\* helps, or lm holds a square that en passant has gone to; whoever is has none but the king's.
MateIs(b, c, lm0, white, k, L) ==
    LET r == is_mate(b, c, lm0, white, k)
    IN  /\ ~r.mate /\ is_in_check(b, c, lm0, white, k).ret = "valid"
              => r.lm \in Squares \/ CanEscape(b, white)
        /\ r.mate /\ (\E j \in Squares : r.board[j] = KING(white)) /\ (\A l \in L : KingOff(b, white, l))
              => \A s \in PiecesOf(b, white), t \in Squares : Tried(b, white, L, s, t)

LEMMA MateSearches ==
    ASSUME NEW b \in Boards, OneKing(b), NEW c \in SUBSET Rights, NEW lm0 \in LmValues,
           NEW white \in BOOLEAN, NEW k \in Squares, NEW L, Closed(b, L),
           is_in_check(b, c, lm0, white, k).lm \in L
    PROVE  MateIs(b, c, lm0, white, k, L)
<1> DEFINE chk  == is_in_check(b, c, lm0, white, k)
           acc  == [found |-> "none", board |-> b, castles |-> c, lm |-> chk.lm]
           last == Tries(acc, white)
           r    == is_mate(b, c, lm0, white, k)
<1>1. chk.ret \in {"valid", "invalid"} /\ chk.lm \in LmValues BY CheckIs DEF CheckLeft
<1>2. r = IF chk.ret = "invalid" THEN [mate |-> FALSE, board |-> b, castles |-> c, lm |-> lm0]
          ELSE [mate |-> last.found # "escape", board |-> last.board, lm |-> last.lm,
                castles |-> IF last.found = "no_king" THEN last.castles ELSE c]
    BY DEF is_mate
<1>3. acc \in Searched(b, white, L) /\ acc.board = b
  <2> HIDE DEF chk
  <2>1. acc \in Left(b, white) BY <1>1 DEF Left, Accs
  <2>2. acc.lm = chk.lm /\ acc.found = "none" OBVIOUS
  <2> HIDE DEF acc
  <2> QED BY <2>1, <2>2 DEF Searched, chk, Left
<1> HIDE DEF acc
<1>4. /\ last \in Searched(b, white, L)
      /\ last.found = "none" /\ (\A l \in L : KingOff(b, white, l))
            => \A s \in PiecesOf(b, white), t \in Squares : Tried(b, white, L, s, t)
    BY <1>3, TriesSearches
<1> HIDE DEF r, last, chk
<1>5. last.found \in {"none", "escape", "no_king"} BY <1>4 DEF Searched, Left, Accs
<1>6. last.found = "escape" => last.lm \in Squares \/ CanEscape(b, white) BY <1>4 DEF Searched
<1>7. last.found = "no_king" => ~\E j \in Squares : last.board[j] = KING(white)
    BY <1>4, KingMissing DEF Searched, Left
<1>8. CASE chk.ret = "invalid"
  <2>1. ~r.mate BY <1>2, <1>8
  <2> QED BY <1>8, <2>1 DEF MateIs, r, chk
<1>9. CASE chk.ret = "valid"
  <2>1. r.mate = (last.found # "escape") /\ r.board = last.board /\ r.lm = last.lm BY <1>2, <1>9
  <2>2. ~r.mate => r.lm \in Squares \/ CanEscape(b, white) BY <1>6, <2>1
  <2>3. r.mate /\ (\E j \in Squares : r.board[j] = KING(white)) => last.found = "none" BY <1>5, <1>7, <2>1
  <2> QED BY <1>4, <2>2, <2>3 DEF MateIs, r
<1> QED BY <1>1, <1>8, <1>9

\* The squares that lm may be while the opponent's replies are tried, short of that of his king.
Replies(b, white) == {l \in LmValues : l = NoSquare \/ (MayBeLm(l) /\ KingOff(b, white, l))}

LEMMA RepliesClosed ==
    ASSUME TypeOK, NEW b \in Boards, NEW white \in BOOLEAN
    PROVE  Closed(b, Replies(b, white)) /\ \A l \in Replies(b, white) : KingOff(b, white, l)
<1> DEFINE L == Replies(b, white)
<1>1. L \subseteq LmValues /\ NoSquare \in L BY DEF Replies, LmValues
<1>2. ASSUME NEW s \in Squares, NEW t \in Squares, NEW w \in BOOLEAN,
             IsDoubleStep(w, s, t), b[Passed(w, s)] = EMPTY_SQUARE
      PROVE  Passed(w, s) \in L
  <2>1. Passed(w, s) \in Squares /\ Rank(Passed(w, s)) \in {2, 5}
    <3>1. Rank(s) \in 0 .. 7 /\ File(s) \in 0 .. 7 /\ s = 8 * Rank(s) + File(s) BY Coordinates
    <3>2. CASE w
      <4>1. Rank(s) = 1 /\ Passed(w, s) = 8 * 2 + File(s) BY <1>2, <3>1, <3>2 DEF IsDoubleStep, Passed
      <4> QED BY <3>1, <4>1, SquareAt
    <3>3. CASE ~w
      <4>1. Rank(s) = 6 /\ Passed(w, s) = 8 * 5 + File(s) BY <1>2, <3>1, <3>3 DEF IsDoubleStep, Passed
      <4> QED BY <3>1, <4>1, SquareAt
    <3> QED BY <3>2, <3>3
  <2>2. KING(white) # EMPTY_SQUARE BY KingIsPiece
  <2>3. KingOff(b, white, Passed(w, s)) BY <1>2, <2>2 DEF KingOff
  <2> QED BY <2>1, <2>3 DEF Replies, MayBeLm, LmValues
<1>3. \A u \in Squares : IS_WHITE(b[u]) \in BOOLEAN BY DEF IS_WHITE
<1>4. ASSUME NEW l \in L PROVE KingOff(b, white, l)
  <2>1. CASE l = NoSquare
    <3>1. \A j \in Squares : j # NoSquare BY DEF NoSquare, Squares
    <3> QED BY <2>1, <3>1 DEF KingOff
  <2>2. CASE l # NoSquare BY <2>2 DEF Replies
  <2> QED BY <2>1, <2>2
<1> HIDE DEF L
<1>5. Closed(b, L) BY <1>1, <1>2, <1>3 DEF Closed
<1> QED BY <1>4, <1>5 DEF L

\* The search for a check does not take lm out of a closed set.
LEMMA CheckKeepsLm ==
    ASSUME NEW b \in Boards, NEW c \in SUBSET Rights, NEW L, Closed(b, L), NEW lm0 \in L,
           NEW white \in BOOLEAN, NEW k \in Squares
    PROVE  is_in_check(b, c, lm0, white, k).lm \in L
<1> DEFINE l == is_in_check(b, c, lm0, white, k).lm
<1>1. lm0 \in LmValues /\ NoSquare \in L BY DEF Closed
<1>2. \/ l \in {lm0, NoSquare}
      \/ \E s \in Squares : LET w == IS_WHITE(b[s])
                            IN  /\ b[s] # EMPTY_SQUARE /\ b[k] = EMPTY_SQUARE /\ IsDoubleStep(w, s, k)
                                /\ l = Passed(w, s) /\ b[Passed(w, s)] = EMPTY_SQUARE
    BY <1>1, CheckLm
<1> HIDE DEF l
<1>3. l \in L BY <1>1, <1>2 DEF Closed
<1> QED BY <1>3 DEF l

\* The opponent's king, where it stood before the move.
LEMMA KingOfOther ==
    ASSUME ChessInv, NEW from \in PiecesOf(board, white_to_move), NEW to \in Squares, Accepted(from, to),
           NEW made, made = MOVE(board, from, to), NEW b, BothKings(b),
           \A j \in Squares : b[j] = KING(~white_to_move) => board[j] = b[j]
    PROVE  /\ KingOf(made, ~white_to_move) \in Squares
           /\ b[KingOf(made, ~white_to_move)] = KING(~white_to_move)
<1> DEFINE w == ~white_to_move  k == KingOf(made, w)
<1>1. TypeOK /\ w \in BOOLEAN BY DEF ChessInv, TypeOK
<1>2. /\ made \in Boards /\ BothKings(made) /\ OneKing(made) /\ OneKing(board)
    BY MadeIsSafe
<1>3. board \in Boards /\ from \in Squares /\ IS_WHITE(board[from]) = white_to_move /\ white_to_move \in BOOLEAN
    BY <1>1 DEF TypeOK, Boards, PiecesOf, is_players_piece
<1>4. ASSUME NEW u \in Squares
      PROVE  made[u] = IF u = to THEN board[from] ELSE IF u = from THEN EMPTY_SQUARE ELSE board[u]
  <2>1. MOVE(board, from, to)[u] = IF u = to THEN board[from] ELSE IF u = from THEN EMPTY_SQUARE ELSE board[u]
      BY ONLY <1>3, MoveMakesBoard, u \in Squares, to \in Squares
  <2> QED BY ONLY <2>1, made = MOVE(board, from, to)
<1>5. KING(w) # EMPTY_SQUARE /\ board[from] # KING(w) BY <1>1, <1>3, KingIsPiece
<1> HIDE DEF w
<1>6. k \in Squares /\ made[k] = KING(w) BY <1>1, <1>2, KingIs
<1>7. board[k] = KING(w) BY <1>4, <1>5, <1>6
<1>8. PICK j \in Squares : b[j] = KING(w) BY <1>1, KingsAre
<1>9. board[j] = KING(w) BY <1>8 DEF w
<1>10. j = k BY <1>1, <1>2, <1>6, <1>7, <1>8, <1>9 DEF OneKing
<1> QED BY <1>6, <1>8, <1>10 DEF w

\* An accepted move, after which lm is one of the replies' own.
LEMMA LastMoveIn ==
    ASSUME TypeOK, NEW from \in PiecesOf(board, white_to_move), NEW to \in Squares, Accepted(from, to),
           NEW m, NEW after, m = move(board, castles, lm, from, to),
           after = Placed(m, MOVE(board, from, to), from, to), KingOff(after, ~white_to_move, lm)
    PROVE  LastMove(m, to) \in Replies(after, ~white_to_move)
<1> DEFINE made == MOVE(board, from, to)  w == ~white_to_move
<1>1. /\ board \in Boards /\ castles \in SUBSET Rights /\ lm \in LmValues /\ w \in BOOLEAN
      /\ from \in Squares /\ board[from] # EMPTY_SQUARE
    BY DEF TypeOK, Boards, LmValues, PiecesOf, is_players_piece
<1>2. /\ made \in Boards
      /\ \A u \in Squares : made[u] = IF u = to THEN board[from] ELSE IF u = from THEN EMPTY_SQUARE ELSE board[u]
    BY <1>1, MoveMakesBoard
<1>3. LastMove(m, to) \in LmValues /\ ~LeavesBoard(m, to) BY AcceptIs DEF Accepted
<1>4. KING(w) # EMPTY_SQUARE BY <1>1, KingIsPiece
<1>5. m.ret = "en_passant" => to = lm BY <1>1, SpecialIs
<1> HIDE DEF made, w
<1>6. CASE m.ret = "en_passant"
  <2>1. LastMove(m, to) = Captured(to) BY <1>6 DEF LastMove
  <2>2. Captured(to) \in Squares BY <1>3, <1>6, CapturedType DEF LeavesBoard
  <2>3. after = Cleared(made, Captured(to)) BY <1>6 DEF Placed, Cleared, made
  <2>4. after[Captured(to)] = EMPTY_SQUARE BY <1>2, <2>2, <2>3 DEF Cleared, Boards
  <2>5. KingOff(after, w, Captured(to)) BY <1>4, <2>4 DEF KingOff
  <2> QED BY <1>3, <1>5, <1>6, <2>1, <2>5 DEF Replies, MayBeLm, w
<1>7. CASE m.ret # "en_passant"
  <2> DEFINE v == IS_WHITE(board[from])
  <2>1. LastMove(m, to) = m.lm BY <1>7 DEF LastMove
  <2>2. \/ m.lm = lm
        \/ m.lm = NoSquare
        \/ /\ IsDoubleStep(v, from, to) /\ m.ret = "valid"
           /\ m.lm = Passed(v, from) /\ board[Passed(v, from)] = EMPTY_SQUARE /\ board[to] = EMPTY_SQUARE
      BY <1>1, LmIs
  <2>3. v \in BOOLEAN BY DEF IS_WHITE
  <2> HIDE DEF v
  <2>4. CASE m.lm = lm BY <1>3, <2>1, <2>4 DEF Replies, MayBeLm
  <2>5. CASE m.lm = NoSquare BY <1>3, <2>1, <2>5 DEF Replies
  <2>6. CASE /\ IsDoubleStep(v, from, to) /\ m.ret = "valid"
             /\ m.lm = Passed(v, from) /\ board[Passed(v, from)] = EMPTY_SQUARE
    <3>1. after = made BY <2>6 DEF Placed, made
    <3>2. to # Passed(v, from) BY <1>1, <2>3, <2>6, DoubleStepIs
    <3>3. \A j \in Squares : j = Passed(v, from) => made[j] = EMPTY_SQUARE BY <1>2, <2>6, <3>2
    <3>4. after[Passed(v, from)] = EMPTY_SQUARE \/ Passed(v, from) \notin Squares BY <3>1, <3>3
    <3>5. Closed(after, Replies(after, w))
      <4>1. after \in Boards BY <1>2, <3>1
      <4> QED BY <1>1, <4>1, RepliesClosed
    <3>6. KingOff(after, w, m.lm) BY <1>4, <2>6, <3>4 DEF KingOff
    <3>7. Rank(from) \in 0 .. 7 /\ File(from) \in 0 .. 7 /\ from = 8 * Rank(from) + File(from)
        BY <1>1, Coordinates
    <3>8. Rank(m.lm) \in {2, 5}
      <4>1. CASE v
        <5>1. m.lm = 8 * 2 + File(from) BY <2>6, <3>7, <4>1 DEF IsDoubleStep, Passed
        <5> QED BY <3>7, <5>1, SquareAt
      <4>2. CASE ~v
        <5>1. m.lm = 8 * 5 + File(from) BY <2>6, <3>7, <4>2 DEF IsDoubleStep, Passed
        <5> QED BY <3>7, <5>1, SquareAt
      <4> QED BY <2>3, <4>1, <4>2
    <3> QED BY <1>3, <2>1, <3>6, <3>8 DEF Replies, MayBeLm, w
  <2> QED BY <2>2, <2>4, <2>5, <2>6
<1> QED BY <1>6, <1>7 DEF w

\* What an accepted move is told by the search for a mate.
LEMMA AcceptMates ==
    ASSUME ChessInv, phase = "play",
           NEW from \in PiecesOf(board, white_to_move), NEW to \in Squares, Accepted(from, to),
           NEW m, NEW made, NEW after, NEW mate,
           m = move(board, castles, lm, from, to), made = MOVE(board, from, to),
           after = Placed(m, made, from, to),
           mate = is_mate(after, m.castles, LastMove(m, to), ~white_to_move, KingOf(made, ~white_to_move))
    PROVE  /\ board' = mate.board /\ lm' = mate.lm
           /\ ret' = "checkmate" => mate.mate
           /\ white_to_move' # white_to_move => ~mate.mate /\ white_to_move' = ~white_to_move
<1>1. accept(white_to_move, m, made, from, to) BY DEF Accepted
<1>2. /\ board' = mate.board /\ lm' = mate.lm
      /\ ret' = (IF mate.mate THEN "checkmate" ELSE m.ret)
      /\ \/ mate.mate /\ UNCHANGED countVars
         \/ ~mate.mate /\ white_to_move' = ~white_to_move
    BY <1>1 DEF accept, LastMove
<1>3. m.ret # "checkmate"
  <2>1. m \in Verdicts BY MadeIsSafe
  <2> QED BY <2>1 DEF Verdicts, MoveRets
<1> QED BY <1>2, <1>3 DEF countVars

LEMMA MateStep ==
    ASSUME ChessInv, phase = "play", BothKings(board'),
           NEW from \in PiecesOf(board, white_to_move), NEW to \in Squares, Accepted(from, to)
    PROVE  /\ ret' = "checkmate" /\ KingOffLm =>
                 /\ KingStands => InCheck(board', ~white_to_move)
                 /\ \A s, t \in Squares :
                       Helps(board', ~white_to_move, s, t) => board'[s] = KING(~white_to_move) /\ MayBeLm(t)
           /\ /\ white_to_move' # white_to_move /\ lm' = NoSquare /\ KingStands
              /\ InCheck(board', white_to_move')
              => CanEscape(board', white_to_move')
<1> DEFINE m == move(board, castles, lm, from, to)  made == MOVE(board, from, to)
           after == Placed(m, made, from, to)
           w == ~white_to_move  k == KingOf(made, w)  lm1 == LastMove(m, to)
           mate == is_mate(after, m.castles, lm1, w, k)
           chk  == is_in_check(after, m.castles, lm1, w, k)
<1>1. TypeOK /\ w \in BOOLEAN BY DEF ChessInv, TypeOK
<1>2. /\ board' = after /\ after \in Boards /\ lm1 \in LmValues /\ m \in Verdicts
      /\ made \in Boards /\ BothKings(made)
    BY <1>1, AcceptIs DEF Accepted
<1>3. OneKing(after) /\ OneKing(made) BY MadeIsSafe
<1>4. /\ board' = mate.board /\ lm' = mate.lm
      /\ ret' = "checkmate" => mate.mate
      /\ white_to_move' # white_to_move => ~mate.mate /\ white_to_move' = w
    BY AcceptMates
<1>5. m.castles \in SUBSET Rights /\ BothKings(after)
  <2> HIDE DEF m, after
  <2> QED BY <1>2 DEF Verdicts
<1>6. k \in Squares BY <1>1, <1>2, <1>3, KingIs
<1>7. KingStands => after[k] = KING(w) BY <1>2, <1>5, KingOfOther DEF KingStands
<1> HIDE DEF m, made, after, w, k, lm1, mate, chk
<1>8. InCheck(after, w) <=> ~Unattacked(after, w, KingOf(after, w)) BY <1>1, <1>3, <1>5, KingIs
<1>9. KingStands => KingOf(after, w) = k BY <1>1, <1>3, <1>5, <1>6, <1>7, KingIs
<1>10. KingStands => ChecksAre(after, m.castles, lm1, w, k) BY <1>1, <1>2, <1>5, <1>6, <1>7, CheckMeans
<1>11. MateLeft(after, m.castles, lm1, w, k) BY <1>1, <1>2, <1>5, <1>6, MateLeaves
<1>12. ASSUME ret' = "checkmate", KingOffLm
       PROVE  /\ KingStands => InCheck(board', w)
              /\ \A s, t \in Squares : Helps(board', w, s, t) => board'[s] = KING(w) /\ MayBeLm(t)
  <2> DEFINE L == Replies(after, w)
  <2>1. KingOff(after, w, lm) BY <1>2, <1>12 DEF KingOffLm, KingOff, w
  <2>2. lm1 \in L BY <1>1, <2>1, LastMoveIn DEF m, made, after, w, lm1
  <2>3. Closed(after, L) /\ \A l \in L : KingOff(after, w, l) BY <1>1, <1>2, RepliesClosed
  <2> HIDE DEF L
  <2>4. chk.lm \in L BY <1>1, <1>2, <1>5, <1>6, <2>2, <2>3, CheckKeepsLm DEF chk
  <2>5. chk.ret = "valid" /\ mate.mate BY <1>4, <1>11, <1>12 DEF MateLeft, mate, chk
  <2>6. KingStands => InCheck(board', w)
    <3> SUFFICES ASSUME KingStands PROVE InCheck(after, w) BY <1>2
    <3>1. k # lm1 BY <1>6, <1>7, <2>2, <2>3 DEF KingOff
    <3>2. ~Unattacked(after, w, k) BY <1>10, <2>5, <3>1 DEF ChecksAre, chk
    <3> QED BY <1>8, <1>9, <3>2
  <2>7. MateIs(after, m.castles, lm1, w, k, L)
      BY <1>1, <1>2, <1>3, <1>5, <1>6, <2>3, <2>4, MateSearches DEF chk
  <2>8. \E j \in Squares : mate.board[j] = KING(w) BY <1>1, <1>2, <1>4, <1>5, KingsAre
  <2>9. \A s \in PiecesOf(after, w), t \in Squares : Tried(after, w, L, s, t)
      BY <2>3, <2>5, <2>7, <2>8 DEF MateIs, mate
  <2>10. ASSUME NEW s \in Squares, NEW t \in Squares, Helps(after, w, s, t)
         PROVE  after[s] = KING(w) /\ MayBeLm(t)
    <3>1. s \in PiecesOf(after, w) BY <2>10 DEF Helps, Plain, PiecesOf
    <3>2. after[s] = KING(w) /\ t \in L BY <2>9, <2>10, <3>1 DEF Tried
    <3>3. t # NoSquare BY DEF NoSquare, Squares
    <3> QED BY <3>2, <3>3 DEF L, Replies
  <2> QED BY <1>2, <2>6, <2>10
<1>13. ASSUME white_to_move' # white_to_move, lm' = NoSquare, KingStands, InCheck(board', white_to_move')
       PROVE  CanEscape(board', white_to_move')
  <2>1. ~mate.mate /\ white_to_move' = w BY <1>4, <1>13
  <2>2. ~Unattacked(after, w, k) BY <1>2, <1>8, <1>9, <1>13, <2>1
  <2>3. chk.ret # "invalid" BY <1>10, <1>13, <2>2 DEF ChecksAre, chk
  <2>4. CheckLeft(after, m.castles, lm1, w, k) BY <1>1, <1>2, <1>5, <1>6, CheckIs
  <2>5. chk.ret = "valid" /\ chk.lm \in LmValues BY <2>3, <2>4 DEF CheckLeft, chk
  <2>6. Closed(after, LmValues)
    <3>1. Closed(after, Replies(after, w)) BY <1>1, <1>2, RepliesClosed
    <3> QED BY <3>1 DEF Closed, LmValues
  <2>7. MateIs(after, m.castles, lm1, w, k, LmValues)
      BY <1>1, <1>2, <1>3, <1>5, <1>6, <2>5, <2>6, MateSearches DEF chk
  <2>8. lm' \in Squares \/ CanEscape(after, w) BY <1>4, <2>1, <2>5, <2>7 DEF MateIs, mate, chk
  <2>9. NoSquare \notin Squares BY DEF NoSquare, Squares
  <2> QED BY <1>2, <1>13, <2>1, <2>8, <2>9
<1> QED BY <1>12, <1>13 DEF w

\* What is answered as mate is one: the opponent's king is attacked, and no move of his
\* helps, unless it is the king's to a square the search may leave in g->lm; and whoever is in
\* check when the game goes on, with no such square left, has a move of the rules that helps.
THEOREM MateIsMateCorrect == Spec => MateIsMate
<1> DEFINE Right ==
             /\ ret' = "checkmate" /\ board' # board /\ KingOffLm =>
                   /\ KingStands => InCheck(board', ~white_to_move)
                   /\ \A s, t \in Squares :
                         Helps(board', ~white_to_move, s, t) => board'[s] = KING(~white_to_move) /\ MayBeLm(t)
             /\ /\ white_to_move' # white_to_move /\ lm' = NoSquare /\ KingStands
                /\ InCheck(board', white_to_move')
                => CanEscape(board', white_to_move')
<1>1. ASSUME ChessInv, [Next]_vars PROVE [BothKings(board') => Right]_vars
  <2>1. TypeOK BY <1>1 DEF ChessInv
  <2> SUFFICES ASSUME ~UNCHANGED vars, BothKings(board') PROVE Right
      OBVIOUS
  <2>2. phase = "play" BY <1>1, <2>1, StepIs
  <2>3. CASE Refused
    <3>1. board' = board /\ white_to_move' = white_to_move BY <2>3 DEF Refused
    <3> QED BY <3>1
  <2>4. CASE Kingless BY <2>4 DEF Kingless
  <2>5. ASSUME NEW from \in PiecesOf(board, white_to_move), NEW to \in Squares, Accepted(from, to)
        PROVE  Right
      BY <1>1, <2>2, <2>5, MateStep
  <2> QED BY <1>1, <2>1, <2>3, <2>4, <2>5, StepIs
<1> QED BY <1>1, ChessInvariant, PTL DEF Spec, MateIsMate

---------------------------------------------------------------------------
\* The text of a board.

\* Induction, for a set of naturals.
LEMMA AllNaturals ==
    ASSUME NEW T, 0 \in T, \A n \in Nat : n \in T => n + 1 \in T
    PROVE  Nat \subseteq T
<1> DEFINE R == {ss \in Nat \X Nat : ss[1] < ss[2]}
           S == {n \in Nat : n \notin T}
<1>1. IsWellFoundedOn(R, Nat) BY NatLessThanWellFounded DEF OpToRel
<1> SUFFICES ASSUME S # {} PROVE FALSE OBVIOUS
<1>2. PICK m \in S : \A k \in S : <<k, m>> \notin R
  <2> S \subseteq Nat OBVIOUS
  <2> HIDE DEF R, S
  <2> QED BY <1>1, WFMin
<1>3. m \in Nat /\ m # 0 /\ m \notin T /\ \A k \in S : ~(k < m) BY <1>2
<1>4. m - 1 \in Nat /\ m - 1 \in T BY <1>3
<1> QED BY <1>3, <1>4

\* A function that is defined along 0 .. n exists.
Recurs(g, base, step, n) == g[0] = base /\ \A i \in 1 .. n : g[i] = step[i][g[i - 1]]

LEMMA RecursionStep ==
    ASSUME NEW S, NEW base \in S, NEW n \in Nat, NEW step \in [1 .. n -> [S -> S]],
           NEW k \in 0 .. n - 1, NEW g \in [0 .. k -> S], Recurs(g, base, step, k)
    PROVE  \E h \in [0 .. k + 1 -> S] : Recurs(h, base, step, k + 1)
<1> DEFINE h == [i \in 0 .. k + 1 |-> IF i = k + 1 THEN step[k + 1][g[k]] ELSE g[i]]
<1>1. step[k + 1] \in [S -> S] /\ g[k] \in S OBVIOUS
<1>2. step[k + 1][g[k]] \in S BY <1>1
<1>3. h \in [0 .. k + 1 -> S] BY <1>2
<1>4. h[k + 1] = step[k + 1][g[k]] /\ \A i \in 0 .. k : h[i] = g[i] OBVIOUS
<1> HIDE DEF h
<1>5. h[0] = base BY <1>4 DEF Recurs
<1>6. ASSUME NEW i \in 1 .. k + 1 PROVE h[i] = step[i][h[i - 1]]
  <2>1. i - 1 \in 0 .. k /\ h[i - 1] = g[i - 1] BY <1>4
  <2>2. CASE i = k + 1 BY <1>4, <2>1, <2>2
  <2>3. CASE i # k + 1
    <3>1. i \in 1 .. k BY <2>3
    <3> QED BY <1>4, <2>1, <3>1 DEF Recurs
  <2> QED BY <2>2, <2>3
<1> QED BY <1>3, <1>5, <1>6 DEF Recurs

LEMMA Recursion ==
    ASSUME NEW S, NEW base \in S, NEW n \in Nat, NEW step \in [1 .. n -> [S -> S]]
    PROVE  \E g \in [0 .. n -> S] : Recurs(g, base, step, n)
<1> DEFINE T == {k \in Nat : k <= n => \E g \in [0 .. k -> S] : Recurs(g, base, step, k)}
<1>1. 0 \in T
  <2> DEFINE g == [i \in 0 .. 0 |-> base]
  <2>1. g \in [0 .. 0 -> S] /\ Recurs(g, base, step, 0) BY DEF Recurs
  <2> QED BY <2>1
<1>2. ASSUME NEW k \in Nat, k \in T PROVE k + 1 \in T
  <2> SUFFICES ASSUME k + 1 <= n PROVE \E g \in [0 .. k + 1 -> S] : Recurs(g, base, step, k + 1)
      OBVIOUS
  <2>1. PICK g \in [0 .. k -> S] : Recurs(g, base, step, k) BY <1>2
  <2>2. k \in 0 .. n - 1 OBVIOUS
  <2> QED BY <2>1, <2>2, RecursionStep
<1> HIDE DEF T
<1>3. n \in T BY <1>1, <1>2, AllNaturals
<1> QED BY <1>3 DEF T

\* What FlattenSeq computes: the equations of its function, which have one solution.
Flattens(h, ss) == \A i \in 1 .. Len(ss) : h[i] = IF i = 1 THEN ss[i] ELSE h[i - 1] \o ss[i]

LEMMA FlattenUnique ==
    ASSUME NEW ss, NEW tt, NEW g, NEW h, Flattens(g, ss), Flattens(h, tt),
           Len(ss) \in Nat, Len(tt) \in Nat, Len(ss) <= Len(tt), \A i \in 1 .. Len(ss) : ss[i] = tt[i]
    PROVE  \A i \in 1 .. Len(ss) : g[i] = h[i]
<1> DEFINE n == Len(ss)  T == {i \in Nat : i \in 1 .. n => g[i] = h[i]}
<1>1. 0 \in T OBVIOUS
<1>2. ASSUME NEW i \in Nat, i \in T PROVE i + 1 \in T
  <2> SUFFICES ASSUME i + 1 \in 1 .. n PROVE g[i + 1] = h[i + 1] OBVIOUS
  <2>1. i + 1 \in 1 .. Len(tt) /\ ss[i + 1] = tt[i + 1] /\ (i + 1) - 1 = i /\ (i + 1 = 1 <=> i = 0)
      OBVIOUS
  <2>2. i # 0 => g[i] = h[i] BY <1>2
  <2>3. g[i + 1] = IF i = 0 THEN ss[i + 1] ELSE g[i] \o ss[i + 1] BY <2>1 DEF Flattens
  <2>4. h[i + 1] = IF i = 0 THEN tt[i + 1] ELSE h[i] \o tt[i + 1] BY <2>1 DEF Flattens
  <2> QED BY <2>1, <2>2, <2>3, <2>4
<1> HIDE DEF T
<1>3. Nat \subseteq T BY <1>1, <1>2, AllNaturals
<1> QED BY <1>3 DEF T

LEMMA FlattenIs ==
    ASSUME NEW B, NEW ss \in Seq(Seq(B)), ss # <<>>
    PROVE  \E h : Flattens(h, ss) /\ FlattenSeq(ss) = h[Len(ss)]
<1> DEFINE n == Len(ss)
           f == CHOOSE h : h = [i \in 1 .. n |-> IF i = 1 THEN ss[i] ELSE h[i - 1] \o ss[i]]
           step == [i \in 1 .. n |-> [v \in Seq(B) |-> v \o ss[i]]]
<1>1. n \in Nat \ {0} BY EmptySeq, LenProperties
<1>2. FlattenSeq(ss) = f[n] BY <1>1 DEF FlattenSeq
<1>3. \A i \in 1 .. n : ss[i] \in Seq(B) BY ElementOfSeq
<1>4. \A i \in 1 .. n, v \in Seq(B) : v \o ss[i] \in Seq(B)
  <2> SUFFICES ASSUME NEW i \in 1 .. n, NEW v \in Seq(B) PROVE v \o ss[i] \in Seq(B) OBVIOUS
  <2>1. ss[i] \in Seq(B) BY <1>3
  <2> QED BY <2>1, ConcatProperties
<1>5. <<>> \in Seq(B) /\ step \in [1 .. n -> [Seq(B) -> Seq(B)]] BY <1>4
<1>6. \A i \in 1 .. n, v \in Seq(B) : step[i][v] = v \o ss[i] OBVIOUS
<1> HIDE DEF step
<1>7. PICK g \in [0 .. n -> Seq(B)] : Recurs(g, <<>>, step, n)
  <2> DEFINE S == Seq(B)
  <2>1. <<>> \in S /\ step \in [1 .. n -> [S -> S]] /\ n \in Nat BY <1>1, <1>5
  <2> HIDE DEF S, n
  <2>2. \E g \in [0 .. n -> S] : Recurs(g, <<>>, step, n) BY <2>1, Recursion
  <2> QED BY <2>2 DEF S
<1>8. \A i \in 1 .. n : g[i] = IF i = 1 THEN ss[i] ELSE g[i - 1] \o ss[i]
  <2> SUFFICES ASSUME NEW i \in 1 .. n PROVE g[i] = IF i = 1 THEN ss[i] ELSE g[i - 1] \o ss[i] OBVIOUS
  <2>1. i - 1 \in 0 .. n /\ g[i - 1] \in Seq(B)
    <3> HIDE DEF n
    <3> QED BY <1>1
  <2>2. g[i] = g[i - 1] \o ss[i] BY <1>6, <1>7, <2>1 DEF Recurs
  <2>3. i = 1 => g[i - 1] = <<>> BY <1>7 DEF Recurs
  <2>4. ss[i] \in Seq(B) BY <1>3
  <2>5. <<>> \o ss[i] = ss[i] BY <2>4, ConcatEmptySeq
  <2> QED BY <2>2, <2>3, <2>5
<1>9. \E h : h = [i \in 1 .. n |-> IF i = 1 THEN ss[i] ELSE h[i - 1] \o ss[i]]
  <2> DEFINE h == [i \in 1 .. n |-> g[i]]
  <2>1. \A i \in 1 .. n : h[i] = g[i] /\ (i # 1 => h[i - 1] = g[i - 1]) BY <1>1
  <2> HIDE DEF h
  <2>2. \A i \in 1 .. n : g[i] = IF i = 1 THEN ss[i] ELSE h[i - 1] \o ss[i] BY <1>8, <2>1
  <2>3. h = [i \in 1 .. n |-> IF i = 1 THEN ss[i] ELSE h[i - 1] \o ss[i]] BY <2>2 DEF h
  <2> QED BY <2>3
<1>10. f = [i \in 1 .. n |-> IF i = 1 THEN ss[i] ELSE f[i - 1] \o ss[i]]
  <2> HIDE DEF n
  <2> QED BY <1>9
<1> HIDE DEF f
<1>11. Flattens(f, ss) BY <1>10 DEF Flattens
<1> QED BY <1>2, <1>11

LEMMA FlattenEmpty == FlattenSeq(<<>>) = <<>>
BY DEF FlattenSeq

LEMMA FlattenAppend ==
    ASSUME NEW B, NEW ss \in Seq(Seq(B)), NEW x \in Seq(B)
    PROVE  FlattenSeq(Append(ss, x)) = FlattenSeq(ss) \o x
<1> DEFINE tt == Append(ss, x)  n == Len(ss)
<1>1. /\ n \in Nat /\ Len(tt) = n + 1 /\ tt[n + 1] = x /\ tt \in Seq(Seq(B))
      /\ \A i \in 1 .. n : tt[i] = ss[i]
    BY AppendProperties, LenProperties
<1>2. tt # <<>> BY <1>1, EmptySeq
<1> HIDE DEF tt
<1>3. PICK g : Flattens(g, tt) /\ FlattenSeq(tt) = g[n + 1] BY <1>1, <1>2, FlattenIs
<1>4. g[n + 1] = IF n + 1 = 1 THEN x ELSE g[(n + 1) - 1] \o x BY <1>1, <1>3 DEF Flattens
<1>5. CASE ss = <<>>
  <2>1. n = 0 /\ <<>> \o x = x BY <1>5, ConcatEmptySeq, EmptySeq
  <2> QED BY <1>3, <1>4, <1>5, <2>1, FlattenEmpty DEF tt
<1>6. CASE ss # <<>>
  <2>1. n # 0 BY <1>6, EmptySeq
  <2>2. PICK h : Flattens(h, ss) /\ FlattenSeq(ss) = h[n] BY <1>6, FlattenIs
  <2>3. \A i \in 1 .. n : h[i] = g[i] BY <1>1, <1>3, <2>2, FlattenUnique
  <2>4. n \in 1 .. n /\ (n + 1) - 1 = n /\ n + 1 # 1 BY <1>1, <2>1
  <2>5. h[n] = g[n] BY <2>3, <2>4
  <2> QED BY <1>3, <1>4, <2>2, <2>4, <2>5 DEF tt
<1> QED BY <1>5, <1>6

\* What generate_fen writes of a rank, and what is read from it.
Tokens == (Pieces \ {EMPTY_SQUARE}) \cup {Digit[n] : n \in 1 .. 8}

Blank(n)          == [i \in 1 .. n |-> EMPTY_SQUARE]
Files(b, rank, n) == [f \in 1 .. n |-> b[SQUARE_TO_INT(rank, f - 1)]]
Read(text)        == FlattenSeq([i \in DOMAIN text |-> Expanded(text[i])])

\* One file more in the loop of generate_fen.
NextFile(row, piece) ==
    IF piece = EMPTY_SQUARE THEN [row EXCEPT !.empty = @ + 1]
    ELSE [text |-> Append(Flushed(row), piece), empty |-> 0]

LEMMA FunctionIsSeq ==
    ASSUME NEW S, NEW n \in Nat, NEW f \in [1 .. n -> S]
    PROVE  f \in Seq(S) /\ Len(f) = n /\ DOMAIN f = 1 .. n
BY SeqDef

LEMMA AppendIs ==
    ASSUME NEW S, NEW T, NEW s \in Seq(S), NEW u \in Seq(T), NEW x \in T, Len(u) = Len(s) + 1,
           \A i \in 1 .. Len(s) : s[i] \in T /\ u[i] = s[i], u[Len(s) + 1] = x
    PROVE  u = Append(s, x)
<1>1. Len(s) \in Nat /\ Len(Append(s, x)) = Len(s) + 1
  OBVIOUS
<1> QED OBVIOUS

LEMMA BlankNext ==
    ASSUME NEW n \in Nat
    PROVE  /\ Blank(n) \in Seq(Pieces) /\ Blank(0) = <<>>
           /\ Blank(n + 1) = Append(Blank(n), EMPTY_SQUARE)
<1>1. EMPTY_SQUARE \in Pieces BY DEF Pieces
<1>2. \A k \in Nat : Blank(k) \in [1 .. k -> Pieces] BY <1>1 DEF Blank
<1>3. \A k \in Nat : Blank(k) \in Seq(Pieces) /\ Len(Blank(k)) = k BY <1>2, FunctionIsSeq
<1>4. \A k \in Nat : \A i \in 1 .. k : Blank(k)[i] = EMPTY_SQUARE BY DEF Blank
<1>5. Blank(0) = <<>> BY <1>3, EmptySeq
<1>6. Blank(n + 1) = Append(Blank(n), EMPTY_SQUARE) BY <1>1, <1>3, <1>4, AppendIs
<1> QED BY <1>3, <1>5, <1>6

LEMMA FilesNext ==
    ASSUME NEW b \in [Squares -> Pieces], NEW rank \in 0 .. 7, NEW n \in 0 .. 7
    PROVE  /\ b[SQUARE_TO_INT(rank, n)] \in Pieces /\ Files(b, rank, n) \in Seq(Pieces)
           /\ Files(b, rank, 0) = <<>>
           /\ Files(b, rank, n + 1) = Append(Files(b, rank, n), b[SQUARE_TO_INT(rank, n)])
<1>1. \A f \in 0 .. 7 : b[SQUARE_TO_INT(rank, f)] \in Pieces
  <2> SUFFICES ASSUME NEW f \in 0 .. 7 PROVE b[SQUARE_TO_INT(rank, f)] \in Pieces OBVIOUS
  <2>1. SQUARE_TO_INT(rank, f) = 8 * rank + f BY DEF SQUARE_TO_INT
  <2> QED BY <2>1, SquareAt
<1>2. \A k \in 0 .. 8 : Files(b, rank, k) \in [1 .. k -> Pieces] BY <1>1 DEF Files
<1>3. ASSUME NEW k \in 0 .. 8 PROVE Files(b, rank, k) \in Seq(Pieces) /\ Len(Files(b, rank, k)) = k
  <2> DEFINE u == Files(b, rank, k)
  <2>1. u \in [1 .. k -> Pieces] BY <1>2
  <2>2. k \in Nat OBVIOUS
  <2> HIDE DEF u
  <2>3. u \in Seq(Pieces) /\ Len(u) = k BY <2>1, <2>2, FunctionIsSeq
  <2> QED BY <2>3 DEF u
<1>4. \A k \in 0 .. 8 : \A f \in 1 .. k : Files(b, rank, k)[f] = b[SQUARE_TO_INT(rank, f - 1)]
    BY DEF Files
<1>5. Files(b, rank, 0) = <<>> BY <1>3, EmptySeq
<1>6. Files(b, rank, n + 1) = Append(Files(b, rank, n), b[SQUARE_TO_INT(rank, n)])
  <2> DEFINE x == b[SQUARE_TO_INT(rank, n)]  s == Files(b, rank, n)  u == Files(b, rank, n + 1)
  <2>1. n \in 0 .. 8 /\ n + 1 \in 0 .. 8 /\ (n + 1) - 1 = n OBVIOUS
  <2>2. /\ s \in Seq(Pieces) /\ u \in Seq(Pieces) /\ Len(s) = n /\ Len(u) = n + 1 /\ x \in Pieces
      BY <1>1, <1>3, <2>1
  <2>3. \A i \in 1 .. n : s[i] = b[SQUARE_TO_INT(rank, i - 1)] /\ u[i] = b[SQUARE_TO_INT(rank, i - 1)]
      BY <1>4, <2>1
  <2>4. u[n + 1] = x
    <3>1. n + 1 \in 1 .. n + 1 OBVIOUS
    <3> QED BY <1>4, <2>1, <3>1
  <2>5. \A i \in 1 .. n : s[i] \in Pieces BY <2>2, ElementOfSeq
  <2> HIDE DEF x, s, u
  <2>6. u = Append(s, x) BY <2>2, <2>3, <2>4, <2>5, AppendIs
  <2> QED BY <2>6 DEF x, s, u
<1>7. n \in 0 .. 8 OBVIOUS
<1> QED BY <1>1, <1>3, <1>5, <1>6, <1>7

\* A token stands for a piece, or for a number of empty squares.
LEMMA TokenIs ==
    /\ \A piece \in Pieces \ {EMPTY_SQUARE} : piece \in Tokens /\ Expanded(piece) = <<piece>>
    /\ \A n \in 1 .. 8 : Digit[n] \in Tokens /\ Expanded(Digit[n]) = Blank(n)
    /\ \A token \in Tokens : Expanded(token) \in Seq(Pieces)
<1>1. \A piece \in Pieces \ {EMPTY_SQUARE} : piece \in Tokens /\ Expanded(piece) = <<piece>>
    BY DEF Tokens, Expanded
<1>2. ASSUME NEW n \in 1 .. 8 PROVE Digit[n] \in Tokens /\ Expanded(Digit[n]) = Blank(n)
  <2>1. /\ Digit[1] = "1" /\ Digit[2] = "2" /\ Digit[3] = "3" /\ Digit[4] = "4"
        /\ Digit[5] = "5" /\ Digit[6] = "6" /\ Digit[7] = "7" /\ Digit[8] = "8"
      BY DEF Digit
  <2>2. \A k \in 1 .. 8 : k = 1 \/ k = 2 \/ k = 3 \/ k = 4 \/ k = 5 \/ k = 6 \/ k = 7 \/ k = 8
      OBVIOUS
  <2>3. Digit[n] \notin Pieces BY <2>1, <2>2 DEF Pieces, White, Black, EMPTY_SQUARE
  <2>4. \A k \in 1 .. 8 : Digit[k] = Digit[n] => k = n BY <2>1, <2>2
  <2>5. (CHOOSE k \in 1 .. 8 : Digit[k] = Digit[n]) = n BY <2>4
  <2> QED BY <2>3, <2>5 DEF Tokens, Expanded, Blank
<1>3. ASSUME NEW token \in Tokens PROVE Expanded(token) \in Seq(Pieces)
  <2>1. CASE token \in Pieces \ {EMPTY_SQUARE}
    <3>1. Expanded(token) = <<token>> BY <1>1, <2>1
    <3> QED BY <2>1, <3>1
  <2>2. ASSUME NEW n \in 1 .. 8, token = Digit[n] PROVE Expanded(token) \in Seq(Pieces)
    <3>1. n \in Nat /\ Expanded(token) = Blank(n) BY <1>2, <2>2
    <3> QED BY <3>1, BlankNext
  <2> QED BY <2>1, <2>2 DEF Tokens
<1> QED BY <1>1, <1>2, <1>3

LEMMA ReadEmpty == Read(<<>>) = <<>>
<1>1. [i \in DOMAIN <<>> |-> Expanded(<<>>[i])] = <<>> OBVIOUS
<1> QED BY <1>1, FlattenEmpty DEF Read

LEMMA ReadAppend ==
    ASSUME NEW text \in Seq(Tokens), NEW token \in Tokens, Read(text) \in Seq(Pieces)
    PROVE  /\ Append(text, token) \in Seq(Tokens) /\ Read(Append(text, token)) \in Seq(Pieces)
           /\ Read(Append(text, token)) = Read(text) \o Expanded(token)
<1> DEFINE n == Len(text)  u == Append(text, token)  S == Seq(Pieces)
           E(tt) == [i \in DOMAIN tt |-> Expanded(tt[i])]
<1>1. /\ n \in Nat /\ u \in Seq(Tokens) /\ Len(u) = n + 1 /\ u[n + 1] = token
      /\ DOMAIN text = 1 .. n /\ DOMAIN u = 1 .. n + 1
      /\ \A i \in 1 .. n : u[i] = text[i] /\ text[i] \in Tokens
    BY AppendProperties, LenProperties, ElementOfSeq
<1>2. Expanded(token) \in S /\ \A i \in 1 .. n : Expanded(text[i]) \in S BY <1>1, TokenIs
<1>3. Read(text) = FlattenSeq(E(text)) /\ Read(u) = FlattenSeq(E(u)) BY DEF Read
<1> HIDE DEF u, n
<1>4. \A i \in 1 .. n + 1 : u[i] \in Tokens BY <1>1
<1>5. \A i \in 1 .. n + 1 : Expanded(u[i]) \in S BY <1>4, TokenIs
<1> HIDE DEF S
<1>6. E(text) \in [1 .. n -> S] /\ E(u) \in [1 .. n + 1 -> S] BY <1>1, <1>2, <1>5
<1>7. E(text) \in Seq(S) /\ Len(E(text)) = n /\ E(u) \in Seq(S) /\ Len(E(u)) = n + 1
    BY <1>1, <1>6, FunctionIsSeq
<1>8. /\ \A i \in 1 .. n : E(text)[i] = Expanded(text[i]) /\ E(u)[i] = Expanded(text[i])
      /\ E(u)[n + 1] = Expanded(token)
    BY <1>1
<1> HIDE DEF E
<1>9. E(u) = Append(E(text), Expanded(token)) BY <1>2, <1>7, <1>8, AppendIs
<1>10. FlattenSeq(E(u)) = FlattenSeq(E(text)) \o Expanded(token)
    BY <1>2, <1>7, <1>9, FlattenAppend DEF S
<1>11. Read(u) = Read(text) \o Expanded(token) BY <1>3, <1>10
<1>12. Read(u) \in S BY <1>2, <1>11, ConcatProperties DEF S
<1> QED BY <1>1, <1>11, <1>12 DEF S, u

LEMMA FlushedReads ==
    ASSUME NEW row, row.text \in Seq(Tokens), row.empty \in 0 .. 8, Read(row.text) \in Seq(Pieces)
    PROVE  /\ Flushed(row) \in Seq(Tokens) /\ Read(Flushed(row)) \in Seq(Pieces)
           /\ Read(Flushed(row)) = Read(row.text) \o Blank(row.empty)
<1>1. CASE row.empty = 0
  <2>1. Flushed(row) = row.text BY <1>1 DEF Flushed
  <2>2. Blank(row.empty) = <<>> BY <1>1, BlankNext
  <2>3. Read(row.text) \o <<>> = Read(row.text) BY ConcatEmptySeq
  <2> QED BY <2>1, <2>2, <2>3
<1>2. CASE row.empty # 0
  <2>1. row.empty \in 1 .. 8 BY <1>2
  <2>2. Flushed(row) = Append(row.text, Digit[row.empty]) BY <1>2 DEF Flushed
  <2>3. Digit[row.empty] \in Tokens /\ Expanded(Digit[row.empty]) = Blank(row.empty) BY <2>1, TokenIs
  <2> QED BY <2>2, <2>3, ReadAppend
<1> QED BY <1>1, <1>2

\* row, which has n files of a rank, reads as the squares of them.
ReadsAs(row, n, squares) ==
    \E text \in Seq(Tokens), e \in 0 .. n :
       /\ row = [text |-> text, empty |-> e] /\ Read(text) \in Seq(Pieces)
       /\ Read(text) \o Blank(e) = squares

\* A run of empty squares, or a piece after one, reads as the squares up to there.
LEMMA NextFileReads ==
    ASSUME NEW text \in Seq(Tokens), NEW e \in 0 .. 7, Read(text) \in Seq(Pieces), NEW piece \in Pieces
    PROVE  ReadsAs(NextFile([text |-> text, empty |-> e], piece), e + 1, Append(Read(text) \o Blank(e), piece))
<1> DEFINE q == Read(text)  row == [text |-> text, empty |-> e]  next == NextFile(row, piece)
<1>1. /\ row.text = text /\ row.empty = e /\ e \in Nat /\ row.empty \in 0 .. 8
      /\ q \in Seq(Pieces) /\ Blank(e) \in Seq(Pieces)
  <2>1. e \in Nat OBVIOUS
  <2>2. Blank(e) \in Seq(Pieces) BY <2>1, BlankNext
  <2> QED BY <2>1, <2>2
<1>2. q \o Blank(e) \in Seq(Pieces) BY <1>1, ConcatProperties
<1>3. /\ Append(q \o Blank(e), piece) = (q \o Blank(e)) \o <<piece>> /\ <<piece>> \in Seq(Pieces)
      /\ Append(Blank(e), piece) = Blank(e) \o <<piece>>
    BY <1>1, <1>2, AppendIsConcat
<1>4. (q \o Blank(e)) \o <<piece>> = q \o (Blank(e) \o <<piece>>) BY <1>1, <1>3, ConcatAssociative
<1>5. CASE piece = EMPTY_SQUARE
  <2>1. next = [text |-> text, empty |-> e + 1] BY <1>1, <1>5 DEF NextFile
  <2>2. e + 1 \in 0 .. e + 1 OBVIOUS
  <2>3. Blank(e + 1) = Append(Blank(e), piece) BY <1>1, <1>5, BlankNext
  <2>4. q \o Blank(e + 1) = Append(q \o Blank(e), piece) BY <1>3, <1>4, <2>3
  <2> QED BY <1>1, <2>1, <2>2, <2>4 DEF ReadsAs
<1>6. CASE piece # EMPTY_SQUARE
  <2>1. next = [text |-> Append(Flushed(row), piece), empty |-> 0] BY <1>6 DEF NextFile
  <2>2. piece \in Tokens /\ Expanded(piece) = <<piece>> BY <1>6, TokenIs
  <2>3. /\ Flushed(row) \in Seq(Tokens) /\ Read(Flushed(row)) \in Seq(Pieces)
        /\ Read(Flushed(row)) = q \o Blank(e)
      BY <1>1, FlushedReads
  <2> DEFINE longer == Append(Flushed(row), piece)
  <2>4. /\ longer \in Seq(Tokens) /\ Read(longer) \in Seq(Pieces)
        /\ Read(longer) = (q \o Blank(e)) \o <<piece>>
      BY <2>2, <2>3, ReadAppend
  <2> HIDE DEF longer, row, next
  <2>5. Read(longer) \o Blank(0) = Append(q \o Blank(e), piece)
    <3>1. Blank(0) = <<>> BY BlankNext
    <3>2. Read(longer) \o <<>> = Read(longer) BY <2>4, ConcatEmptySeq
    <3> QED BY <1>3, <2>4, <3>1, <3>2
  <2>6. 0 \in 0 .. e + 1 OBVIOUS
  <2>7. next = [text |-> longer, empty |-> 0] BY <2>1 DEF longer
  <2>8. ReadsAs(next, e + 1, Append(q \o Blank(e), piece)) BY <2>4, <2>5, <2>6, <2>7 DEF ReadsAs
  <2> QED BY <2>8 DEF next, row
<1> QED BY <1>5, <1>6

\* The loop over the files of a rank: row n is what it has after n of them.
RowsAre(row, b, rank) ==
    /\ row[0] = [text |-> <<>>, empty |-> 0]
    /\ \A n \in 1 .. 8 : row[n] = NextFile(row[n - 1], b[SQUARE_TO_INT(rank, n - 1)])

LEMMA RowTextIs ==
    ASSUME NEW b \in [Squares -> Pieces], NEW rank \in 0 .. 7
    PROVE  \E row : RowsAre(row, b, rank) /\ RowText(b, rank) = Flushed(row[8])
<1> DEFINE Symbols == Pieces \cup {Digit[n] : n \in Nat}
           Rows  == [text : Seq(Symbols), empty : Nat]
           start == [text |-> <<>>, empty |-> 0]
           At(n) == b[SQUARE_TO_INT(rank, n - 1)]
           step  == [n \in 1 .. 8 |-> [row \in Rows |-> NextFile(row, At(n))]]
           Eq(h) == [f \in 0 .. 8 |-> IF f = 0 THEN start ELSE NextFile(h[f - 1], At(f))]
           rows  == CHOOSE h : h = Eq(h)
<1>1. RowText(b, rank) = Flushed(rows[8]) BY DEF RowText, NextFile
<1>2. \A n \in 1 .. 8 : At(n) \in Pieces
  <2> SUFFICES ASSUME NEW n \in 1 .. 8 PROVE At(n) \in Pieces OBVIOUS
  <2>1. n - 1 \in 0 .. 7 OBVIOUS
  <2> QED BY <2>1, FilesNext
<1> HIDE DEF At
<1>3. ASSUME NEW row \in Rows, NEW piece \in Pieces PROVE NextFile(row, piece) \in Rows
  <2>1. row.text \in Seq(Symbols) /\ row.empty \in Nat /\ piece \in Symbols OBVIOUS
  <2>2. Digit[row.empty] \in Symbols BY <2>1
  <2> HIDE DEF Symbols
  <2>3. Flushed(row) \in Seq(Symbols) BY <2>1, <2>2, AppendProperties DEF Flushed
  <2>4. Append(Flushed(row), piece) \in Seq(Symbols) BY <2>1, <2>3, AppendProperties
  <2>5. CASE piece = EMPTY_SQUARE BY <2>1, <2>5 DEF NextFile
  <2>6. CASE piece # EMPTY_SQUARE BY <2>4, <2>6 DEF NextFile
  <2> QED BY <2>5, <2>6
<1>4. start \in Rows
  <2> HIDE DEF Symbols
  <2> QED OBVIOUS
<1> HIDE DEF Symbols, Rows, start
<1>5. step \in [1 .. 8 -> [Rows -> Rows]] BY <1>2, <1>3
<1>6. \A n \in 1 .. 8, row \in Rows : step[n][row] = NextFile(row, At(n)) OBVIOUS
<1> HIDE DEF step
<1>7. PICK g \in [0 .. 8 -> Rows] : Recurs(g, start, step, 8) BY <1>4, <1>5, Recursion
<1>8. g[0] = start /\ \A n \in 1 .. 8 : n - 1 \in 0 .. 8 /\ g[n - 1] \in Rows BY <1>7 DEF Recurs
<1>9. \A n \in 1 .. 8 : g[n] = NextFile(g[n - 1], At(n)) BY <1>6, <1>7, <1>8 DEF Recurs
<1>10. \E h : h = Eq(h)
  <2>1. Eq(g) = g
    <3>1. \A f \in 0 .. 8 : f # 0 => f \in 1 .. 8 OBVIOUS
    <3>2. \A f \in 0 .. 8 : Eq(g)[f] = g[f] BY <1>8, <1>9, <3>1
    <3> QED BY <1>7, <3>2
  <2> QED BY <2>1
<1>11. rows = Eq(rows)
  <2> HIDE DEF Eq
  <2> QED BY <1>10
<1> HIDE DEF rows
<1>12. rows[0] = start /\ \A n \in 1 .. 8 : rows[n] = NextFile(rows[n - 1], At(n)) BY <1>11
<1>13. RowsAre(rows, b, rank) BY <1>12 DEF RowsAre, start, At
<1> QED BY <1>1, <1>13

LEMMA ReadsNext ==
    ASSUME NEW n \in 0 .. 7, NEW row, NEW squares, ReadsAs(row, n, squares), NEW piece \in Pieces
    PROVE  ReadsAs(NextFile(row, piece), n + 1, Append(squares, piece))
<1>1. PICK text \in Seq(Tokens), e \in 0 .. n :
            /\ row = [text |-> text, empty |-> e] /\ Read(text) \in Seq(Pieces)
            /\ Read(text) \o Blank(e) = squares
    BY DEF ReadsAs
<1>2. ReadsAs(NextFile([text |-> text, empty |-> e], piece), e + 1, Append(Read(text) \o Blank(e), piece))
  <2>1. e \in 0 .. 7 OBVIOUS
  <2>2. Read(text) \in Seq(Pieces) BY <1>1
  <2> QED BY <2>1, <2>2, NextFileReads
<1>3. ReadsAs(NextFile(row, piece), e + 1, Append(squares, piece)) BY <1>1, <1>2
<1>4. \A k \in 0 .. e + 1 : k \in 0 .. n + 1 OBVIOUS
<1> QED BY <1>3, <1>4, Zenon DEF ReadsAs

LEMMA RowReads ==
    ASSUME NEW b \in [Squares -> Pieces], NEW rank \in 0 .. 7
    PROVE  Read(RowText(b, rank)) = Files(b, rank, 8)
<1>1. PICK row : RowsAre(row, b, rank) /\ RowText(b, rank) = Flushed(row[8]) BY RowTextIs
<1> DEFINE T == {n \in Nat : n <= 8 => ReadsAs(row[n], n, Files(b, rank, n))}
<1>2. 0 \in T
  <2>1. row[0] = [text |-> <<>>, empty |-> 0] BY <1>1 DEF RowsAre
  <2>2. Read(<<>>) = <<>> /\ Blank(0) = <<>> /\ <<>> \in Seq(Pieces) /\ <<>> \in Seq(Tokens)
      BY ReadEmpty, BlankNext
  <2>3. 0 \in 0 .. 7 /\ 0 \in 0 .. 0 /\ <<>> \o <<>> = <<>> OBVIOUS
  <2>4. Files(b, rank, 0) = <<>> BY <2>3, FilesNext
  <2> QED BY <2>1, <2>2, <2>3, <2>4 DEF ReadsAs
<1>3. ASSUME NEW n \in Nat, n \in T PROVE n + 1 \in T
  <2> SUFFICES ASSUME n + 1 <= 8 PROVE ReadsAs(row[n + 1], n + 1, Files(b, rank, n + 1)) OBVIOUS
  <2>1. n \in 0 .. 7 /\ ReadsAs(row[n], n, Files(b, rank, n)) BY <1>3
  <2>2. n + 1 \in 1 .. 8 /\ (n + 1) - 1 = n OBVIOUS
  <2>3. row[n + 1] = NextFile(row[n], b[SQUARE_TO_INT(rank, n)]) BY <1>1, <2>2 DEF RowsAre
  <2>4. /\ b[SQUARE_TO_INT(rank, n)] \in Pieces
        /\ Files(b, rank, n + 1) = Append(Files(b, rank, n), b[SQUARE_TO_INT(rank, n)])
      BY <2>1, FilesNext
  <2> QED BY <2>1, <2>3, <2>4, ReadsNext
<1> HIDE DEF T
<1>4. 8 \in T BY <1>2, <1>3, AllNaturals
<1>5. ReadsAs(row[8], 8, Files(b, rank, 8)) BY <1>4 DEF T
<1>6. PICK text \in Seq(Tokens), e \in 0 .. 8 :
            /\ row[8] = [text |-> text, empty |-> e] /\ Read(text) \in Seq(Pieces)
            /\ Read(text) \o Blank(e) = Files(b, rank, 8)
    BY <1>5 DEF ReadsAs
<1>7. row[8].text = text /\ row[8].empty = e BY <1>6
<1>8. Read(Flushed(row[8])) = Read(text) \o Blank(e) BY <1>6, <1>7, FlushedReads
<1> QED BY <1>1, <1>6, <1>8

\* Of every position that a game reaches, the text that a client gets when it begins and when he
\* returns to it reads as the server's board, however its empty squares run.
THEOREM FenReadsBackCorrect == Spec => []FenReadsBack
<1>1. ChessInv => FenReadsBack
  <2> SUFFICES ASSUME ChessInv, NEW r \in 1 .. 8
               PROVE  Read(generate_fen.rows[r]) = Files(board, 8 - r, 8)
      BY DEF FenReadsBack, Read, Files
  <2>1. board \in [Squares -> Pieces] BY DEF ChessInv, TypeOK
  <2>2. generate_fen.rows[r] = RowText(board, 8 - r) /\ 8 - r \in 0 .. 7 BY DEF generate_fen
  <2> QED BY <2>1, <2>2, RowReads
<1> QED BY <1>1, ChessInvariant, PTL
=============================================================================
