--------------------------- MODULE LineEditScreen ---------------------------
(***************************************************************************)
(* Proofs about what the line editor draws, for any terminal.  Cells are   *)
(* counted along the rows from the top of the line, so that what is        *)
(* written from there is a sequence, wherever rows end.  What is drawn     *)
(* leaves l->oldpos and l->oldrows that say how far to go down and which   *)
(* rows to clear (Kept), and clearing what they say leaves nothing         *)
(* (Clearable), whatever has been made of the line in between.             *)
(***************************************************************************)
EXTENDS LineEditProofs

(* ---- numbers ---------------------------------------------------------------- *)
W == settings.cols

LEMMA Widths ==
  ASSUME settings \in Settings
  PROVE  W \in Nat /\ W > PromptLen /\ PromptLen \in Nat /\ PromptLen > 0 /\ BufLen \in Nat /\ BufLen > 0
BY SettingsNumbers DEF W

LEMMA Divided ==
  ASSUME NEW a \in Nat, NEW c \in Nat, c > 0
  PROVE  \E q \in Nat, r \in 0..(c - 1) : q = a \div c /\ r = a % c /\ a = c * q + r
BY Division

LEMMA DivisionIs ==
  ASSUME NEW c \in Nat, c > 0, NEW q \in Nat, NEW r \in 0..(c - 1), NEW a, a = q * c + r
  PROVE  a \in Nat /\ a \div c = q /\ a % c = r
<1>1. q * c \in Nat
  OBVIOUS
<1>2. a \in Nat
  BY <1>1
<1>3. PICK d \in Nat : d = a \div c
  BY <1>2, Division
<1>4. PICK s \in 0..(c - 1) : s = a % c
  BY <1>2, Division
<1>5. a = c * d + s
  BY <1>2, <1>3, <1>4, Division
<1>6. d = q
  <2>1. CASE d > q
    <3>1. c * d >= c * (q + 1) /\ c * (q + 1) = q * c + c
      BY <2>1
    <3> QED
      BY <1>1, <1>5, <3>1
  <2>2. CASE d < q
    <3>1. c * (d + 1) <= c * q /\ c * (d + 1) = c * d + c /\ c * q = q * c
      BY <2>2
    <3> QED
      BY <1>1, <1>5, <3>1
  <2> QED
    BY <2>1, <2>2
<1>7. s = r
  <2>1. c * d = q * c
    BY <1>6
  <2> QED
    BY <1>1, <1>5, <2>1
<1> QED
  BY <1>2, <1>3, <1>4, <1>6, <1>7

(* Cells are counted along the rows.                                       *)
LEMMA SameCell ==
  ASSUME NEW c \in Nat, c > 0, NEW a \in Int, NEW b \in 0..(c - 1), NEW d \in Int, NEW e \in 0..(c - 1),
         a * c + b = d * c + e
  PROVE  a = d /\ b = e
<1>0. a * c \in Int /\ d * c \in Int
  OBVIOUS
<1>1. CASE a > d
  <2>1. a * c >= (d + 1) * c /\ (d + 1) * c = d * c + c
    BY <1>1
  <2> QED
    BY <1>0, <2>1
<1>2. CASE a < d
  <2>1. (a + 1) * c <= d * c /\ (a + 1) * c = a * c + c
    BY <1>2
  <2> QED
    BY <1>0, <2>1
<1>3. CASE a = d
  BY <1>0, <1>3
<1> QED
  BY <1>1, <1>2, <1>3

LEMMA LeastOf ==
  ASSUME NEW S, S \subseteq Nat, S # {}
  PROVE  Min(S) \in S /\ \A i \in S : Min(S) <= i
<1> DEFINE A == {n \in Nat : (\E m \in S : m <= n) => \E m \in S : \A i \in S : m =< i}
<1>1. ASSUME NEW n \in Nat, n = 0 \/ n - 1 \in A PROVE n \in A
  <2> SUFFICES ASSUME NEW m \in S, m <= n PROVE \E k \in S : \A i \in S : k =< i
    OBVIOUS
  <2>1. CASE \A i \in S : m =< i
    BY <2>1
  <2>2. CASE \E i \in S : i < m
    <3>1. PICK i \in S : i < m
      BY <2>2
    <3>2. n # 0 /\ i <= n - 1
      BY <3>1
    <3> QED
      BY <1>1, <3>2
  <2> QED
    BY <2>1, <2>2
<1>2. Nat \in SUBSET Nat /\ \A n \in Nat : n # 0 => n - 1 \in Nat
  OBVIOUS
<1>3. Nat \subseteq A
  <2> HIDE DEF A
  <2> QED
    BY <1>1, <1>2, Induction
<1>4. PICK n \in S : n \in Nat
  OBVIOUS
<1>5. \E m \in S : \A i \in S : m =< i
  BY <1>3, <1>4
<1> QED
  BY <1>5 DEF Min

LEMMA DivisionOrder ==
  ASSUME NEW a \in Nat, NEW b \in Nat, a <= b, NEW c \in Nat, c > 0, NEW d \in Nat, d >= c
  PROVE  a \div d <= b \div c
<1>0. d > 0
  OBVIOUS
<1>1. PICK q \in Nat, r \in 0..(d - 1) : q = a \div d /\ r = a % d /\ a = d * q + r
  BY <1>0, Divided
<1>2. a = d * q + r
  BY <1>1
<1>3. PICK p \in Nat, s \in 0..(c - 1) : p = b \div c /\ s = b % c /\ b = c * p + s
  BY Divided
<1>4. b = c * p + s
  BY <1>3
<1>5. CASE q > p
  <2>1. d * q >= d * (p + 1) /\ d * (p + 1) >= c * (p + 1) /\ c * (p + 1) = c * p + c
    BY <1>5
  <2>2. c * p \in Nat /\ d * q \in Nat /\ d * (p + 1) \in Nat /\ c * (p + 1) \in Nat
    OBVIOUS
  <2> QED
    BY <1>2, <1>4, <2>1, <2>2
<1> QED
  BY <1>1, <1>3, <1>5

(* The terminal has rows for every line, on the narrowest one.             *)
LEMMA RowsSuffice ==
  ASSUME settings \in Settings, NEW n \in Nat, n <= PromptLen + BufLen
  PROVE  Rows \in Nat /\ Rows >= 3 /\ n \div W <= Rows - 3
<1> DEFINE S == {s.cols : s \in Settings}
<1>1. W \in S /\ S \subseteq Nat /\ (\A i \in S : i > PromptLen) /\ PromptLen \in Nat /\ BufLen \in Nat
  BY LineEditAssumption DEF W
<1>2. PICK m \in Nat : m = Min(S)
  BY <1>1, LeastOf
<1>3. m <= W /\ m > 0
  <2>1. m \in S /\ \A i \in S : m <= i
    BY <1>1, <1>2, LeastOf
  <2>2. m <= W
    BY <1>1, <2>1
  <2>3. m > PromptLen
    BY <1>1, <2>1
  <2> QED
    BY <1>1, <2>2, <2>3
<1>4. PICK q \in Nat : q = (PromptLen + BufLen) \div m
  BY <1>1, <1>3, Division
<1>5. Rows = 1 + q + 2
  BY <1>2, <1>4 DEF Rows
<1>6. n \div W <= q
  <2>1. PICK b \in Nat : b = PromptLen + BufLen
    BY <1>1
  <2>2. PICK w \in Nat : w = W
    BY <1>1
  <2>3. n \div w <= b \div m
    BY <1>3, <2>1, <2>2, DivisionOrder
  <2> QED
    BY <1>4, <2>1, <2>2, <2>3
<1>7. n \div W \in Nat
  <2>1. PICK w \in Nat : w = W /\ w > 0
    BY <1>1, <1>3, SMTT(30)
  <2> QED
    BY <2>1, Division
<1> QED
  BY <1>5, <1>6, <1>7

(* ---- the terminal ------------------------------------------------------------ *)
Codes == Chars \cup {"old", "blank", "star", "hint", "prompt"}
Terms == [cell : [Cells -> Codes], row : Nat, col : Nat, top : Nat]
Term(cell, row, col, top) == [cell |-> cell, row |-> row, col |-> col, top |-> top]

(* The cells of t are counted from 1 in its row r.                         *)
Count(r, p) == (p[1] - r) * W + p[2] + 1

LEMMA TermIs ==
  ASSUME NEW t \in Terms
  PROVE  /\ t = Term(t.cell, t.row, t.col, t.top) /\ t.cell \in [Cells -> Codes] /\ t.row \in Nat /\ t.col \in Nat /\ t.top \in Nat
         /\ Return(t) = Term(t.cell, t.row, 0, t.top)
         /\ Newline(t) = Term(t.cell, t.row + 1, t.col, t.top)
         /\ \A n : Up(t, n) = Term(t.cell, Max({0, t.row - n}), t.col, t.top)
         /\ \A n : Down(t, n) = Term(t.cell, Min2(Rows, t.row + n), t.col, t.top)
         /\ \A n : Right(t, n) = Term(t.cell, t.row, Min2(W - 1, t.col + n), t.top)
<1>1. t = Term(t.cell, t.row, t.col, t.top) /\ t.cell \in [Cells -> Codes] /\ t.row \in Nat /\ t.col \in Nat /\ t.top \in Nat
  BY DEF Terms, Term
<1>2. PICK c, row, col, top : t = Term(c, row, col, top) /\ c = t.cell /\ row = t.row /\ col = t.col /\ top = t.top
  BY <1>1
<1>3. Return(t) = Term(c, row, 0, top) /\ Newline(t) = Term(c, row + 1, col, top)
  BY <1>2 DEF Return, Newline, Term
<1>4. ASSUME NEW n
      PROVE  /\ Up(t, n) = Term(c, Max({0, row - n}), col, top)
             /\ Down(t, n) = Term(c, Min2(Rows, row + n), col, top)
             /\ Right(t, n) = Term(c, row, Min2(W - 1, col + n), top)
  BY <1>2 DEF Up, Down, Right, Term, W
<1> QED
  BY <1>1, <1>2, <1>3, <1>4, ZenonT(40)

LEMMA EraseIs ==
  ASSUME NEW t \in Terms
  PROVE  /\ EraseRight(t) \in Terms
         /\ EraseRight(t).row = t.row /\ EraseRight(t).col = t.col /\ EraseRight(t).top = t.top
         /\ \A p \in Cells : EraseRight(t).cell[p] = IF p[1] = t.row /\ p[2] >= t.col THEN "blank" ELSE t.cell[p]
<1>1. PICK c : c = [p \in Cells |-> IF p[1] = t.row /\ p[2] >= t.col THEN "blank" ELSE t.cell[p]]
  OBVIOUS
<1>2. t.cell \in [Cells -> Codes] /\ DOMAIN t.cell = Cells
  BY DEF Terms
<1>3. \A p \in Cells : c[p] \in Codes
  BY <1>1, <1>2 DEF Codes
<1>4. c \in [Cells -> Codes]
  BY <1>1, <1>3
<1>5. [p \in DOMAIN t.cell |-> IF p[1] = t.row /\ p[2] >= t.col THEN "blank" ELSE t.cell[p]] = c
  BY <1>1, <1>2
<1>6. EraseRight(t) = [t EXCEPT !.cell = c]
  BY <1>5 DEF EraseRight
<1>7. EraseRight(t) = Term(c, t.row, t.col, t.top)
  BY <1>6 DEF Terms, Term
<1> QED
  BY <1>1, <1>4, <1>7 DEF Term, Terms

LEMMA CellsAre ==
  ASSUME settings \in Settings, NEW p \in Cells
  PROVE  p[1] \in 0..Rows /\ p[2] \in 0..(W - 1) /\ p = <<p[1], p[2]>> /\ Rows \in Nat
<1>1. Rows \in Nat
  BY RowsSuffice, Widths
<1> QED
  BY <1>1 DEF Cells, W

LEMMA CountIs ==
  ASSUME settings \in Settings, NEW p \in Cells, NEW r \in Int
  PROVE  /\ Count(r, p) \in Int
         /\ p[1] < r => Count(r, p) <= 0
         /\ p[1] >= r => Count(r, p) >= 1
         /\ p[1] = r => Count(r, p) = p[2] + 1
         /\ p[1] > r => Count(r, p) > W
         /\ Count(r + 1, p) = Count(r, p) - W
<1>1. p[1] \in Int /\ p[2] \in 0..(W - 1) /\ W \in Nat /\ W > 0
  BY CellsAre, Widths
<1>2. PICK w \in Nat : w = W /\ w > 0
  BY <1>1
<1>3. PICK d \in Int : d = p[1] - r
  BY <1>1
<1>4. Count(r, p) = d * w + p[2] + 1 /\ d * w \in Int
  BY <1>2, <1>3 DEF Count
<1>5. d < 0 => d * w <= -w
  <2>1. CASE d < 0
    <3>1. d * w <= (-1) * w /\ (-1) * w = -w
      BY <1>2, <2>1
    <3> QED
      BY <3>1
  <2> QED
    BY <2>1
<1>6. d > 0 => d * w >= w
  BY <1>2
<1>7. d = 0 => d * w = 0
  BY <1>2
<1>8. Count(r + 1, p) = (d - 1) * w + p[2] + 1 /\ (d - 1) * w = d * w - w
  BY <1>1, <1>2, <1>3 DEF Count
<1>9. PICK x \in Int, y \in 0..(w - 1), z \in Int : x = p[1] /\ y = p[2] /\ z = d * w
  BY <1>1, <1>2, <1>4
<1>10. Count(r, p) = z + y + 1 /\ Count(r + 1, p) = z - w + y + 1
  BY <1>4, <1>8, <1>9
<1>11. (d < 0 => z <= -w) /\ (d > 0 => z >= w) /\ (d = 0 => z = 0)
  BY <1>5, <1>6, <1>7, <1>9
<1>12. /\ x < r => z <= -w
       /\ x > r => z >= w
       /\ x = r => z = 0
  BY <1>3, <1>9, <1>11
<1>13. /\ p[1] < r => Count(r, p) <= 0
       /\ p[1] > r => Count(r, p) > w
       /\ p[1] = r => Count(r, p) = p[2] + 1
       /\ Count(r, p) \in Int /\ Count(r + 1, p) = Count(r, p) - w
  BY <1>9, <1>10, <1>12
<1>14. p[1] >= r => Count(r, p) >= 1
  BY <1>2, <1>9, <1>10, <1>12
<1> QED
  BY <1>2, <1>13, <1>14

LEMMA CountSame ==
  ASSUME settings \in Settings, NEW p \in Cells, NEW r \in Int, NEW row \in Int, NEW col \in 0..(W - 1)
  PROVE  Count(r, p) = (row - r) * W + col + 1 <=> p = <<row, col>>
<1>1. p[1] \in Int /\ p[2] \in 0..(W - 1) /\ W \in Nat /\ W > 0 /\ p = <<p[1], p[2]>>
  BY CellsAre, Widths
<1>2. PICK w \in Nat : w = W /\ w > 0
  BY <1>1
<1>3. PICK a \in Int, b \in 0..(w - 1), d \in Int, e \in 0..(w - 1) :
        a = p[1] - r /\ b = p[2] /\ d = row - r /\ e = col
  BY <1>1, <1>2
<1>4. Count(r, p) = a * w + b + 1 /\ (row - r) * W + col + 1 = d * w + e + 1 /\ a * w \in Int /\ d * w \in Int
  BY <1>2, <1>3 DEF Count
<1>5. a * w + b = d * w + e => a = d /\ b = e
  BY <1>2, SameCell
<1>6. a = d /\ b = e <=> p = <<row, col>>
  BY <1>1, <1>3
<1> QED
  BY <1>4, <1>5, <1>6

(* Writing s from the place that has the count k.                          *)
Stands(t, r, k) == (t.row - r) * W + t.col = k /\ t.col <= W

Written(t, u, r, k, s, n) ==
  /\ u \in Terms /\ u.top = t.top /\ Stands(u, r, k + n)
  /\ n > 0 => u.col > 0
  /\ n = 0 => u = t
  /\ \A p \in Cells : u.cell[p] = IF k < Count(r, p) /\ Count(r, p) <= k + n THEN s[Count(r, p) - k] ELSE t.cell[p]

LEMMA PutIs ==
  ASSUME settings \in Settings, NEW t \in Terms, NEW c \in Codes, NEW r \in Int, NEW k \in Int, Stands(t, r, k)
  PROVE  /\ Put(t, c) \in Terms /\ Put(t, c).top = t.top /\ Stands(Put(t, c), r, k + 1) /\ Put(t, c).col > 0
         /\ \A p \in Cells : Put(t, c).cell[p] = IF Count(r, p) = k + 1 THEN c ELSE t.cell[p]
<1>0. W \in Nat /\ W > 0 /\ t.row \in Nat /\ t.col \in Nat /\ t.cell \in [Cells -> Codes] /\ t.col <= W
  BY Widths, TermIs DEF Stands
<1>1. PICK row \in Nat, col \in 0..(W - 1) :
        /\ row = IF t.col = settings.cols THEN t.row + 1 ELSE t.row
        /\ col = IF t.col = settings.cols THEN 0 ELSE t.col
  BY <1>0 DEF W
<1>2. (row - r) * W + col = k
  <2>1. PICK d \in Int, w \in Nat : d = t.row - r /\ w = W
    BY <1>0
  <2>2. d * w + t.col = k /\ (d + 1) * w = d * w + w /\ d * w \in Int
    BY <2>1 DEF Stands
  <2>3. CASE t.col = W
    <3>1. row - r = d + 1 /\ col = 0
      BY <1>0, <1>1, <2>1, <2>3 DEF W
    <3> QED
      BY <2>1, <2>2, <2>3, <3>1
  <2>4. CASE t.col # W
    <3>1. row - r = d /\ col = t.col
      BY <1>0, <1>1, <2>1, <2>4 DEF W
    <3> QED
      BY <2>1, <2>2, <3>1
  <2> QED
    BY <2>3, <2>4
<1>3. PICK d : d = [t.cell EXCEPT ![<<row, col>>] = c]
  OBVIOUS
<1>4. d \in [Cells -> Codes] /\ \A p \in Cells : d[p] = IF p = <<row, col>> THEN c ELSE t.cell[p]
  BY <1>0, <1>3
<1>5. Put(t, c) = Term(d, row, col + 1, t.top)
  <2>1. Put(t, c) = [t EXCEPT !.cell[<<row, col>>] = c, !.row = row, !.col = col + 1]
    BY <1>1 DEF Put
  <2>2. PICK u : u = [t EXCEPT !.cell[<<row, col>>] = c]
    OBVIOUS
  <2>3. u = Term(d, t.row, t.col, t.top)
    BY <1>3, <2>2 DEF Terms, Term
  <2>4. PICK v : v = [u EXCEPT !.row = row]
    OBVIOUS
  <2>5. v = Term(d, row, t.col, t.top)
    BY <2>3, <2>4 DEF Term
  <2>6. [v EXCEPT !.col = col + 1] = Term(d, row, col + 1, t.top)
    BY <2>5 DEF Term
  <2> QED
    BY <2>1, <2>2, <2>4, <2>6
<1>6. Put(t, c) \in Terms /\ Put(t, c).top = t.top /\ Put(t, c).col = col + 1 /\ Put(t, c).row = row /\ Put(t, c).cell = d
  BY <1>0, <1>4, <1>5 DEF Term, Terms
<1>7. Stands(Put(t, c), r, k + 1)
  <2>1. PICK w \in Nat : w = W /\ col \in 0..(w - 1)
    BY <1>0
  <2>2. (row - r) * w \in Int
    BY <2>1
  <2>3. (row - r) * w + (col + 1) = k + 1 /\ col + 1 <= w
    BY <1>2, <2>1, <2>2
  <2> QED
    BY <1>6, <2>1, <2>3 DEF Stands
<1>8. ASSUME NEW p \in Cells PROVE d[p] = IF Count(r, p) = k + 1 THEN c ELSE t.cell[p]
  <2>1. Count(r, p) = (row - r) * W + col + 1 <=> p = <<row, col>>
    <3>1. PICK x \in Int, y \in 0..(W - 1) : x = row /\ y = col
      OBVIOUS
    <3>2. Count(r, p) = (x - r) * W + y + 1 <=> p = <<x, y>>
      BY CountSame, ZenonT(40)
    <3> QED
      BY <3>1, <3>2
  <2>2. (row - r) * W + col + 1 = k + 1
    BY <1>2
  <2> QED
    BY <1>4, <2>1, <2>2
<1>9. col + 1 > 0
  OBVIOUS
<1> QED
  BY <1>6, <1>7, <1>8, <1>9

LEMMA TypeIs ==
  ASSUME settings \in Settings, NEW t \in Terms, NEW s \in Seq(Codes), NEW r \in Int, NEW k \in Int, Stands(t, r, k)
  PROVE  Written(t, Type(t, s), r, k, s, Len(s))
<1> DEFINE D == 0..Len(s)
<1>1. PICK F : F = [p \in Nat \X Terms |-> IF p[1] \in 1..Len(s) THEN Put(p[2], s[p[1]]) ELSE p[2]]
  OBVIOUS
<1>2. ASSUME NEW i \in 1..Len(s), NEW u \in Terms PROVE Put(u, s[i]) \in Terms
  <2>1. PICK c \in Codes : c = s[i]
    OBVIOUS
  <2>2. PICK w \in Nat : w = W /\ u.row \in Nat /\ u.col \in Nat /\ u.cell \in [Cells -> Codes] /\ u.top \in Nat
    BY Widths, TermIs
  <2>3. PICK row \in Nat, col \in Nat :
          /\ row = IF u.col = settings.cols THEN u.row + 1 ELSE u.row
          /\ col = IF u.col = settings.cols THEN 0 ELSE u.col
    BY <2>2
  <2>4. PICK d : d = [u.cell EXCEPT ![<<row, col>>] = c]
    OBVIOUS
  <2>5. d \in [Cells -> Codes]
    BY <2>2, <2>4
  <2>6. PICK v : v = [u EXCEPT !.cell[<<row, col>>] = c]
    OBVIOUS
  <2>7. v = Term(d, u.row, u.col, u.top)
    BY <2>4, <2>6 DEF Terms, Term
  <2>8. PICK z : z = [v EXCEPT !.row = row]
    OBVIOUS
  <2>9. z = Term(d, row, u.col, u.top)
    BY <2>7, <2>8 DEF Term
  <2>10. [z EXCEPT !.col = col + 1] = Term(d, row, col + 1, u.top)
    BY <2>9 DEF Term
  <2>11. Put(u, c) = [u EXCEPT !.cell[<<row, col>>] = c, !.row = row, !.col = col + 1]
    BY <2>3 DEF Put
  <2>12. Put(u, c) = Term(d, row, col + 1, u.top)
    BY <2>6, <2>8, <2>10, <2>11
  <2> QED
    BY <2>1, <2>2, <2>5, <2>12 DEF Term, Terms
<1>3. F \in [Nat \X Terms -> Terms] /\ \A i \in 1..Len(s), u \in Terms : F[<<i, u>>] = Put(u, s[i])
  BY <1>1, <1>2
<1>4. D \in SUBSET Nat /\ \A n \in D : n # 0 => n - 1 \in D
  OBVIOUS
<1>5. PICK f \in [D -> Terms] : Recursive(f, D, t, F)
  <2> HIDE DEF D
  <2> QED
    BY <1>3, <1>4, Recursion
<1> DEFINE Follows(g) == g = [i \in D |-> IF i = 0 THEN t ELSE Put(g[i - 1], s[i])]
<1>6. Follows(f)
  <2>1. \A n \in D : f[n] = IF n = 0 THEN t ELSE F[<<n, f[n - 1]>>]
    BY <1>5 DEF Recursive
  <2>2. \A n \in D : n # 0 => n - 1 \in D /\ n \in 1..Len(s)
    BY <1>4
  <2> HIDE DEF D
  <2>3. \A n \in D : f[n] = IF n = 0 THEN t ELSE Put(f[n - 1], s[n])
    BY <1>3, <2>1, <2>2
  <2> QED
    BY <2>3
<1>7. PICK typed : typed = CHOOSE g : Follows(g)
  OBVIOUS
<1>8. Type(t, s) = typed[Len(s)]
  BY <1>7 DEF Type
<1>9. Follows(typed)
  <2> HIDE DEF Follows
  <2> QED
    BY <1>6, <1>7
<1>10. \A i \in D : typed[i] = IF i = 0 THEN t ELSE Put(typed[i - 1], s[i])
  BY <1>9
<1>11. \A i \in D : Written(t, typed[i], r, k, s, i)
  <2> DEFINE A == {i \in D : Written(t, typed[i], r, k, s, i)}
  <2>1. ASSUME NEW i \in D, i = 0 \/ i - 1 \in A PROVE i \in A
    <3>1. CASE i = 0
      <4>1. typed[0] = t
        BY <1>10
      <4>2. \A p \in Cells : ~(k < Count(r, p) /\ Count(r, p) <= k + 0)
        <5> SUFFICES ASSUME NEW p \in Cells PROVE ~(k < Count(r, p) /\ Count(r, p) <= k + 0)
          OBVIOUS
        <5>1. Count(r, p) \in Int
          BY CountIs
        <5> QED
          BY <5>1
      <4>3. Stands(t, r, k + 0)
        BY DEF Stands
      <4>4. Written(t, t, r, k, s, 0)
        BY <4>2, <4>3 DEF Written
      <4> QED
        BY <3>1, <4>1, <4>4
    <3>2. CASE i # 0
      <4>1. PICK u : u = typed[i - 1]
        OBVIOUS
      <4>2. u \in Terms /\ u.top = t.top /\ Stands(u, r, k + (i - 1))
        BY <2>1, <3>2, <4>1 DEF Written
      <4>3. \A p \in Cells : u.cell[p] = IF k < Count(r, p) /\ Count(r, p) <= k + (i - 1) THEN s[Count(r, p) - k] ELSE t.cell[p]
        BY <2>1, <3>2, <4>1 DEF Written
      <4>4. PICK c \in Codes : c = s[i]
        BY <3>2
      <4>5. PICK j \in Int : j = k + (i - 1)
        OBVIOUS
      <4>6. PICK v : v = Put(u, c)
        OBVIOUS
      <4>7. /\ v \in Terms /\ v.top = u.top /\ Stands(v, r, j + 1) /\ v.col > 0
            /\ \A p \in Cells : v.cell[p] = IF Count(r, p) = j + 1 THEN c ELSE u.cell[p]
        BY <4>2, <4>5, <4>6, PutIs
      <4>8. typed[i] = v
        BY <1>10, <3>2, <4>1, <4>4, <4>6
      <4>9. ASSUME NEW p \in Cells
            PROVE  v.cell[p] = IF k < Count(r, p) /\ Count(r, p) <= k + i THEN s[Count(r, p) - k] ELSE t.cell[p]
        <5>1. PICK n \in Int : n = Count(r, p)
          BY CountIs
        <5>2. CASE n = j + 1
          <6>1. v.cell[p] = s[i]
            BY <4>4, <4>7, <5>1, <5>2
          <6>2. n - k = i /\ k < n /\ n <= k + i
            BY <3>2, <4>5, <5>2
          <6> QED
            BY <5>1, <6>1, <6>2
        <5>3. CASE n # j + 1
          <6>1. v.cell[p] = u.cell[p]
            BY <4>7, <5>1, <5>3
          <6>2. (k < n /\ n <= k + (i - 1)) <=> (k < n /\ n <= k + i)
            BY <4>5, <5>3
          <6> QED
            BY <4>3, <5>1, <6>1, <6>2
        <5> QED
          BY <5>2, <5>3
      <4>10. j + 1 = k + i
        BY <4>5
      <4>11. Written(t, v, r, k, s, i)
        BY <3>2, <4>2, <4>7, <4>9, <4>10 DEF Written
      <4> QED
        BY <4>8, <4>11
    <3> QED
      BY <3>1, <3>2
  <2> HIDE DEF A
  <2>2. D \subseteq A
    BY <1>4, <2>1, Induction
  <2> QED
    BY <2>2 DEF A
<1>12. Len(s) \in D
  OBVIOUS
<1> QED
  BY <1>8, <1>11, <1>12

(* ---- what is drawn ------------------------------------------------------------ *)
Used(s) == Prompt \o Masked(s)
HintFor(n, hints) == [i \in 1..(IF hints THEN Max({0, W - (PromptLen + n)}) ELSE 0) |-> "hint"]
HintLen(n, hints) == IF hints /\ PromptLen + n < W THEN W - (PromptLen + n) ELSE 0
Fill(n, hints) == IF hints /\ PromptLen + n < W THEN "hint" ELSE "blank"

LEMMA MaskedIs ==
  ASSUME NEW s \in Seq(Chars)
  PROVE  /\ Masked(s) \in Seq(Codes) /\ Len(Masked(s)) = Len(s)
         /\ \A i \in 1..Len(s) : Masked(s)[i] = IF settings.mask THEN "star" ELSE s[i]
<1>1. PICK m : m = [i \in 1..Len(s) |-> IF settings.mask THEN "star" ELSE s[i]]
  OBVIOUS
<1>2. \A i \in 1..Len(s) : m[i] \in Codes
  BY <1>1 DEF Codes
<1>3. m \in Seq(Codes) /\ Len(m) = Len(s)
  BY <1>1, <1>2
<1>4. Masked(s) = m
  <2>1. CASE settings.mask
    BY <1>1, <2>1 DEF Masked
  <2>2. CASE ~settings.mask
    <3>1. s = [i \in 1..Len(s) |-> s[i]]
      OBVIOUS
    <3> QED
      BY <1>1, <2>2, <3>1 DEF Masked
  <2> QED
    BY <2>1, <2>2
<1> QED
  BY <1>1, <1>3, <1>4

LEMMA UsedIs ==
  ASSUME settings \in Settings, NEW s \in Seq(Chars)
  PROVE  /\ Used(s) \in Seq(Codes) /\ Len(Used(s)) = PromptLen + Len(s)
         /\ \A i \in 1..PromptLen : Used(s)[i] = "prompt"
         /\ \A i \in 1..Len(s) : Used(s)[PromptLen + i] = IF settings.mask THEN "star" ELSE s[i]
<1>1. PICK m \in Seq(Codes) : m = Masked(s) /\ Len(m) = Len(s)
  BY MaskedIs
<1>2. \A i \in 1..Len(s) : m[i] = IF settings.mask THEN "star" ELSE s[i]
  BY <1>1, MaskedIs
<1>3. PromptLen \in Nat
  BY Widths
<1>4. Prompt = [i \in 1..PromptLen |-> "prompt"] /\ \A i \in 1..PromptLen : "prompt" \in Codes
  BY DEF Prompt, Codes
<1>5. Prompt \in Seq(Codes) /\ Len(Prompt) = PromptLen /\ \A i \in 1..PromptLen : Prompt[i] = "prompt"
  BY <1>3, <1>4
<1>6. PICK x \in Seq(Codes), k \in Nat : x = Prompt /\ k = PromptLen /\ Len(x) = k
  BY <1>3, <1>5
<1>7. PICK u : u = x \o m
  OBVIOUS
<1>8. /\ u \in Seq(Codes) /\ Len(u) = Len(x) + Len(m)
      /\ \A i \in 1..(Len(x) + Len(m)) : u[i] = IF i <= Len(x) THEN x[i] ELSE m[i - Len(x)]
  BY <1>7
<1>9. \A i \in 1..k : u[i] = "prompt"
  BY <1>5, <1>6, <1>8
<1>10. ASSUME NEW i \in 1..Len(s) PROVE u[k + i] = m[i]
  <2>1. k + i \in 1..(Len(x) + Len(m)) /\ ~(k + i <= Len(x)) /\ (k + i) - Len(x) = i
    BY <1>1, <1>6
  <2> QED
    BY <1>8, <2>1
<1>11. u = Used(s)
  BY <1>1, <1>6, <1>7 DEF Used
<1> QED
  BY <1>1, <1>2, <1>6, <1>8, <1>9, <1>10, <1>11

LEMMA HintIs ==
  ASSUME settings \in Settings, NEW n \in Nat, NEW hints
  PROVE  /\ HintLen(n, hints) \in Nat
         /\ HintFor(n, hints) \in Seq(Codes) /\ Len(HintFor(n, hints)) = HintLen(n, hints)
         /\ \A i \in 1..HintLen(n, hints) : HintFor(n, hints)[i] = "hint"
<1>1. PICK m \in Int : m = W - (PromptLen + n)
  BY Widths
<1>2. Max({0, m}) = IF 0 >= m THEN 0 ELSE m
  BY <1>1, MaxIs2
<1>3. PICK k \in Nat : k = HintLen(n, hints)
  BY <1>1, Widths DEF HintLen
<1>4. (IF hints THEN Max({0, W - (PromptLen + n)}) ELSE 0) = k
  <2>1. PromptLen + n < W <=> m > 0
    BY <1>1, Widths
  <2>2. k = IF hints /\ m > 0 THEN m ELSE 0
    BY <1>1, <1>3, <2>1 DEF HintLen
  <2>3. CASE hints /\ m > 0
    BY <1>1, <1>2, <2>2, <2>3
  <2>4. CASE hints /\ ~(m > 0)
    BY <1>1, <1>2, <2>2, <2>4
  <2>5. CASE ~hints
    BY <2>2, <2>5
  <2> QED
    BY <2>3, <2>4, <2>5
<1>5. HintFor(n, hints) = [i \in 1..k |-> "hint"] /\ "hint" \in Codes
  BY <1>4 DEF HintFor, Codes
<1>6. HintFor(n, hints) \in Seq(Codes) /\ Len(HintFor(n, hints)) = k
  BY <1>5
<1> QED
  BY <1>3, <1>5, <1>6

(* The line, and the hint after it.                                        *)
LEMMA HintedIs ==
  ASSUME settings \in Settings, NEW s \in Seq(Chars), NEW n \in Nat, NEW hints
  PROVE  /\ Used(s) \o HintFor(n, hints) \in Seq(Codes)
         /\ Len(Used(s) \o HintFor(n, hints)) = PromptLen + Len(s) + HintLen(n, hints)
         /\ \A i \in 1..(PromptLen + Len(s) + HintLen(n, hints)) :
              (Used(s) \o HintFor(n, hints))[i] = IF i <= PromptLen + Len(s) THEN Used(s)[i] ELSE "hint"
<1>1. PICK u \in Seq(Codes), h \in Seq(Codes) : u = Used(s) /\ h = HintFor(n, hints)
  BY UsedIs, HintIs
<1>2. Len(u) = PromptLen + Len(s) /\ Len(h) = HintLen(n, hints) /\ HintLen(n, hints) \in Nat
      /\ \A i \in 1..HintLen(n, hints) : h[i] = "hint"
  BY <1>1, UsedIs, HintIs
<1>3. PICK x : x = u \o h
  OBVIOUS
<1>4. /\ x \in Seq(Codes) /\ Len(x) = Len(u) + Len(h)
      /\ \A i \in 1..(Len(u) + Len(h)) : x[i] = IF i <= Len(u) THEN u[i] ELSE h[i - Len(u)]
  BY <1>3
<1>5. ASSUME NEW i \in 1..(Len(u) + Len(h)) PROVE x[i] = IF i <= Len(u) THEN u[i] ELSE "hint"
  <2>1. i > Len(u) => i - Len(u) \in 1..Len(h)
    OBVIOUS
  <2> QED
    BY <1>2, <1>4, <2>1
<1>6. PICK a \in Nat, b \in Nat : a = PromptLen + Len(s) /\ b = HintLen(n, hints)
  BY <1>2
<1>7. Len(u) = a /\ Len(h) = b
  BY <1>2, <1>6
<1>8. x \in Seq(Codes) /\ Len(x) = a + b /\ \A i \in 1..(a + b) : x[i] = IF i <= a THEN u[i] ELSE "hint"
  BY <1>4, <1>5, <1>7
<1>9. x = Used(s) \o HintFor(n, hints)
  BY <1>1, <1>3
<1> QED
  BY <1>1, <1>6, <1>8, <1>9

Writable(e) ==
  Text(e) \in Seq(Chars) /\ Len(Text(e)) = e.len /\ e.len \in 0..BufLen /\ e.pos \in 0..e.len

ScreenOf(t, used, c) ==
  /\ t \in Terms /\ t.top \in {0, 1}
  /\ \A p \in Cells : t.cell[p] = IF p[1] < t.top THEN "old"
                                  ELSE IF Count(t.top, p) <= Len(used) THEN used[Count(t.top, p)]
                                  ELSE IF Count(t.top, p) <= W THEN c ELSE "blank"

(* The first n columns from skip on are shown.                             *)
Window(s, skip) == SubSeq(s, skip + 1, Min2(Len(s), skip + (W - PromptLen)))

InRow(t, s, k, c) ==
  \E skip \in 0..k :
    /\ skip > 0 => PromptLen + k - skip = W - 1
    /\ t.row = t.top /\ t.col = PromptLen + k - skip /\ t.col < W
    /\ PromptLen + Len(s) < W => skip = 0
    /\ ScreenOf(t, Used(Window(s, skip)), c)

LEMMA WindowIs ==
  ASSUME settings \in Settings, NEW e, Writable(e), NEW skip \in 0..e.len, NEW n \in Nat,
         n = Min2(e.len - skip, W - PromptLen)
  PROVE  Window(Text(e), skip) = Bytes(e, skip, n) /\ Bytes(e, skip, n) \in Seq(Chars) /\ Len(Bytes(e, skip, n)) = n
<1>1. W \in Nat /\ PromptLen \in Nat /\ W > PromptLen /\ e.len \in Nat
  BY Widths DEF Writable
<1>2. PICK m \in Nat : m = Min2(e.len, skip + (W - PromptLen)) /\ m = skip + n /\ m <= e.len
  BY <1>1 DEF Min2
<1>3. PICK s \in Seq(Chars) : s = Text(e) /\ Len(s) = e.len
  BY DEF Writable
<1>4. Window(s, skip) = SubSeq(s, skip + 1, m)
  BY <1>2, <1>3 DEF Window
<1>5. SubSeq(s, skip + 1, m) = [i \in 1..(m - (skip + 1) + 1) |-> s[i + (skip + 1) - 1]]
  BY <1>1, <1>2, <1>3, SMTT(30)
<1>6. SubSeq(s, skip + 1, m) = [i \in 1..n |-> s[i + skip]]
  <2>1. m - (skip + 1) + 1 = n
    BY <1>2
  <2>2. \A i \in 1..n : i + (skip + 1) - 1 = i + skip
    OBVIOUS
  <2> QED
    BY <1>5, <2>1, <2>2
<1>7. \A i \in 1..n : s[i + skip] = e.buf[skip + i - 1] /\ s[i + skip] \in Chars
  <2> SUFFICES ASSUME NEW i \in 1..n PROVE s[i + skip] = e.buf[skip + i - 1] /\ s[i + skip] \in Chars
    OBVIOUS
  <2>1. i + skip \in 1..e.len
    BY <1>1, <1>2
  <2>2. s = [j \in 1..e.len |-> e.buf[0 + j - 1]]
    BY <1>3 DEF Text, Bytes
  <2>3. PICK j \in 1..e.len : j = i + skip
    BY <2>1
  <2>4. s[j] = e.buf[0 + j - 1]
    BY <2>2, <2>3
  <2>6. s[j] \in Chars
    BY <1>3, <2>3
  <2>5. 0 + j - 1 = skip + i - 1
    BY <1>1, <2>3
  <2> QED
    BY <2>3, <2>4, <2>5, <2>6
<1>8. Bytes(e, skip, n) = [i \in 1..n |-> s[i + skip]]
  BY <1>7 DEF Bytes
<1>9. Bytes(e, skip, n) \in Seq(Chars) /\ Len(Bytes(e, skip, n)) = n
  BY <1>7, <1>8
<1> QED
  BY <1>3, <1>4, <1>6, <1>8, <1>9

(* ---- drawing in one row -------------------------------------------------------- *)
OneRow(t) ==
  /\ t \in Terms /\ t.top \in {0, 1} /\ t.row = t.top
  /\ \A p \in Cells : (p[1] < t.top => t.cell[p] = "old") /\ (p[1] > t.top => t.cell[p] = "blank")

(* What is on the screen once s has been written from the start of the top *)
(* row on.                                                                 *)
LEMMA TypedFromTop ==
  ASSUME settings \in Settings, NEW t \in Terms, t.col = 0, t.row = t.top, NEW s \in Seq(Codes), Len(s) > 0
  PROVE  /\ Type(t, s) \in Terms /\ Type(t, s).top = t.top
         /\ (Type(t, s).row - t.top) * W + Type(t, s).col = Len(s)
         /\ Type(t, s).col \in 1..W
         /\ \A p \in Cells : Type(t, s).cell[p] =
              IF p[1] >= t.top /\ Count(t.top, p) <= Len(s) THEN s[Count(t.top, p)] ELSE t.cell[p]
<1>1. t.top \in Int /\ t.top \in Nat /\ W \in Nat /\ Len(s) \in Nat
  BY TermIs, Widths
<1>2. Stands(t, t.top, 0)
  <2>1. (t.top - t.top) * W = 0
    BY <1>1
  <2> QED
    BY <1>1, <2>1 DEF Stands
<1>3. PICK u : u = Type(t, s)
  OBVIOUS
<1>4. Written(t, u, t.top, 0, s, Len(s))
  BY <1>1, <1>2, <1>3, TypeIs
<1>5. u \in Terms /\ u.top = t.top /\ u.col > 0 /\ u.col \in Nat
  BY <1>4, TermIs DEF Written
<1>6. (u.row - t.top) * W + u.col = Len(s) /\ u.col <= W
  BY <1>1, <1>4 DEF Written, Stands
<1>7. ASSUME NEW p \in Cells
      PROVE  u.cell[p] = IF p[1] >= t.top /\ Count(t.top, p) <= Len(s) THEN s[Count(t.top, p)] ELSE t.cell[p]
  <2>1. u.cell[p] = IF 0 < Count(t.top, p) /\ Count(t.top, p) <= 0 + Len(s) THEN s[Count(t.top, p) - 0] ELSE t.cell[p]
    BY <1>4 DEF Written
  <2>2. PICK n \in Int : n = Count(t.top, p)
    BY <1>1, CountIs
  <2>3. 0 < n <=> p[1] >= t.top
    <3>1. (p[1] < t.top => n <= 0) /\ (p[1] >= t.top => n >= 1)
      BY <1>1, <2>2, CountIs
    <3>2. p[1] \in Int
      BY CellsAre
    <3> QED
      BY <1>1, <2>2, <3>1, <3>2
  <2>4. n - 0 = n /\ 0 + Len(s) = Len(s)
    BY <1>1, <2>2
  <2> QED
    BY <2>1, <2>2, <2>3, <2>4
<1> QED
  BY <1>1, <1>3, <1>5, <1>6, <1>7

LEMMA SkipIs ==
  ASSUME settings \in Settings, NEW pos \in Nat, NEW len \in Nat, pos <= len
  PROVE  \E skip \in 0..pos, n \in Nat :
           /\ skip = Max({0, PromptLen + pos - settings.cols + 1})
           /\ n = Min2(len - skip, settings.cols - PromptLen) /\ n = Min2(len - skip, W - PromptLen)
           /\ skip > 0 => PromptLen + pos - skip = W - 1
           /\ PromptLen + pos - skip \in 0..(W - 1)
           /\ PromptLen + n <= W
           /\ PromptLen + len < W => skip = 0 /\ n = len
<1>1. settings.cols = W /\ W \in Nat /\ W > PromptLen /\ PromptLen \in Nat
  BY Widths DEF W
<1>2. PICK w \in Nat, k \in Nat : w = W /\ k = PromptLen /\ w > k
  BY <1>1
<1>3. PICK m \in Int : m = k + pos - w + 1
  BY <1>2
<1>4. Max({0, m}) = IF 0 >= m THEN 0 ELSE m
  BY MaxIs2
<1>5. m <= pos
  BY <1>2, <1>3
<1>6. PICK skip \in 0..pos : skip = IF 0 >= m THEN 0 ELSE m
  <2>1. CASE 0 >= m
    BY <2>1
  <2>2. CASE ~(0 >= m)
    BY <1>3, <1>5, <2>2
  <2> QED
    BY <2>1, <2>2
<1>7. PICK n \in Nat : n = IF len - skip < w - k THEN len - skip ELSE w - k
  BY <1>2, <1>6
<1>8. k + n <= w /\ (k + len < w => skip = 0 /\ n = len)
  BY <1>2, <1>3, <1>6, <1>7
<1>9. (skip > 0 => k + pos - skip = w - 1) /\ k + pos - skip \in 0..(w - 1)
  BY <1>2, <1>3, <1>6
<1>10. skip = Max({0, k + pos - w + 1}) /\ n = Min2(len - skip, w - k)
  BY <1>3, <1>4, <1>6, <1>7 DEF Min2
<1>11. w = settings.cols
  BY <1>1, <1>2
<1> QED
  BY <1>2, <1>8, <1>9, <1>10, <1>11

LEMMA SingleIs ==
  ASSUME settings \in Settings, NEW t, OneRow(t), NEW e, Writable(e), NEW hints
  PROVE  InRow(refreshSingleLine(e, t, TRUE, hints), Text(e), e.pos, Fill(e.len, hints))
<1>1. W = settings.cols /\ W \in Nat /\ W > PromptLen /\ PromptLen \in Nat /\ PromptLen > 0 /\ e.len \in Nat /\ e.pos \in 0..e.len
  BY Widths DEF W, Writable
<1>2. PICK skip \in 0..e.pos, n \in Nat :
        /\ skip = Max({0, PromptLen + e.pos - settings.cols + 1})
        /\ n = Min2(e.len - skip, settings.cols - PromptLen) /\ n = Min2(e.len - skip, W - PromptLen)
        /\ skip > 0 => PromptLen + e.pos - skip = W - 1
        /\ PromptLen + e.pos - skip \in 0..(W - 1)
        /\ PromptLen + n <= W
        /\ PromptLen + e.len < W => skip = 0 /\ n = e.len
  <2>1. PICK pos \in Nat, len \in Nat : pos = e.pos /\ len = e.len /\ pos <= len
    BY <1>1
  <2>2. PICK skip \in 0..pos, n \in Nat :
          /\ skip = Max({0, PromptLen + pos - settings.cols + 1})
          /\ n = Min2(len - skip, settings.cols - PromptLen) /\ n = Min2(len - skip, W - PromptLen)
          /\ skip > 0 => PromptLen + pos - skip = W - 1
          /\ PromptLen + pos - skip \in 0..(W - 1)
          /\ PromptLen + n <= W
          /\ PromptLen + len < W => skip = 0 /\ n = len
    BY <2>1, SkipIs, ZenonT(40)
  <2> QED
    BY <2>1, <2>2
<1>3. PICK win \in Seq(Chars) : win = Bytes(e, skip, n) /\ win = Window(Text(e), skip) /\ Len(win) = n
  <2>1. skip \in 0..e.len
    BY <1>1
  <2> QED
    BY <1>2, <2>1, WindowIs
<1>4. PICK s \in Seq(Codes) : s = Used(win) \o HintFor(e.len, hints)
  BY <1>1, HintedIs
<1>5. PICK h \in Nat : h = HintLen(e.len, hints)
  BY <1>1, HintIs
<1>6. Len(s) = PromptLen + n + h /\ \A i \in 1..(PromptLen + n + h) : s[i] = IF i <= PromptLen + n THEN Used(win)[i] ELSE "hint"
  <2>1. PICK len \in Nat : len = e.len
    BY <1>1
  <2>2. PICK m \in Nat : m = Len(win) /\ m = n
    BY <1>3
  <2>3. s = Used(win) \o HintFor(len, hints) /\ h = HintLen(len, hints)
    BY <1>4, <1>5, <2>1
  <2>4. /\ Len(s) = PromptLen + Len(win) + HintLen(len, hints)
        /\ \A i \in 1..(PromptLen + Len(win) + HintLen(len, hints)) :
             s[i] = IF i <= PromptLen + Len(win) THEN Used(win)[i] ELSE "hint"
    BY <1>3, <2>1, <2>3, HintedIs, SMTT(30)
  <2> QED
    BY <2>2, <2>3, <2>4
<1>7. /\ PromptLen + n + h <= W /\ Len(s) > 0
      /\ hints /\ PromptLen + e.len < W => PromptLen + n + h = W
      /\ ~(hints /\ PromptLen + e.len < W) => h = 0
  <2>1. PICK w \in Nat, k \in Nat, len \in Nat : w = W /\ k = PromptLen /\ len = e.len /\ k > 0
    BY <1>1
  <2>2. h = IF hints /\ k + len < w THEN w - (k + len) ELSE 0
    BY <1>5, <2>1 DEF HintLen
  <2>3. Len(s) = k + n + h /\ k + n <= w /\ (k + len < w => n = len)
    BY <1>2, <1>6, <2>1
  <2>0. n \in Nat
    BY <1>2
  <2>4. CASE hints /\ k + len < w
    <3>1. h = w - (k + len) /\ n = len
      BY <2>2, <2>3, <2>4
    <3>2. k + n + h = w
      BY <1>5, <2>0, <2>1, <3>1, SMTT(30)
    <3>3. Len(s) = w /\ w >= k
      BY <2>0, <2>1, <2>3, <3>2
    <3>4. Len(s) > 0
      BY <2>1, <3>3
    <3> QED
      BY <2>1, <2>4, <3>2, <3>4
  <2>5. CASE ~(hints /\ k + len < w)
    <3>1. h = 0
      BY <2>2, <2>5
    <3>2. k + n + h <= w /\ Len(s) > 0
      BY <2>0, <2>1, <2>3, <3>1
    <3> QED
      BY <2>1, <2>5, <3>1, <3>2
  <2> QED
    BY <2>4, <2>5
<1>8. PICK t1 : t1 = Return(t)
  OBVIOUS
<1>9. t1 \in Terms /\ t1.col = 0 /\ t1.row = t.top /\ t1.top = t.top /\ t1.cell = t.cell
  <2>1. t \in Terms /\ t.row = t.top
    BY DEF OneRow
  <2>2. t1 = Term(t.cell, t.row, 0, t.top)
    BY <1>8, <2>1, TermIs
  <2> QED
    BY <2>1, <2>2 DEF Term, Terms
<1>10. PICK t2 : t2 = Type(t1, s)
  OBVIOUS
<1>11. /\ t2 \in Terms /\ t2.top = t.top
       /\ (t2.row - t.top) * W + t2.col = Len(s)
       /\ t2.col \in 1..W
       /\ \A p \in Cells : t2.cell[p] = IF p[1] >= t.top /\ Count(t.top, p) <= Len(s) THEN s[Count(t.top, p)] ELSE t.cell[p]
  BY <1>7, <1>9, <1>10, TypedFromTop
<1>12. t2.row = t.top /\ t2.col = Len(s)
  <2>1. t.top \in Nat /\ t2.row \in Nat
    BY <1>9, <1>11, TermIs
  <2>2. PICK w \in Nat, m \in Nat : w = W /\ w > 0 /\ m = Len(s) /\ m > 0 /\ m <= w
    BY <1>1, <1>6, <1>7
  <2>3. PICK a \in Int : a = t2.row - t.top
    BY <2>1
  <2>4. PICK c \in 1..w : c = t2.col
    BY <1>11, <2>2
  <2>5. a * w + c = m /\ a * w \in Int /\ 0 * w = 0
    BY <1>11, <2>2, <2>3, <2>4
  <2>6. PICK b \in 0..(w - 1), d \in 0..(w - 1) : b = c - 1 /\ d = m - 1
    <3>1. c - 1 \in 0..(w - 1)
      BY <2>2, <2>4
    <3>2. m - 1 \in 0..(w - 1)
      BY <2>2
    <3> QED
      BY <3>1, <3>2
  <2>7. a * w + b = 0 * w + d
    BY <2>2, <2>5, <2>6
  <2>8. PICK z \in Int : z = 0 /\ a * w + b = z * w + d
    BY <2>7
  <2>9. a = z /\ b = d
    BY <2>2, <2>8, SameCell
  <2>10. a = 0 /\ c = m
    BY <2>2, <2>6, <2>8, <2>9
  <2> QED
    BY <2>1, <2>2, <2>3, <2>4, <2>10
<1>13. PICK t3 : t3 = EraseRight(t2)
  OBVIOUS
<1>14. /\ t3 \in Terms /\ t3.row = t.top /\ t3.top = t.top
       /\ \A p \in Cells : t3.cell[p] = IF p[1] = t.top /\ p[2] >= Len(s) THEN "blank" ELSE t2.cell[p]
  BY <1>11, <1>12, <1>13, EraseIs
<1>15. PICK t5 : t5 = Right(Return(t3), PromptLen + e.pos - skip)
  OBVIOUS
<1>16. t5 \in Terms /\ t5.row = t.top /\ t5.top = t.top /\ t5.cell = t3.cell /\ t5.col = PromptLen + e.pos - skip
  <2>1. Return(t3) = Term(t3.cell, t.top, 0, t.top)
    BY <1>14, TermIs
  <2>2. t3.cell \in [Cells -> Codes] /\ t.top \in Nat
    BY <1>14, TermIs
  <2>3. PICK t4 \in Terms : t4 = Term(t3.cell, t.top, 0, t.top) /\ t4 = Return(t3)
    BY <2>1, <2>2 DEF Term, Terms
  <2>4. PICK d \in 0..(W - 1) : d = PromptLen + e.pos - skip
    BY <1>2
  <2>5. t5 = Term(t3.cell, t.top, Min2(W - 1, 0 + d), t.top)
    <3>1. Right(t4, d) = Term(t4.cell, t4.row, Min2(W - 1, t4.col + d), t4.top)
      BY TermIs
    <3> QED
      BY <1>15, <2>3, <2>4, <3>1 DEF Term
  <2>6. Min2(W - 1, 0 + d) = d
    BY <1>1 DEF Min2
  <2> QED
    BY <1>1, <2>2, <2>4, <2>5, <2>6 DEF Term, Terms
<1>17. refreshSingleLine(e, t, TRUE, hints) = t5
  <2>1. Prompt \o Masked(Bytes(e, skip, n)) \o Hint(e, hints) = s
    BY <1>3, <1>4 DEF Used, Hint, HintFor, W
  <2> QED
    BY <1>2, <1>8, <1>10, <1>13, <1>15, <2>1 DEF refreshSingleLine
<1>18. ScreenOf(t5, Used(win), Fill(e.len, hints))
  <2>1. Len(Used(win)) = PromptLen + n
    BY <1>3, UsedIs
  <2>2. ASSUME NEW p \in Cells
        PROVE  t5.cell[p] = IF p[1] < t5.top THEN "old"
                            ELSE IF Count(t5.top, p) <= Len(Used(win)) THEN Used(win)[Count(t5.top, p)]
                            ELSE IF Count(t5.top, p) <= W THEN Fill(e.len, hints) ELSE "blank"
    <3>0. PICK k \in Int, x \in Int, y \in 0..(W - 1), top \in Int : k = Count(t.top, p) /\ x = p[1] /\ y = p[2] /\ top = t.top
      BY <1>9, TermIs, CountIs, CellsAre
    <3>1. /\ x < top => k <= 0 /\ t.cell[p] = "old"
          /\ x > top => k > W /\ t.cell[p] = "blank"
          /\ x = top => k = y + 1
          /\ x >= top => k >= 1
      BY <3>0, CountIs DEF OneRow
    <3>2. t5.cell[p] = IF x = top /\ y >= Len(s) THEN "blank"
                       ELSE IF x >= top /\ k <= Len(s) THEN s[k] ELSE t.cell[p]
      BY <1>11, <1>14, <1>16, <3>0
    <3>3. CASE x < top
      <4>1. t5.cell[p] = "old"
        BY <3>1, <3>2, <3>3
      <4> QED
        BY <1>16, <3>0, <3>3, <4>1
    <3>4. CASE x > top
      <4>1. t5.cell[p] = "blank" /\ ~(k <= PromptLen + n) /\ ~(k <= W) /\ ~(x < top)
        BY <1>1, <1>2, <1>6, <1>7, <3>1, <3>2, <3>4, SMTT(30)
      <4> QED
        BY <1>16, <2>1, <3>0, <4>1
    <3>5. CASE x = top
      <4>1. k = y + 1 /\ k <= W /\ k >= 1 /\ ~(x < top)
        BY <1>1, <3>1, <3>5
      <4>2. CASE k <= PromptLen + n
        <5>1. t5.cell[p] = s[k] /\ s[k] = Used(win)[k]
          BY <1>1, <1>6, <3>2, <3>5, <4>1, <4>2
        <5> QED
          BY <1>16, <2>1, <3>0, <4>1, <4>2, <5>1
      <4>3. CASE k > PromptLen + n /\ hints /\ PromptLen + e.len < W
        <5>1. t5.cell[p] = s[k] /\ s[k] = "hint"
          BY <1>1, <1>6, <1>7, <3>2, <3>5, <4>1, <4>3
        <5>2. Fill(e.len, hints) = "hint" /\ ~(k <= PromptLen + n)
          BY <1>1, <4>3 DEF Fill
        <5> QED
          BY <1>16, <2>1, <3>0, <4>1, <5>1, <5>2
      <4>4. CASE k > PromptLen + n /\ ~(hints /\ PromptLen + e.len < W)
        <5>1. t5.cell[p] = "blank"
          BY <1>1, <1>6, <1>7, <3>2, <3>5, <4>1, <4>4
        <5>2. Fill(e.len, hints) = "blank" /\ ~(k <= PromptLen + n)
          BY <1>1, <4>4 DEF Fill
        <5> QED
          BY <1>16, <2>1, <3>0, <4>1, <5>1, <5>2
      <4> QED
        BY <1>1, <4>2, <4>3, <4>4
    <3> QED
      BY <3>3, <3>4, <3>5
  <2> QED
    BY <1>16, <2>2 DEF ScreenOf, OneRow
<1> QED
  <2>1. /\ skip > 0 => PromptLen + e.pos - skip = W - 1
        /\ t5.row = t5.top /\ t5.col = PromptLen + e.pos - skip /\ t5.col < W
        /\ PromptLen + Len(Text(e)) < W => skip = 0
        /\ ScreenOf(t5, Used(Window(Text(e), skip)), Fill(e.len, hints))
    <3>1. t5.col \in 0..(W - 1)
      BY <1>2, <1>16
    <3>2. t5.col < W
      BY <1>1, <3>1
    <3>3. Len(Text(e)) = e.len
      BY DEF Writable
    <3>4. t5.row = t5.top /\ t5.col = PromptLen + e.pos - skip
      BY <1>16
    <3>5. ScreenOf(t5, Used(Window(Text(e), skip)), Fill(e.len, hints))
      BY <1>3, <1>18
    <3> QED
      BY <1>2, <3>2, <3>3, <3>4, <3>5
  <2> QED
    BY <1>17, <2>1 DEF InRow

(* Nothing is drawn below the rows above.                                  *)
Empty(t) ==
  /\ t \in Terms /\ t.top \in {0, 1} /\ t.row = t.top /\ t.col = 0
  /\ \A p \in Cells : t.cell[p] = IF p[1] < t.top THEN "old" ELSE "blank"

LEMMA EmptyIsOneRow ==
  ASSUME settings \in Settings, NEW t, Empty(t)
  PROVE  OneRow(t)
<1>1. t \in Terms /\ t.top \in {0, 1} /\ t.row = t.top
  BY DEF Empty
<1>2. ASSUME NEW p \in Cells PROVE (p[1] < t.top => t.cell[p] = "old") /\ (p[1] > t.top => t.cell[p] = "blank")
  <2>1. t.cell[p] = IF p[1] < t.top THEN "old" ELSE "blank"
    BY DEF Empty
  <2>2. p[1] \in Int /\ t.top \in Int
    BY <1>1, CellsAre
  <2> QED
    BY <2>1, <2>2
<1> QED
  BY <1>1, <1>2 DEF OneRow

(* What is shown of the line fits the row.                                 *)
LEMMA WindowFits ==
  ASSUME settings \in Settings, NEW s \in Seq(Chars), NEW skip \in Nat
  PROVE  \E n \in Nat : Window(s, skip) \in Seq(Chars) /\ Len(Window(s, skip)) = n /\ PromptLen + n <= W
<1>1. PICK win : win = Window(s, skip)
  OBVIOUS
<1>2. PICK n \in Nat : win \in Seq(Chars) /\ Len(win) = n /\ PromptLen + n <= W
  <2>1. PICK w \in Nat, x \in Nat : w = W /\ x = PromptLen /\ w > x
    BY Widths
  <2>2. PICK m \in Int : m = Min2(Len(s), skip + (w - x)) /\ m <= Len(s) /\ m <= skip + (w - x)
    BY <2>1 DEF Min2
  <2>3. win = SubSeq(s, skip + 1, m)
    BY <1>1, <2>1, <2>2 DEF Window
  <2>4. PICK n \in Nat : n = IF m <= skip THEN 0 ELSE m - skip
    <3>1. CASE m <= skip
      BY <3>1
    <3>2. CASE ~(m <= skip)
      BY <2>2, <3>2
    <3> QED
      BY <3>1, <3>2
  <2>5. win \in Seq(Chars) /\ Len(win) = n
    BY <2>2, <2>3, <2>4, SMTT(30)
  <2>6. x + n <= w
    BY <2>1, <2>2, <2>4, SMTT(30)
  <2> QED
    BY <2>1, <2>5, <2>6
<1> QED
  BY <1>1, <1>2

LEMMA InRowIsOneRow ==
  ASSUME settings \in Settings, NEW t, NEW s \in Seq(Chars), NEW k \in Nat, NEW c, InRow(t, s, k, c)
  PROVE  OneRow(t)
<1>1. PICK skip \in 0..k : t.row = t.top /\ ScreenOf(t, Used(Window(s, skip)), c)
  BY DEF InRow
<1>2. PICK win : win = Window(s, skip)
  OBVIOUS
<1>3. PICK n \in Nat : win \in Seq(Chars) /\ Len(win) = n /\ PromptLen + n <= W
  <2>1. skip \in Nat
    BY <1>1
  <2> QED
    BY <1>2, <2>1, WindowFits
<1>4. PICK u : u = Used(win) /\ Len(u) = PromptLen + n
  BY <1>3, UsedIs
<1>5. ScreenOf(t, u, c)
  BY <1>1, <1>2, <1>4
<1>6. t \in Terms /\ t.top \in {0, 1}
  BY <1>5 DEF ScreenOf
<1>7. ASSUME NEW p \in Cells PROVE (p[1] < t.top => t.cell[p] = "old") /\ (p[1] > t.top => t.cell[p] = "blank")
  <2>1. t.cell[p] = IF p[1] < t.top THEN "old"
                    ELSE IF Count(t.top, p) <= Len(u) THEN u[Count(t.top, p)]
                    ELSE IF Count(t.top, p) <= W THEN c ELSE "blank"
    BY <1>5 DEF ScreenOf
  <2>2. PICK a \in Int, top \in Int, k1 \in Int : a = p[1] /\ top = t.top /\ k1 = Count(t.top, p)
    BY <1>6, CellsAre, CountIs
  <2>3. p[1] > t.top => Count(t.top, p) > W
    <3>1. p[1] > top => Count(top, p) > W
      BY CountIs
    <3> QED
      BY <2>2, <3>1
  <2>4. PICK w \in Nat, m \in Nat : w = W /\ m = Len(u) /\ m <= w
    BY <1>3, <1>4, Widths
  <2>5. CASE a > top
    <3>1. k1 > w /\ ~(k1 <= w) /\ ~(k1 <= m) /\ ~(a < top)
      BY <2>2, <2>3, <2>4, <2>5
    <3> QED
      BY <2>1, <2>2, <2>4, <3>1
  <2>6. CASE a <= top
    BY <2>1, <2>2, <2>6
  <2> QED
    BY <2>2, <2>5, <2>6
<1> QED
  BY <1>1, <1>6, <1>7 DEF OneRow

LEMMA HiddenRowIs ==
  ASSUME settings \in Settings, NEW t, OneRow(t), NEW e, NEW hints
  PROVE  Empty(refreshSingleLine(e, t, FALSE, hints))
<1>1. t \in Terms /\ t.top \in {0, 1} /\ t.row = t.top
  BY DEF OneRow
<1>2. PICK u : u = Return(t)
  OBVIOUS
<1>3. u \in Terms /\ u.row = t.top /\ u.col = 0 /\ u.top = t.top /\ u.cell = t.cell
  <2>1. u = Term(t.cell, t.row, 0, t.top)
    BY <1>1, <1>2, TermIs
  <2> QED
    BY <1>1, <2>1 DEF Term, Terms
<1>4. PICK v : v = EraseRight(u)
  OBVIOUS
<1>5. /\ v \in Terms /\ v.row = t.top /\ v.col = 0 /\ v.top = t.top
      /\ \A p \in Cells : v.cell[p] = IF p[1] = u.row /\ p[2] >= u.col THEN "blank" ELSE u.cell[p]
  BY <1>3, <1>4, EraseIs
<1>6. ASSUME NEW p \in Cells PROVE v.cell[p] = IF p[1] < v.top THEN "old" ELSE "blank"
  <2>1. v.cell[p] = IF p[1] = t.top /\ p[2] >= 0 THEN "blank" ELSE t.cell[p]
    BY <1>3, <1>5
  <2>2. (p[1] < t.top => t.cell[p] = "old") /\ (p[1] > t.top => t.cell[p] = "blank")
    BY DEF OneRow
  <2>3. PICK a \in Int, b \in Nat, top \in Int : a = p[1] /\ b = p[2] /\ top = t.top
    <3>1. W \in Nat
      BY Widths
    <3> QED
      BY <1>1, <3>1, CellsAre
  <2>4. b >= 0
    OBVIOUS
  <2> QED
    BY <1>5, <2>1, <2>2, <2>3, <2>4
<1>7. Empty(v)
  BY <1>1, <1>5, <1>6 DEF Empty
<1>8. refreshSingleLine(e, t, FALSE, hints) = v
  BY <1>2, <1>4 DEF refreshSingleLine
<1> QED
  BY <1>7, <1>8

(* A character at the end of a short line.                                 *)
LEMMA AppendIs ==
  ASSUME settings \in Settings, NEW t, NEW s \in Seq(Chars), InRow(t, s, Len(s), "blank"),
         NEW c \in Chars, PromptLen + Len(s) + 1 < W
  PROVE  InRow(Type(t, Masked(<<c>>)), Append(s, c), Len(s) + 1, "blank")
<1>1. PICK w \in Nat, k \in Nat, m \in Nat : w = W /\ k = PromptLen /\ m = Len(s) /\ k + m + 1 < w
  BY Widths
<1>2. PICK skip \in 0..m :
        /\ t.row = t.top /\ t.col = k + m - skip
        /\ k + m < w => skip = 0
        /\ ScreenOf(t, Used(Window(s, skip)), "blank")
  BY <1>1 DEF InRow
<1>3. skip = 0 /\ t.col = k + m
  BY <1>1, <1>2
<1>4. Window(s, 0) = s
  <2>1. Min2(Len(s), 0 + (W - PromptLen)) = m
    BY <1>1 DEF Min2
  <2>2. SubSeq(s, 0 + 1, m) = s
    BY <1>1
  <2> QED
    BY <2>1, <2>2 DEF Window
<1>5. PICK x \in Seq(Chars) : x = Append(s, c)
  <2>1. Append(s, c) \in Seq(Chars)
    OBVIOUS
  <2> QED
    BY <2>1
<1>6. Len(x) = m + 1 /\ x[m + 1] = c /\ \A i \in 1..m : x[i] = s[i]
  BY <1>1, <1>5
<1>7. Window(x, 0) = x
  <2>1. Min2(Len(x), 0 + (W - PromptLen)) = m + 1
    BY <1>1, <1>6 DEF Min2
  <2>2. SubSeq(x, 0 + 1, m + 1) = x
    BY <1>6
  <2> QED
    BY <2>1, <2>2 DEF Window
<1>8. PICK u : u = Used(s) /\ Len(u) = k + m
  BY <1>1, UsedIs
<1>9. PICK v : v = Used(x) /\ Len(v) = k + m + 1
  BY <1>1, <1>6, UsedIs
<1>10. PICK d \in Codes : d = IF settings.mask THEN "star" ELSE c
  BY DEF Codes
<1>11. v[k + m + 1] = d /\ \A i \in 1..(k + m) : v[i] = u[i]
  <2>1. \A i \in 1..k : v[i] = "prompt" /\ u[i] = "prompt"
    BY <1>1, <1>8, <1>9, UsedIs
  <2>2. \A i \in 1..Len(x) : Used(x)[PromptLen + i] = IF settings.mask THEN "star" ELSE x[i]
    BY UsedIs
  <2>3. \A i \in 1..Len(s) : Used(s)[PromptLen + i] = IF settings.mask THEN "star" ELSE s[i]
    BY UsedIs
  <2>4. ASSUME NEW j \in 1..m PROVE v[k + j] = u[k + j]
    <3>1. j \in 1..Len(x) /\ j \in 1..Len(s)
      BY <1>1, <1>6
    <3> QED
      BY <1>1, <1>6, <1>8, <1>9, <2>2, <2>3, <3>1
  <2>5. ASSUME NEW i \in 1..(k + m) PROVE v[i] = u[i]
    <3>1. CASE i <= k
      BY <2>1, <3>1
    <3>2. CASE i > k
      <4>1. PICK j \in 1..m : i = k + j
        <5>1. i - k \in 1..m /\ i = k + (i - k)
          BY <1>1, <3>2
        <5> QED
          BY <5>1
      <4> QED
        BY <2>4, <4>1
    <3> QED
      BY <3>1, <3>2
  <2>6. v[k + (m + 1)] = d
    <3>1. PICK j \in 1..Len(x) : j = m + 1
      BY <1>6
    <3>2. Used(x)[PromptLen + j] = IF settings.mask THEN "star" ELSE x[j]
      BY <2>2
    <3> QED
      BY <1>1, <1>6, <1>9, <1>10, <3>1, <3>2
  <2>7. k + (m + 1) = k + m + 1
    BY <1>1
  <2> QED
    BY <2>5, <2>6, <2>7
<1>12. PICK y \in Seq(Codes) : y = Masked(<<c>>) /\ Len(y) = 1 /\ y[1] = d
  <2>1. PICK z \in Seq(Chars) : z = <<c>> /\ Len(z) = 1 /\ z[1] = c
    <3>1. <<c>> \in Seq(Chars) /\ Len(<<c>>) = 1 /\ <<c>>[1] = c
      OBVIOUS
    <3> QED
      BY <3>1
  <2>2. 1 \in 1..Len(z)
    BY <2>1
  <2> QED
    BY <1>10, <2>1, <2>2, MaskedIs
<1>13. ScreenOf(t, u, "blank")
  BY <1>2, <1>3, <1>4, <1>8
<1>14. t \in Terms /\ t.top \in {0, 1}
  BY <1>13 DEF ScreenOf
<1>15. PICK r \in Int, n \in Int : r = t.top /\ n = k + m
  BY <1>1, <1>14
<1>16. Stands(t, r, n)
  <2>1. (r - r) * w = 0
    BY <1>1
  <2>2. n \in Nat /\ n <= w
    BY <1>1, <1>15
  <2>3. t.row = r /\ t.col = n /\ W = w
    BY <1>1, <1>2, <1>3, <1>15
  <2>4. (t.row - r) * W + t.col = 0 + n /\ 0 + n = n
    BY <2>1, <2>2, <2>3
  <2> QED
    BY <2>2, <2>3, <2>4 DEF Stands
<1>17. PICK t2 : t2 = Type(t, y)
  OBVIOUS
<1>18. Written(t, t2, r, n, y, Len(y))
  BY <1>14, <1>15, <1>16, <1>17, TypeIs
<1>19. t2 \in Terms /\ t2.top = t.top /\ Stands(t2, r, n + 1) /\ t2.col > 0
  <2>1. Written(t, t2, r, n, y, 1)
    BY <1>12, <1>18
  <2> QED
    BY <2>1 DEF Written
<1>20. t2.row = t.top /\ t2.col = k + m + 1
  <2>1. PICK a \in Int, e \in Nat : a = t2.row - r /\ e = t2.col /\ e > 0 /\ t2.row \in Nat
    BY <1>14, <1>15, <1>19, TermIs
  <2>2. a * w + e = n + 1 /\ a * w \in Int
    <3>1. (t2.row - r) * W + t2.col = n + 1
      BY <1>19 DEF Stands
    <3>2. t2.row - r = a /\ W = w /\ t2.col = e
      BY <1>1, <2>1
    <3>3. a * w \in Int
      BY <1>1, <2>1
    <3>4. a * w + e = n + 1
      BY <3>1, <3>2
    <3> QED
      BY <3>3, <3>4
  <2>0. e <= w
    BY <1>1, <1>19, <2>1 DEF Stands
  <2>3. PICK b \in 0..(w - 1) : b = e - 1
    <3>1. e - 1 \in 0..(w - 1)
      BY <1>1, <2>1, <2>0, SMTT(30)
    <3> QED
      BY <3>1
  <2>4. PICK f \in 0..(w - 1), z \in Int : f = n /\ z = 0
    <3>1. n \in 0..(w - 1)
      BY <1>1, <1>15
    <3> QED
      BY <3>1
  <2>5. a * w + b = z * w + f
    <3>1. z * w = 0
      BY <1>1, <2>4
    <3>2. PICK aw \in Int : aw = a * w
      BY <2>2
    <3>4. aw + e = n + 1
      BY <2>2, <3>2
    <3>5. n \in Int /\ e \in Int /\ aw \in Int
      BY <1>15, <2>1, <3>2
    <3>6. aw + (e - 1) = n /\ 0 + n = n
      BY <3>4, <3>5
    <3>3. aw + b = 0 + f
      BY <2>3, <2>4, <3>6
    <3> QED
      BY <3>1, <3>2, <3>3
  <2>6. a = z /\ b = f
    BY <1>1, <2>5, SameCell, SMTT(30)
  <2>7. t2.row = r
    BY <1>15, <2>1, <2>4, <2>6
  <2>8. e = n + 1
    BY <1>15, <2>1, <2>3, <2>4, <2>6
  <2> QED
    BY <1>1, <1>15, <2>1, <2>7, <2>8
<1>21. ASSUME NEW p \in Cells
       PROVE  t2.cell[p] = IF p[1] < t2.top THEN "old"
                           ELSE IF Count(t2.top, p) <= Len(v) THEN v[Count(t2.top, p)]
                           ELSE IF Count(t2.top, p) <= W THEN "blank" ELSE "blank"
  <2>1. PICK a \in Int, q \in Int : a = p[1] /\ q = Count(r, p)
    BY CellsAre, CountIs
  <2>2. (a < r => q <= 0) /\ (a >= r => q >= 1)
    BY <2>1, CountIs
  <2>3. t2.cell[p] = IF n < q /\ q <= n + 1 THEN y[q - n] ELSE t.cell[p]
    BY <1>12, <1>18, <2>1 DEF Written
  <2>4. t.cell[p] = IF a < r THEN "old" ELSE IF q <= k + m THEN u[q] ELSE "blank"
    BY <1>8, <1>13, <1>15, <2>1 DEF ScreenOf
  <2>5. CASE a < r
    <3>1. ~(n < q)
      BY <1>1, <1>15, <2>2, <2>5
    <3> QED
      BY <1>15, <1>19, <2>1, <2>3, <2>4, <2>5, <3>1
  <2>6. CASE a >= r
    <3>0. q >= 1 /\ ~(a < r)
      BY <2>2, <2>6
    <3>1. CASE q <= k + m
      <4>1. ~(n < q) /\ q \in 1..(k + m) /\ q <= k + m + 1
        BY <1>1, <1>15, <3>0, <3>1
      <4>2. t2.cell[p] = v[q]
        BY <1>11, <2>3, <2>4, <3>0, <3>1, <4>1
      <4> QED
        BY <1>9, <1>15, <1>19, <2>1, <3>0, <4>1, <4>2
    <3>2. CASE q = k + m + 1
      <4>1. n < q /\ q <= n + 1 /\ q - n = 1 /\ q <= k + m + 1
        BY <1>1, <1>15, <3>2
      <4>2. t2.cell[p] = v[q]
        BY <1>11, <1>12, <2>3, <3>2, <4>1
      <4> QED
        BY <1>9, <1>15, <1>19, <2>1, <3>0, <4>1, <4>2
    <3>3. CASE q > k + m + 1
      <4>1. ~(q <= n + 1) /\ ~(q <= k + m) /\ ~(q <= k + m + 1)
        BY <1>1, <1>15, <3>3
      <4>2. t2.cell[p] = "blank"
        BY <2>3, <2>4, <3>0, <4>1
      <4> QED
        BY <1>9, <1>15, <1>19, <2>1, <3>0, <4>1, <4>2
    <3>4. q <= k + m \/ q = k + m + 1 \/ q > k + m + 1
      <4>1. PICK z \in Nat : z = k + m
        BY <1>1
      <4>2. q <= z \/ q = z + 1 \/ q > z + 1
        BY <2>1, <4>1, SMTT(30)
      <4> QED
        BY <4>1, <4>2
    <3> QED
      BY <3>1, <3>2, <3>3, <3>4
  <2> QED
    BY <1>15, <2>1, <2>5, <2>6
<1>22. ScreenOf(t2, Used(Window(x, 0)), "blank")
  BY <1>7, <1>9, <1>14, <1>19, <1>21 DEF ScreenOf
<1>23. /\ t2.row = t2.top /\ t2.col = PromptLen + (m + 1) - 0 /\ t2.col < W
       /\ 0 \in 0..(m + 1) /\ ~(0 > 0)
  BY <1>1, <1>19, <1>20
<1>24. InRow(t2, x, m + 1, "blank")
  BY <1>22, <1>23 DEF InRow
<1> QED
  BY <1>1, <1>5, <1>12, <1>17, <1>24

(* ---- drawing in several rows ---------------------------------------------------- *)
LEMMA RowsOver ==
  ASSUME NEW w \in Nat, w > 0, NEW a \in Nat
  PROVE  (a + w) \div w = a \div w + 1
<1>1. PICK q \in Nat, r \in 0..(w - 1) : q = a \div w /\ r = a % w /\ a = w * q + r
  BY Divided
<1>2. PICK z \in Nat : z = w * q /\ q * w = z
  OBVIOUS
<1>3. (q + 1) * w = z + w
  BY <1>2
<1>4. PICK b \in Nat : b = a + w
  OBVIOUS
<1>5. b = (q + 1) * w + r
  BY <1>1, <1>2, <1>3, <1>4
<1>6. b \div w = q + 1
  BY <1>5, DivisionIs
<1> QED
  BY <1>1, <1>4, <1>6

(* How many rows a columns take.                                           *)
LEMMA RowsTaken ==
  ASSUME NEW w \in Nat, w > 0, NEW a \in Nat, a > 0
  PROVE  \E n \in Nat : /\ n = (a + w - 1) \div w /\ n > 0 /\ a <= n * w /\ (n - 1) * w < a
                        /\ n <= a \div w + 1
<1>1. PICK q \in Nat, r \in 0..(w - 1) : q = (a - 1) \div w /\ r = (a - 1) % w /\ a - 1 = w * q + r
  <2>1. PICK b \in Nat : b = a - 1
    OBVIOUS
  <2>2. PICK q \in Nat, r \in 0..(w - 1) : q = b \div w /\ r = b % w /\ b = w * q + r
    BY Divided
  <2> QED
    BY <2>1, <2>2
<1>2. PICK z \in Nat : z = w * q /\ q * w = z
  OBVIOUS
<1>3. (q + 1) * w = z + w
  BY <1>2
<1>4. PICK b \in Nat : b = a + w - 1
  OBVIOUS
<1>5. b = (q + 1) * w + r
  <2>1. a - 1 = z + r
    BY <1>1, <1>2
  <2> QED
    BY <1>3, <1>4, <2>1
<1>6. b \div w = q + 1
  BY <1>5, DivisionIs
<1>7. PICK n \in Nat : n = q + 1 /\ n > 0 /\ n - 1 = q
  OBVIOUS
<1>8. a <= n * w /\ (n - 1) * w < a
  <2>1. a - 1 = z + r /\ r < w
    BY <1>1, <1>2
  <2>2. n * w = z + w /\ (n - 1) * w = z
    BY <1>2, <1>3, <1>7
  <2>3. a <= z + w /\ z < a
    BY <2>1
  <2> QED
    BY <2>2, <2>3
<1>9. q <= a \div w
  <2>1. PICK d \in Nat : d = a - 1 /\ d <= a
    OBVIOUS
  <2>2. d \div w <= a \div w
    BY <2>1, DivisionOrder
  <2> QED
    BY <1>1, <2>1, <2>2
<1>10. a \div w \in Nat
  BY Division
<1>11. n <= a \div w + 1
  BY <1>7, <1>9, <1>10
<1> QED
  BY <1>4, <1>6, <1>7, <1>8, <1>11

(* In the last of them is the place behind the last column.                *)
LEMMA LastRow ==
  ASSUME NEW w \in Nat, w > 0, NEW a \in Nat, a > 0, NEW x \in Int, NEW c \in 1..w,
         x * w + c = a \/ (x * w + c = w /\ a < w)
  PROVE  x + 1 = (a + w - 1) \div w
<1>1. PICK z \in Int : z = x * w
  OBVIOUS
<1>2. (x + 1) * w = z + w
  BY <1>1
<1>3. PICK b \in Nat : b = a + w - 1
  OBVIOUS
<1>4. CASE x * w + c = a
  <2>1. PICK d \in 0..(w - 1) : d = c - 1
    <3>1. c - 1 \in 0..(w - 1)
      OBVIOUS
    <3> QED
      BY <3>1
  <2>2. z + c = a
    BY <1>1, <1>4
  <2>3. b = (x + 1) * w + d
    BY <1>2, <1>3, <2>1, <2>2
  <2>4. x + 1 \in Nat
    <3>1. CASE x < -1
      <4>1. (x + 2) * w <= 0
        <5>1. PICK y \in Nat : y = -(x + 2)
          BY <3>1
        <5>2. y * w >= 0 /\ (x + 2) * w = -(y * w)
          BY <5>1
        <5>3. y * w \in Int
          OBVIOUS
        <5> QED
          BY <5>2, <5>3
      <4>2. (x + 2) * w = z + w + w
        BY <1>1
      <4> QED
        BY <2>2, <4>1, <4>2
    <3> QED
      BY <3>1
  <2> QED
    BY <1>3, <2>3, <2>4, DivisionIs
<1>5. CASE x * w + c = w /\ a < w
  <2>1. PICK e \in 0..(w - 1), d \in 0..(w - 1), y \in Int : e = c - 1 /\ d = w - 1 /\ y = 0
    <3>1. c - 1 \in 0..(w - 1) /\ w - 1 \in 0..(w - 1)
      OBVIOUS
    <3> QED
      BY <3>1
  <2>2. z + c = w
    BY <1>1, <1>5
  <2>3. y * w = 0
    BY <2>1
  <2>4. x * w + e = y * w + d
    BY <1>1, <2>1, <2>2, <2>3
  <2>5. x = 0
    BY <2>1, <2>4, SameCell
  <2>6. PICK f \in 0..(w - 1), o \in Nat : f = a - 1 /\ o = 1
    <3>1. a - 1 \in 0..(w - 1)
      BY <1>5
    <3> QED
      BY <3>1
  <2>7. b = o * w + f
    <3>1. o * w = w
      BY <2>6
    <3> QED
      BY <1>3, <2>6, <3>1
  <2>8. b \div w = o
    BY <2>7, DivisionIs
  <2> QED
    BY <1>3, <2>5, <2>6, <2>8
<1> QED
  BY <1>4, <1>5

(* A place before the end is in one of the rows, unless the rows are full. *)
LEMMA PlaceInRows ==
  ASSUME NEW w \in Nat, w > 0, NEW a \in Nat, NEW b \in Nat, b <= a, NEW n \in Nat, a <= n * w
  PROVE  b \div w < n \/ (b = a /\ a % w = 0 /\ b \div w = n)
<1>1. PICK q \in Nat, r \in 0..(w - 1) : q = b \div w /\ r = b % w /\ b = w * q + r
  BY Divided
<1>2. PICK z \in Nat, y \in Nat : z = w * q /\ y = n * w
  OBVIOUS
<1>3. b = z + r /\ a <= y
  BY <1>1, <1>2
<1>4. CASE q > n
  <2>1. w * q >= w * (n + 1) /\ w * (n + 1) = n * w + w
    BY <1>4
  <2>2. z >= y + w
    BY <1>2, <2>1
  <2> QED
    BY <1>3, <2>2
<1>5. CASE q = n
  <2>1. z = y
    BY <1>2, <1>5
  <2>2. b = a /\ r = 0
    BY <1>3, <2>1
  <2> QED
    BY <1>1, <1>5, <2>2
<1>6. CASE q < n
  BY <1>1, <1>6
<1> QED
  BY <1>4, <1>5, <1>6

(* Clearing a row and going up.                                            *)
CleanUp(u) == Up(EraseRight(Return(u)), 1)
CleanRow(u) == EraseRight(Return(u))

LEMMA CleanRowIs ==
  ASSUME settings \in Settings, NEW u \in Terms
  PROVE  /\ CleanRow(u) \in Terms /\ CleanRow(u).top = u.top /\ CleanRow(u).row = u.row /\ CleanRow(u).col = 0
         /\ \A p \in Cells : CleanRow(u).cell[p] = IF p[1] = u.row THEN "blank" ELSE u.cell[p]
<1>1. PICK v : v = Return(u)
  OBVIOUS
<1>2. v \in Terms /\ v.row = u.row /\ v.col = 0 /\ v.top = u.top /\ v.cell = u.cell
  <2>1. v = Term(u.cell, u.row, 0, u.top) /\ u.cell \in [Cells -> Codes] /\ u.row \in Nat /\ u.top \in Nat
    BY <1>1, TermIs
  <2> QED
    BY <2>1 DEF Term, Terms
<1>3. PICK z : z = EraseRight(v)
  OBVIOUS
<1>4. /\ z \in Terms /\ z.row = u.row /\ z.col = 0 /\ z.top = u.top
      /\ \A p \in Cells : z.cell[p] = IF p[1] = v.row /\ p[2] >= v.col THEN "blank" ELSE v.cell[p]
  BY <1>2, <1>3, EraseIs
<1>5. ASSUME NEW p \in Cells PROVE z.cell[p] = IF p[1] = u.row THEN "blank" ELSE u.cell[p]
  <2>1. p[2] >= 0
    <3>1. W \in Nat
      BY Widths
    <3>2. p[2] \in 0..(W - 1)
      BY CellsAre
    <3> QED
      BY <3>1, <3>2
  <2> QED
    BY <1>2, <1>4, <2>1
<1>6. z = CleanRow(u)
  BY <1>1, <1>3 DEF CleanRow
<1> QED
  BY <1>4, <1>5, <1>6

LEMMA CleanUpIs ==
  ASSUME settings \in Settings, NEW u \in Terms
  PROVE  /\ CleanUp(u) \in Terms /\ CleanUp(u).top = u.top
         /\ CleanUp(u).row = (IF u.row = 0 THEN 0 ELSE u.row - 1)
         /\ \A p \in Cells : CleanUp(u).cell[p] = IF p[1] = u.row THEN "blank" ELSE u.cell[p]
<1>1. PICK v : v = CleanRow(u)
  OBVIOUS
<1>2. /\ v \in Terms /\ v.top = u.top /\ v.row = u.row /\ v.col = 0
      /\ \A p \in Cells : v.cell[p] = IF p[1] = u.row THEN "blank" ELSE u.cell[p]
  BY <1>1, CleanRowIs
<1>3. PICK n \in Nat : n = u.row
  BY TermIs
<1>4. PICK m \in Int : m = n - 1
  OBVIOUS
<1>5. Max({0, m}) = IF 0 >= m THEN 0 ELSE m
  BY MaxIs2
<1>6. PICK r \in Nat : r = Max({0, n - 1}) /\ r = IF n = 0 THEN 0 ELSE n - 1
  <2>1. CASE n = 0
    BY <1>4, <1>5, <2>1
  <2>2. CASE n # 0
    BY <1>4, <1>5, <2>2
  <2> QED
    BY <2>1, <2>2
<1>7. PICK z : z = Up(v, 1)
  OBVIOUS
<1>8. z = Term(v.cell, r, 0, u.top)
  <2>1. z = Term(v.cell, Max({0, v.row - 1}), v.col, v.top)
    BY <1>2, <1>7, TermIs
  <2> QED
    BY <1>2, <1>3, <1>6, <2>1
<1>9. z \in Terms /\ z.top = u.top /\ z.row = r /\ z.cell = v.cell
  <2>1. v.cell \in [Cells -> Codes] /\ u.top \in Nat
    BY <1>2, TermIs
  <2> QED
    BY <1>8, <2>1 DEF Term, Terms
<1>10. z = CleanUp(u)
  BY <1>1, <1>7 DEF CleanUp, CleanRow
<1> QED
  BY <1>2, <1>3, <1>6, <1>9, <1>10

(* j rows below and at r have been cleared.                                *)
UpFrom(r, j) == IF j <= r THEN r - j ELSE 0
Climbs(t, u, j) ==
  /\ u \in Terms /\ u.top = t.top /\ u.row = UpFrom(t.row, j)
  /\ \A p \in Cells : u.cell[p] = IF (p[1] > UpFrom(t.row, j) /\ p[1] <= t.row) \/ (j > t.row /\ p[1] <= t.row)
                                  THEN "blank" ELSE t.cell[p]

LEMMA ClimbStep ==
  ASSUME settings \in Settings, NEW t \in Terms, NEW u, NEW j \in Nat, Climbs(t, u, j)
  PROVE  Climbs(t, CleanUp(u), j + 1)
<1>1. PICK r \in Nat, x \in Nat, y \in Nat : r = t.row /\ x = UpFrom(r, j) /\ y = UpFrom(r, j + 1)
  <2>1. PICK r \in Nat : r = t.row
    BY TermIs
  <2>2. UpFrom(r, j) \in Nat /\ UpFrom(r, j + 1) \in Nat
    BY DEF UpFrom
  <2> QED
    BY <2>1, <2>2
<1>2. /\ u \in Terms /\ u.top = t.top /\ u.row = x
      /\ \A p \in Cells : u.cell[p] = IF (p[1] > x /\ p[1] <= r) \/ (j > r /\ p[1] <= r) THEN "blank" ELSE t.cell[p]
  BY <1>1 DEF Climbs
<1>3. PICK v : v = CleanUp(u)
  OBVIOUS
<1>4. /\ v \in Terms /\ v.top = t.top /\ v.row = (IF x = 0 THEN 0 ELSE x - 1)
      /\ \A p \in Cells : v.cell[p] = IF p[1] = x THEN "blank" ELSE u.cell[p]
  BY <1>2, <1>3, CleanUpIs
<1>5. x = IF j <= r THEN r - j ELSE 0
  BY <1>1 DEF UpFrom
<1>6. y = IF j + 1 <= r THEN r - (j + 1) ELSE 0
  BY <1>1 DEF UpFrom
<1>7. y = IF x = 0 THEN 0 ELSE x - 1
  BY <1>5, <1>6
<1>8. ASSUME NEW p \in Cells
      PROVE  v.cell[p] = IF (p[1] > y /\ p[1] <= r) \/ (j + 1 > r /\ p[1] <= r) THEN "blank" ELSE t.cell[p]
  <2>1. PICK a \in Nat : a = p[1]
    BY CellsAre
  <2>2. v.cell[p] = IF a = x THEN "blank" ELSE IF (a > x /\ a <= r) \/ (j > r /\ a <= r) THEN "blank" ELSE t.cell[p]
    BY <1>2, <1>4, <2>1
  <2>3. (a > y /\ a <= r) \/ (j + 1 > r /\ a <= r) <=> a = x \/ (a > x /\ a <= r) \/ (j > r /\ a <= r)
    <3>1. CASE j < r
      BY <1>5, <1>6, <3>1
    <3>2. CASE j = r
      BY <1>5, <1>6, <3>2
    <3>3. CASE j > r
      BY <1>5, <1>6, <3>3
    <3> QED
      BY <3>1, <3>2, <3>3
  <2> QED
    BY <2>1, <2>2, <2>3
<1> QED
  BY <1>1, <1>3, <1>4, <1>7, <1>8 DEF Climbs

(* The rows from x to r have been cleared, with the cursor at x.           *)
ClearedTo(t, u, x, r) ==
  /\ u \in Terms /\ u.top = t.top /\ u.row = x /\ u.col = 0
  /\ \A p \in Cells : u.cell[p] = IF p[1] >= x /\ p[1] <= r THEN "blank" ELSE t.cell[p]

LEMMA ClearedIs ==
  ASSUME settings \in Settings, NEW t \in Terms, NEW e,
         NEW d, d = Max({0, e.oldrows - (PromptLen + e.oldpos + settings.cols) \div settings.cols}),
         NEW n \in Nat, n = Max({0, e.oldrows - 1}),
         NEW r \in Nat, r = Min2(Rows, t.row + d)
  PROVE  ClearedTo(t, CleanRow(Cleared(e, t)), UpFrom(r, n), r)
<1>1. PICK a : a = Down(t, d)
  OBVIOUS
<1>2. a \in Terms /\ a.row = r /\ a.top = t.top /\ a.cell = t.cell
  <2>1. a = Term(t.cell, r, t.col, t.top) /\ t.cell \in [Cells -> Codes] /\ t.col \in Nat /\ t.top \in Nat
    BY <1>1, TermIs
  <2> QED
    BY <2>1 DEF Term, Terms
<1>3. PICK F : F = [p \in Nat \X Terms |-> CleanUp(p[2])]
  OBVIOUS
<1>4. F \in [Nat \X Terms -> Terms] /\ \A i \in Nat, u \in Terms : F[<<i, u>>] = CleanUp(u)
  <2>1. \A u \in Terms : CleanUp(u) \in Terms
    BY CleanUpIs
  <2> QED
    BY <1>3, <2>1
<1>5. PICK f \in [Nat -> Terms] : Recursive(f, Nat, a, F)
  BY <1>2, <1>4, RecursionOnNat
<1> DEFINE Follows(g) == g = [j \in Nat |-> IF j = 0 THEN Down(t, Max({0, e.oldrows - (PromptLen + e.oldpos + settings.cols) \div settings.cols}))
                                            ELSE Up(EraseRight(Return(g[j - 1])), 1)]
<1>6. Follows(f)
  <2>1. \A j \in Nat : f[j] = IF j = 0 THEN a ELSE F[<<j, f[j - 1]>>]
    BY <1>5 DEF Recursive
  <2>2. ASSUME NEW j \in Nat, j # 0 PROVE F[<<j, f[j - 1]>>] = Up(EraseRight(Return(f[j - 1])), 1)
    <3>1. PICK u \in Terms : u = f[j - 1]
      BY <2>2
    <3>2. F[<<j, u>>] = CleanUp(u)
      BY <1>4
    <3> QED
      BY <3>1, <3>2 DEF CleanUp
  <2>3. \A j \in Nat : f[j] = IF j = 0 THEN a ELSE Up(EraseRight(Return(f[j - 1])), 1)
    BY <2>1, <2>2
  <2>4. f = [j \in Nat |-> IF j = 0 THEN a ELSE Up(EraseRight(Return(f[j - 1])), 1)]
    BY <2>3
  <2> QED
    BY <1>1, <2>4
<1>7. PICK up : up = CHOOSE g : Follows(g)
  OBVIOUS
<1>8. Cleared(e, t) = up[n]
  BY <1>7 DEF Cleared
<1>9. Follows(up)
  <2> HIDE DEF Follows
  <2> QED
    BY <1>6, <1>7
<1>10. \A j \in Nat : up[j] = IF j = 0 THEN a ELSE CleanUp(up[j - 1])
  BY <1>1, <1>9 DEF CleanUp
<1>11. \A j \in Nat : Climbs(a, up[j], j)
  <2> DEFINE A == {j \in Nat : Climbs(a, up[j], j)}
  <2>1. ASSUME NEW j \in Nat, j = 0 \/ j - 1 \in A PROVE j \in A
    <3>1. CASE j = 0
      <4>1. up[0] = a
        BY <1>10
      <4>2. UpFrom(r, 0) = r
        BY DEF UpFrom
      <4>3. ASSUME NEW p \in Cells PROVE ~((p[1] > r /\ p[1] <= r) \/ (0 > r /\ p[1] <= r))
        <5>1. p[1] \in Int
          BY CellsAre
        <5> QED
          BY <5>1
      <4>4. Climbs(a, a, 0)
        BY <1>2, <4>2, <4>3 DEF Climbs
      <4> QED
        BY <3>1, <4>1, <4>4
    <3>2. CASE j # 0
      <4>1. PICK i \in Nat : i = j - 1 /\ i + 1 = j
        BY <3>2
      <4>2. Climbs(a, up[i], i)
        BY <2>1, <3>2, <4>1
      <4>3. PICK u : u = up[i]
        OBVIOUS
      <4>4. Climbs(a, CleanUp(u), i + 1)
        BY <1>2, <4>2, <4>3, ClimbStep
      <4>5. up[j] = CleanUp(u)
        BY <1>10, <3>2, <4>1, <4>3
      <4> QED
        BY <4>1, <4>4, <4>5
    <3> QED
      BY <3>1, <3>2
  <2>2. Nat \in SUBSET Nat /\ \A j \in Nat : j # 0 => j - 1 \in Nat
    OBVIOUS
  <2> HIDE DEF A
  <2>3. Nat \subseteq A
    BY <2>1, <2>2, Induction
  <2> QED
    BY <2>3 DEF A
<1>12. PICK x \in Nat : x = UpFrom(r, n)
  <2>1. UpFrom(r, n) \in Nat
    BY DEF UpFrom
  <2> QED
    BY <2>1
<1>13. PICK v : v = up[n]
  OBVIOUS
<1>14. /\ v \in Terms /\ v.top = t.top /\ v.row = x
       /\ \A p \in Cells : v.cell[p] = IF (p[1] > x /\ p[1] <= r) \/ (n > r /\ p[1] <= r) THEN "blank" ELSE t.cell[p]
  BY <1>2, <1>11, <1>12, <1>13, ZenonT(30) DEF Climbs
<1>15. PICK u : u = CleanRow(v)
  OBVIOUS
<1>16. /\ u \in Terms /\ u.top = t.top /\ u.row = x /\ u.col = 0
       /\ \A p \in Cells : u.cell[p] = IF p[1] = x THEN "blank" ELSE v.cell[p]
  BY <1>14, <1>15, CleanRowIs
<1>17. ASSUME NEW p \in Cells PROVE u.cell[p] = IF p[1] >= x /\ p[1] <= r THEN "blank" ELSE t.cell[p]
  <2>1. PICK b \in Nat : b = p[1]
    BY CellsAre
  <2>2. x = IF n <= r THEN r - n ELSE 0
    BY <1>12 DEF UpFrom
  <2>3. b = x \/ (b > x /\ b <= r) \/ (n > r /\ b <= r) <=> b >= x /\ b <= r
    <3>1. CASE n <= r
      BY <2>2, <3>1
    <3>2. CASE n > r
      BY <2>2, <3>2
    <3> QED
      BY <3>1, <3>2
  <2>4. u.cell[p] = IF b = x \/ (b > x /\ b <= r) \/ (n > r /\ b <= r) THEN "blank" ELSE t.cell[p]
    BY <1>14, <1>16, <2>1
  <2> QED
    BY <2>1, <2>3, <2>4
<1>18. ClearedTo(t, u, x, r)
  BY <1>16, <1>17 DEF ClearedTo
<1> QED
  BY <1>8, <1>12, <1>13, <1>15, <1>18

(* What the terminal and what is kept of it must be for it to be cleared.  *)
Clearable(e, t) ==
  /\ t \in Terms /\ t.top \in {0, 1}
  /\ \E d \in Nat, n \in Nat, r \in Nat :
       /\ d = Max({0, e.oldrows - (PromptLen + e.oldpos + settings.cols) \div settings.cols})
       /\ n = Max({0, e.oldrows - 1})
       /\ r = Min2(Rows, t.row + d)
       /\ UpFrom(r, n) = t.top
       /\ \A p \in Cells : (p[1] < t.top => t.cell[p] = "old") /\ (p[1] > r => t.cell[p] = "blank")

LEMMA ClearedIsEmpty ==
  ASSUME settings \in Settings, NEW t, NEW e, Clearable(e, t)
  PROVE  Empty(CleanRow(Cleared(e, t)))
<1>1. t \in Terms /\ t.top \in {0, 1}
  BY DEF Clearable
<1>2. PICK d \in Nat, n \in Nat, r \in Nat :
        /\ d = Max({0, e.oldrows - (PromptLen + e.oldpos + settings.cols) \div settings.cols})
        /\ n = Max({0, e.oldrows - 1})
        /\ r = Min2(Rows, t.row + d)
        /\ UpFrom(r, n) = t.top
        /\ \A p \in Cells : (p[1] < t.top => t.cell[p] = "old") /\ (p[1] > r => t.cell[p] = "blank")
  BY DEF Clearable
<1>3. PICK u \in Terms :
        /\ u = CleanRow(Cleared(e, t))
        /\ u.top = t.top /\ u.row = UpFrom(r, n) /\ u.col = 0
        /\ \A p \in Cells : u.cell[p] = IF p[1] >= UpFrom(r, n) /\ p[1] <= r THEN "blank" ELSE t.cell[p]
  <2>1. ClearedTo(t, CleanRow(Cleared(e, t)), UpFrom(r, n), r)
    BY <1>1, <1>2, ClearedIs
  <2> QED
    BY <2>1 DEF ClearedTo
<1>4. ASSUME NEW p \in Cells PROVE u.cell[p] = IF p[1] < u.top THEN "old" ELSE "blank"
  <2>1. PICK a \in Nat, top \in Nat : a = p[1] /\ top = t.top
    BY <1>1, CellsAre
  <2>2. u.cell[p] = IF a >= top /\ a <= r THEN "blank" ELSE t.cell[p]
    BY <1>2, <1>3, <2>1
  <2>3. (a < top => t.cell[p] = "old") /\ (a > r => t.cell[p] = "blank")
    BY <1>2, <2>1
  <2>4. CASE a < top
    BY <1>3, <2>1, <2>2, <2>3, <2>4
  <2>5. CASE ~(a < top)
    <3>1. u.cell[p] = "blank"
      BY <2>2, <2>3, <2>5
    <3> QED
      BY <1>3, <2>1, <2>5, <3>1
  <2> QED
    BY <2>4, <2>5
<1> QED
  BY <1>1, <1>2, <1>3, <1>4 DEF Empty

InRows(t, s, k, c) ==
  /\ ScreenOf(t, Used(s), c)
  /\ (t.row - t.top) * W + t.col = PromptLen + k /\ t.col < W

(* What is written from the top on, with the hint.                         *)
LEMMA LinesTyped ==
  ASSUME settings \in Settings, NEW t, Empty(t), NEW s \in Seq(Chars), NEW hints,
         NEW u, u = Type(t, Used(s) \o HintFor(Len(s), hints)), NEW n \in Nat, n = (PromptLen + Len(s) + W - 1) \div W
  PROVE  /\ u.row + 1 = t.top + n /\ u.col \in 1..W /\ u.top = t.top
         /\ ScreenOf(u, Used(s), Fill(Len(s), hints))
<1>1. PICK w \in Nat, k \in Nat, m \in Nat, a \in Nat : w = W /\ k = PromptLen /\ m = Len(s) /\ a = k + m /\ w > k /\ k > 0
  BY Widths
<1>2. PICK h \in Nat : h = HintLen(m, hints)
  BY <1>1, HintIs
<1>3. h = IF hints /\ a < w THEN w - a ELSE 0
  BY <1>1, <1>2 DEF HintLen
<1>4. PICK x \in Seq(Codes) : x = Used(s) \o HintFor(Len(s), hints)
  BY <1>1, HintedIs
<1>5. Len(x) = a + h /\ \A i \in 1..(a + h) : x[i] = IF i <= a THEN Used(s)[i] ELSE "hint"
  <2>1. PICK y \in Nat : y = Len(s) /\ x = Used(s) \o HintFor(y, hints)
    BY <1>1, <1>4, ZenonT(40)
  <2>2. /\ Len(x) = PromptLen + Len(s) + HintLen(y, hints)
        /\ \A i \in 1..(PromptLen + Len(s) + HintLen(y, hints)) :
             x[i] = IF i <= PromptLen + Len(s) THEN Used(s)[i] ELSE "hint"
    BY <2>1, HintedIs, ZenonT(40)
  <2> QED
    BY <1>1, <1>2, <2>1, <2>2
<1>6. Len(x) > 0 /\ Len(x) \in Nat
  BY <1>1, <1>2, <1>5
<1>7. t \in Terms /\ t.top \in {0, 1} /\ t.row = t.top /\ t.col = 0
  BY DEF Empty
<1>8. /\ u \in Terms /\ u.top = t.top
      /\ (u.row - t.top) * W + u.col = a + h
      /\ u.col \in 1..W
      /\ \A p \in Cells : u.cell[p] = IF p[1] >= t.top /\ Count(t.top, p) <= a + h THEN x[Count(t.top, p)] ELSE t.cell[p]
  BY <1>4, <1>5, <1>6, <1>7, TypedFromTop
<1>9. PICK y \in Int, c \in 1..w, row \in Nat, top \in Nat : row = u.row /\ top = t.top /\ y = row - top /\ c = u.col
  <2>1. u.row \in Nat /\ t.top \in Nat
    BY <1>7, <1>8, TermIs
  <2>2. u.col \in 1..w
    BY <1>1, <1>8
  <2>3. u.row - t.top \in Int
    BY <2>1
  <2> QED
    BY <2>1, <2>2, <2>3
<1>10. y * w + c = a + h
  BY <1>1, <1>8, <1>9
<1>11. (h = 0 /\ y * w + c = a) \/ (y * w + c = w /\ a < w)
  <2>1. CASE hints /\ a < w
    <3>1. a + h = w
      BY <1>1, <1>3, <2>1
    <3> QED
      BY <1>10, <2>1, <3>1
  <2>2. CASE ~(hints /\ a < w)
    <3>1. h = 0
      BY <1>3, <2>2
    <3>2. a + h = a
      BY <1>1, <3>1
    <3> QED
      BY <1>10, <3>1, <3>2
  <2> QED
    BY <2>1, <2>2
<1>12. y + 1 = n
  <2>1. a > 0 /\ w > 0
    BY <1>1
  <2>2. y + 1 = (a + w - 1) \div w
    BY <1>11, <2>1, LastRow
  <2>3. PromptLen + Len(s) + W - 1 = a + w - 1
    BY <1>1
  <2> QED
    BY <1>1, <2>2, <2>3
<1>13. u.row + 1 = t.top + n
  BY <1>9, <1>12, SMTT(30)
<1>14. PICK v : v = Used(s) /\ Len(v) = a
  BY <1>1, UsedIs
<1>15. PICK fill : fill = Fill(Len(s), hints) /\ fill = IF hints /\ a < w THEN "hint" ELSE "blank"
  BY <1>1 DEF Fill
<1>16. ASSUME NEW p \in Cells
       PROVE  u.cell[p] = IF p[1] < u.top THEN "old"
                          ELSE IF Count(u.top, p) <= Len(v) THEN v[Count(u.top, p)]
                          ELSE IF Count(u.top, p) <= W THEN fill ELSE "blank"
  <2>1. PICK b \in Int, q \in Int : b = p[1] /\ q = Count(top, p)
    BY <1>9, CellsAre, CountIs, SMTT(30)
  <2>2. b >= top => q >= 1
    <3>1. PICK z \in Int : z = top
      BY <1>9
    <3>2. p[1] >= z => Count(z, p) >= 1
      BY CountIs
    <3> QED
      BY <2>1, <3>1, <3>2
  <2>3. u.cell[p] = IF b >= top /\ q <= a + h THEN x[q] ELSE t.cell[p]
    BY <1>8, <1>9, <2>1
  <2>4. t.cell[p] = IF b < top THEN "old" ELSE "blank"
    BY <1>9, <2>1 DEF Empty
  <2>5. u.cell[p] = IF b < top THEN "old" ELSE IF q <= a THEN v[q] ELSE IF q <= w THEN fill ELSE "blank"
    <3>1. CASE b < top
      BY <2>3, <2>4, <3>1
    <3>2. CASE b >= top /\ q <= a
      <4>1. q \in 1..(a + h) /\ q <= a + h /\ ~(b < top)
        BY <1>2, <2>2, <3>2
      <4>2. x[q] = v[q]
        BY <1>5, <1>14, <3>2, <4>1
      <4> QED
        BY <2>3, <3>2, <4>1, <4>2
    <3>3. CASE b >= top /\ q > a /\ hints /\ a < w
      <4>1. a + h = w /\ ~(b < top) /\ ~(q <= a) /\ fill = "hint"
        BY <1>1, <1>3, <1>15, <3>3
      <4>2. q <= w => q \in 1..(a + h) /\ x[q] = "hint"
        <5> SUFFICES ASSUME q <= w PROVE q \in 1..(a + h) /\ x[q] = "hint"
          OBVIOUS
        <5>1. q \in 1..(a + h)
          BY <2>2, <3>3, <4>1
        <5> QED
          BY <1>5, <4>1, <5>1
      <4> QED
        BY <2>3, <2>4, <3>3, <4>1, <4>2
    <3>4. CASE b >= top /\ q > a /\ ~(hints /\ a < w)
      <4>1. h = 0 /\ fill = "blank"
        BY <1>3, <1>15, <3>4
      <4>2. a + h = a
        BY <1>1, <4>1
      <4>3. ~(b < top)
        BY <3>4
      <4>4. ~(q <= a)
        BY <3>4
      <4> QED
        BY <2>3, <2>4, <3>4, <4>1, <4>2, <4>3, <4>4
    <3>5. b < top \/ (b >= top /\ (q <= a \/ q > a))
      <4>1. PICK z \in Int : z = top
        BY <1>9
      <4> QED
        BY <1>1, <2>1, <4>1
    <3> QED
      BY <3>1, <3>2, <3>3, <3>4, <3>5
  <2> QED
    BY <1>1, <1>8, <1>9, <1>14, <2>1, <2>5
<1>17. ScreenOf(u, v, fill)
  BY <1>7, <1>8, <1>16 DEF ScreenOf
<1> QED
  BY <1>8, <1>13, <1>14, <1>15, <1>17

RowsNow(e) == RowsOf(e) + (IF Wraps(e) THEN 1 ELSE 0)

(* The columns up to the end of the line (a) and up to the cursor (b), and *)
(* the rows that they take.                                                *)
Measures(e, w, k, a, b, n, q) ==
  /\ w = W /\ w = settings.cols /\ w > 0 /\ k = PromptLen /\ 0 < k /\ k < w
  /\ a = k + e.len /\ b = k + e.pos /\ b <= a
  /\ n = (PromptLen + Len(Text(e)) + W - 1) \div W /\ n = RowsOf(e) /\ n > 0 /\ a <= n * w
  /\ q = b \div w /\ q <= n /\ (q < n \/ (b = a /\ a % w = 0 /\ q = n))
  /\ (PromptLen + e.pos + settings.cols) \div settings.cols = q + 1
  /\ Wraps(e) <=> e.pos > 0 /\ b = a /\ a % w = 0
  /\ n <= Rows - 2 /\ Rows \in Nat

LEMMA RowsNumbers ==
  ASSUME settings \in Settings, NEW e, Writable(e)
  PROVE  \E w \in Nat, k \in Nat, a \in Nat, b \in Nat, n \in Nat, q \in Nat : Measures(e, w, k, a, b, n, q)
<1>1. PICK w \in Nat, k \in Nat, len \in Nat, pos \in Nat, a \in Nat, b \in Nat :
        /\ w = W /\ w = settings.cols /\ k = PromptLen /\ k > 0 /\ k < w
        /\ len = e.len /\ pos = e.pos /\ pos <= len /\ len <= BufLen /\ a = k + len /\ b = k + pos
  <2>1. e.len \in 0..BufLen /\ e.pos \in 0..e.len
    BY DEF Writable
  <2>2. BufLen \in Nat /\ PromptLen \in Nat /\ PromptLen > 0 /\ W \in Nat /\ PromptLen < W /\ W = settings.cols
    BY Widths DEF W
  <2>3. PICK k \in Nat, len \in Nat, pos \in Nat : k = PromptLen /\ len = e.len /\ pos = e.pos /\ pos <= len /\ len <= BufLen
    <3>1. e.len \in Nat
      BY <2>1, <2>2
    <3>2. e.pos \in Nat /\ e.pos <= e.len /\ e.len <= BufLen
      BY <2>1, <2>2, <3>1
    <3> QED
      BY <2>2, <3>1, <3>2
  <2>4. k + len \in Nat /\ k + pos \in Nat
    OBVIOUS
  <2> QED
    BY <2>2, <2>3, <2>4
<1>2. a > 0 /\ w > 0 /\ b <= a
  BY <1>1
<1>3. PICK n \in Nat : /\ n = (a + w - 1) \div w /\ n > 0 /\ a <= n * w /\ (n - 1) * w < a
                       /\ n <= a \div w + 1
  BY <1>2, RowsTaken
<1>4. PromptLen + Len(Text(e)) + W - 1 = a + w - 1 /\ PromptLen + e.len + settings.cols - 1 = a + w - 1
  BY <1>1 DEF Writable
<1>5. n = (PromptLen + Len(Text(e)) + W - 1) \div W /\ n = RowsOf(e)
  BY <1>1, <1>3, <1>4 DEF RowsOf
<1>6. PICK q \in Nat : q = b \div w
  BY <1>2, Division
<1>7. q < n \/ (b = a /\ a % w = 0 /\ q = n)
  BY <1>2, <1>3, <1>6, PlaceInRows
<1>8. q <= n
  BY <1>7
<1>9. (PromptLen + e.pos + settings.cols) \div settings.cols = q + 1
  <2>1. (b + w) \div w = q + 1
    BY <1>2, <1>6, RowsOver
  <2>2. PromptLen + e.pos + settings.cols = b + w
    BY <1>1
  <2> QED
    BY <1>1, <2>1, <2>2
<1>10. Wraps(e) <=> e.pos > 0 /\ b = a /\ a % w = 0
  <2>1. e.pos = e.len <=> b = a
    BY <1>1
  <2>2. b = a => e.pos + PromptLen = a
    BY <1>1
  <2> QED
    BY <1>1, <2>1, <2>2 DEF Wraps
<1>11. n <= Rows - 2 /\ Rows \in Nat
  <2>1. a <= PromptLen + BufLen
    <3>1. BufLen \in Nat
      BY Widths
    <3> QED
      BY <1>1, <3>1
  <2>2. Rows \in Nat /\ a \div W <= Rows - 3
    BY <2>1, RowsSuffice
  <2>3. PICK x \in Nat : x = a \div w
    BY <1>2, Division
  <2>4. n <= x + 1 /\ x <= Rows - 3
    BY <1>1, <1>3, <2>2, <2>3
  <2> QED
    BY <2>2, <2>4
<1>12. Measures(e, w, k, a, b, n, q)
  BY <1>1, <1>2, <1>3, <1>5, <1>6, <1>7, <1>8, <1>9, <1>10, <1>11 DEF Measures
<1> QED
  BY <1>12

LEMMA WriteLinesIs ==
  ASSUME settings \in Settings, NEW t, Empty(t), NEW e, Writable(e), NEW hints
  PROVE  InRows(WriteLines(e, t, hints), Text(e), e.pos, Fill(e.len, hints))
<1>1. PICK w \in Nat, k \in Nat, a \in Nat, b \in Nat, n \in Nat, q \in Nat : Measures(e, w, k, a, b, n, q)
  BY RowsNumbers
<1>2. PICK s \in Seq(Chars), len \in Nat : s = Text(e) /\ len = Len(s) /\ len = e.len
  BY DEF Writable
<1>3. PICK u : u = Type(t, Used(s) \o HintFor(len, hints))
  OBVIOUS
<1>4. u.row + 1 = t.top + n /\ u.col \in 1..W /\ u.top = t.top /\ ScreenOf(u, Used(s), Fill(len, hints))
  <2>1. n = (PromptLen + Len(s) + W - 1) \div W
    BY <1>1, <1>2 DEF Measures
  <2>2. u = Type(t, Used(s) \o HintFor(Len(s), hints))
    BY <1>2, <1>3
  <2>3. u.row + 1 = t.top + n /\ u.col \in 1..W /\ u.top = t.top /\ ScreenOf(u, Used(s), Fill(Len(s), hints))
    BY <2>1, <2>2, LinesTyped
  <2> QED
    BY <1>2, <2>3
<1>5. PICK x \in Nat : x = IF Wraps(e) THEN 1 ELSE 0
  OBVIOUS
<1>6. PICK row \in Nat, top \in Nat : row = u.row /\ top = t.top /\ u \in Terms
  BY <1>4, TermIs DEF ScreenOf, Empty
<1>7. row + 1 = top + n
  BY <1>4, <1>6
<1>8. PICK v : v = IF Wraps(e) THEN Return(Newline(u)) ELSE u
  OBVIOUS
<1>9. v \in Terms /\ v.row = row + x /\ v.top = top /\ v.cell = u.cell
  <2>1. CASE Wraps(e)
    <3>1. u.cell \in [Cells -> Codes] /\ u.col \in Nat /\ u.top = top
      BY <1>4, <1>6, TermIs
    <3>2. PICK y \in Terms : y = Newline(u) /\ y = Term(u.cell, row + 1, u.col, top)
      <4>1. Newline(u) = Term(u.cell, row + 1, u.col, top)
        BY <1>6, <3>1, TermIs
      <4>2. Term(u.cell, row + 1, u.col, top) \in Terms
        BY <3>1 DEF Term, Terms
      <4> QED
        BY <4>1, <4>2
    <3>3. v = Term(y.cell, y.row, 0, y.top)
      BY <1>8, <2>1, <3>2, TermIs
    <3>4. v = Term(u.cell, row + 1, 0, top)
      BY <3>2, <3>3 DEF Term
    <3> QED
      BY <1>5, <2>1, <3>1, <3>4 DEF Term, Terms
  <2>2. CASE ~Wraps(e)
    BY <1>4, <1>5, <1>6, <1>8, <2>2
  <2> QED
    BY <2>1, <2>2
<1>10. PICK d \in Int : d = n + x - (q + 1)
  OBVIOUS
<1>11. PICK z : z = Up(v, d)
  OBVIOUS
<1>12. z \in Terms /\ z.row = top + q /\ z.top = top /\ z.cell = u.cell
  <2>1. z = Term(u.cell, Max({0, row + x - d}), v.col, top) /\ u.cell \in [Cells -> Codes] /\ v.col \in Nat
    BY <1>9, <1>11, TermIs, SMTT(30)
  <2>2. row + x - d = top + q
    BY <1>7, <1>10
  <2>3. PICK y \in Int : y = top + q /\ y >= 0
    OBVIOUS
  <2>4. Max({0, y}) = IF 0 >= y THEN 0 ELSE y
    BY MaxIs2
  <2>7. Max({0, y}) = y
    <3>1. CASE y = 0
      BY <2>4, <3>1
    <3>2. CASE y # 0
      <4>1. ~(0 >= y)
        BY <2>3, <3>2
      <4> QED
        BY <2>4, <4>1
    <3> QED
      BY <3>1, <3>2
  <2>5. Max({0, row + x - d}) = top + q
    BY <2>2, <2>3, <2>7
  <2>6. top + q \in Nat
    OBVIOUS
  <2> QED
    BY <2>1, <2>5, <2>6 DEF Term, Terms
<1>13. PICK r : r = Return(z)
  OBVIOUS
<1>14. r \in Terms /\ r.row = top + q /\ r.top = top /\ r.cell = u.cell /\ r.col = 0
  <2>1. r = Term(z.cell, z.row, 0, z.top) /\ z.cell \in [Cells -> Codes] /\ z.row \in Nat /\ z.top \in Nat
    BY <1>12, <1>13, TermIs
  <2> QED
    BY <1>12, <2>1 DEF Term, Terms
<1>15. PICK c \in 0..(w - 1) : c = b % w /\ b = w * q + c
  <2>1. w > 0 /\ q = b \div w
    BY <1>1 DEF Measures
  <2>2. PICK q1 \in Nat, c \in 0..(w - 1) : q1 = b \div w /\ c = b % w /\ b = w * q1 + c
    BY <2>1, Divided
  <2> QED
    BY <2>1, <2>2
<1>16. PICK o : o = Right(r, c)
  OBVIOUS
<1>17. o \in Terms /\ o.row = top + q /\ o.top = top /\ o.cell = u.cell /\ o.col = c
  <2>1. o = Term(u.cell, top + q, Min2(W - 1, 0 + c), top) /\ u.cell \in [Cells -> Codes]
    BY <1>14, <1>16, TermIs
  <2>2. W = w /\ w > 0
    BY <1>1 DEF Measures
  <2>3. Min2(W - 1, 0 + c) = c
    BY <2>2 DEF Min2
  <2>4. c \in Nat /\ top + q \in Nat
    BY <2>2
  <2> QED
    BY <2>1, <2>3, <2>4 DEF Term, Terms
<1>18. o = WriteLines(e, t, hints)
  <2>1. Prompt \o Masked(Text(e)) \o Hint(e, hints) = Used(s) \o HintFor(len, hints)
    BY <1>2 DEF Used, Hint, HintFor, W
  <2>2. /\ n = RowsOf(e) /\ (PromptLen + e.pos + settings.cols) \div settings.cols = q + 1
        /\ (PromptLen + e.pos) % settings.cols = c
    <3>1. PromptLen + e.pos = b /\ settings.cols = w
      BY <1>1 DEF Measures
    <3> QED
      BY <1>1, <1>15, <3>1 DEF Measures
  <2>3. PICK rows \in Int, rpos \in Int : rows = RowsOf(e) + (IF Wraps(e) THEN 1 ELSE 0) /\ rows = n + x /\ rpos = q + 1 /\ d = rows - rpos
    <3>1. RowsOf(e) + (IF Wraps(e) THEN 1 ELSE 0) = n + x
      BY <1>5, <2>2
    <3> QED
      BY <1>10, <3>1
  <2>4. WriteLines(e, t, hints) = Right(Return(Up(v, rows - rpos)), c)
    BY <1>3, <1>8, <2>1, <2>2, <2>3 DEF WriteLines
  <2> QED
    BY <1>11, <1>13, <1>16, <2>3, <2>4
<1>19. ScreenOf(o, Used(s), Fill(len, hints))
  BY <1>4, <1>6, <1>17 DEF ScreenOf
<1>20. (o.row - o.top) * W + o.col = PromptLen + e.pos /\ o.col < W
  <2>1. W = w /\ PromptLen + e.pos = b
    BY <1>1 DEF Measures
  <2>2. o.row - o.top = q
    BY <1>17
  <2>3. q * w + c = b
    BY <1>15
  <2>4. c < w
    OBVIOUS
  <2> QED
    BY <1>17, <2>1, <2>2, <2>3, <2>4
<1> QED
  BY <1>2, <1>18, <1>19, <1>20 DEF InRows

(* What is kept of a drawing of n characters with the cursor behind k.     *)
RowsBefore(e) == IF e.oldrows = 0 THEN 1 ELSE e.oldrows
Kept(e, n, k) ==
  /\ e.oldpos = k /\ e.oldrows \in Nat /\ RowsBefore(e) <= Rows
  /\ PromptLen + n <= RowsBefore(e) * W /\ (PromptLen + k) \div W < RowsBefore(e)

LEMMA DrawnIsKept ==
  ASSUME settings \in Settings, NEW e, Writable(e), NEW x, x.oldpos = e.pos,
         x.oldrows = RowsOf(e) + (IF Wraps(e) THEN 1 ELSE 0)
  PROVE  Kept(x, e.len, e.pos)
<1>1. PICK w \in Nat, k \in Nat, a \in Nat, b \in Nat, n \in Nat, q \in Nat : Measures(e, w, k, a, b, n, q)
  BY RowsNumbers
<1>2. w = W /\ a = PromptLen + e.len /\ b = PromptLen + e.pos /\ k > 0 /\ k < w /\ b = k + e.pos
  BY <1>1 DEF Measures
<1>3. PICK m \in Nat : m = n + (IF Wraps(e) THEN 1 ELSE 0)
  OBVIOUS
<1>4. n > 0 /\ a <= n * w /\ q = b \div w /\ q <= n /\ n <= Rows - 2 /\ Rows \in Nat /\ n = RowsOf(e)
  BY <1>1 DEF Measures
<1>5. x.oldrows = m
  BY <1>3, <1>4
<1>6. m = n \/ m = n + 1
  BY <1>3
<1>7. m > 0 /\ m <= Rows /\ RowsBefore(x) = m
  BY <1>4, <1>5, <1>6 DEF RowsBefore
<1>8. a <= m * w
  <2>1. CASE m = n
    BY <1>4, <2>1
  <2>2. CASE m = n + 1
    <3>1. (n + 1) * w = n * w + w /\ n * w \in Nat
      OBVIOUS
    <3> QED
      BY <1>4, <2>2, <3>1
  <2> QED
    BY <1>6, <2>1, <2>2
<1>9. q < m
  <2>1. CASE q < n
    BY <1>6, <2>1
  <2>2. CASE ~(q < n)
    <3>1. b = a /\ a % w = 0 /\ q = n
      BY <1>1, <2>2 DEF Measures
    <3>2. e.pos \in Nat
      <4>1. BufLen \in Nat
        BY Widths
      <4> QED
        BY <4>1 DEF Writable
    <3>3. CASE e.pos = 0
      <4>2. b = k
        BY <1>2, <3>3
      <4>3. PICK z \in Nat, r \in 0..(w - 1) : z = 0 /\ r = b /\ b = z * w + r
        <5>1. b \in 0..(w - 1)
          BY <1>2, <4>2
        <5>2. 0 * w = 0 /\ b = 0 + b
          OBVIOUS
        <5> QED
          BY <5>1, <5>2
      <4>4. b \div w = z
        <5>1. w > 0
          BY <1>2
        <5> QED
          BY <4>3, <5>1, DivisionIs
      <4> QED
        BY <1>4, <3>1, <4>3, <4>4
    <3>4. CASE e.pos > 0
      <4>1. Wraps(e)
        BY <1>1, <3>1, <3>4 DEF Measures
      <4>2. m = n + 1
        BY <1>3, <4>1
      <4> QED
        BY <3>1, <4>2
    <3> QED
      BY <3>2, <3>3, <3>4
  <2> QED
    BY <2>1, <2>2
<1>10. RowsBefore(x) <= Rows /\ RowsBefore(x) * W = m * w
  BY <1>2, <1>7
<1>11. PromptLen + e.len <= RowsBefore(x) * W
  BY <1>2, <1>8, <1>10
<1>12. (PromptLen + e.pos) \div W < RowsBefore(x)
  <2>1. (PromptLen + e.pos) \div W = q
    BY <1>2, <1>4
  <2> QED
    BY <1>7, <1>9, <2>1
<1> QED
  BY <1>5, <1>10, <1>11, <1>12 DEF Kept

LEMMA NothingKept ==
  ASSUME settings \in Settings, NEW e, e.oldpos = 0, e.oldrows = 0
  PROVE  Kept(e, 0, 0)
<1>1. PICK w \in Nat, k \in Nat : w = W /\ k = PromptLen /\ k > 0 /\ k < w
  BY Widths
<1>2. RowsBefore(e) = 1
  BY DEF RowsBefore
<1>3. Rows \in Nat /\ Rows >= 3
  <2>1. 0 <= PromptLen + BufLen
    BY Widths
  <2> QED
    BY <2>1, RowsSuffice
<1>4. k \div w = 0
  <2>1. PICK z \in Nat, r \in 0..(w - 1) : z = 0 /\ r = k /\ k = z * w + r
    <3>1. k \in 0..(w - 1)
      BY <1>1
    <3>2. 0 * w = 0 /\ k = 0 + k
      OBVIOUS
    <3> QED
      BY <3>1, <3>2
  <2> QED
    BY <1>1, <2>1, DivisionIs
<1>5. PromptLen + 0 = k /\ 1 * W = w
  BY <1>1
<1>6. PromptLen + 0 <= 1 * W /\ (PromptLen + 0) \div W < 1
  BY <1>1, <1>4, <1>5
<1> QED
  BY <1>2, <1>3, <1>6 DEF Kept

(* How far the rows that were drawn are cleared.                           *)
Clearing(e, k, q, d, u) ==
  /\ q = (PromptLen + k) \div W
  /\ d = Max({0, e.oldrows - (PromptLen + e.oldpos + settings.cols) \div settings.cols})
  /\ u = Max({0, e.oldrows - 1}) /\ u + 1 = RowsBefore(e) /\ q <= u /\ d = u - q

LEMMA ClearingIs ==
  ASSUME settings \in Settings, NEW e, NEW n, NEW k \in Nat, Kept(e, n, k)
  PROVE  \E q \in Nat, d \in Nat, u \in Nat : Clearing(e, k, q, d, u)
<1>1. PICK w \in Nat, p \in Nat, b \in Nat : w = W /\ w = settings.cols /\ p = PromptLen /\ w > 0 /\ b = p + k
  <2>1. W \in Nat /\ PromptLen \in Nat /\ W > PromptLen /\ W = settings.cols
    BY Widths DEF W
  <2>2. PromptLen + k \in Nat
    BY <2>1
  <2> QED
    BY <2>1, <2>2
<1>2. PICK q \in Nat : q = b \div w
  BY <1>1, Division
<1>3. (b + w) \div w = q + 1
  BY <1>1, <1>2, RowsOver
<1>4. PICK m \in Nat : m = e.oldrows
  BY DEF Kept
<1>5. PICK r \in Nat : r = RowsBefore(e) /\ r = IF m = 0 THEN 1 ELSE m
  BY <1>4 DEF RowsBefore
<1>6. q < r
  BY <1>1, <1>2, <1>5 DEF Kept
<1>7. (PromptLen + e.oldpos + settings.cols) \div settings.cols = q + 1
  <2>1. PromptLen + e.oldpos + settings.cols = b + w
    BY <1>1 DEF Kept
  <2> QED
    BY <1>1, <1>3, <2>1
<1>8. PICK x \in Int, y \in Int : x = m - (q + 1) /\ y = m - 1
  OBVIOUS
<1>9. Max({0, x}) = IF 0 >= x THEN 0 ELSE x
  BY MaxIs2
<1>10. Max({0, y}) = IF 0 >= y THEN 0 ELSE y
  BY MaxIs2
<1>11. PICK d \in Nat : d = Max({0, x}) /\ d = IF 0 >= x THEN 0 ELSE x
  <2>1. CASE 0 >= x
    BY <1>9, <2>1
  <2>2. CASE ~(0 >= x)
    BY <1>9, <2>2
  <2> QED
    BY <2>1, <2>2
<1>12. PICK u \in Nat : u = Max({0, y}) /\ u = IF 0 >= y THEN 0 ELSE y
  <2>1. CASE 0 >= y
    BY <1>10, <2>1
  <2>2. CASE ~(0 >= y)
    BY <1>10, <2>2
  <2> QED
    BY <2>1, <2>2
<1>13. u + 1 = r
  <2>1. CASE m = 0
    BY <1>5, <1>8, <1>12, <2>1
  <2>2. CASE m # 0
    BY <1>5, <1>8, <1>12, <2>2
  <2> QED
    BY <2>1, <2>2
<1>14. q <= u
  BY <1>6, <1>13
<1>15. d = u - q
  <2>1. CASE m = 0
    <3>1. r = 1 /\ u = 0 /\ q = 0 /\ x = -1
      BY <1>5, <1>6, <1>8, <1>13, <2>1
    <3> QED
      BY <1>11, <3>1
  <2>2. CASE m # 0
    <3>1. r = m /\ u = m - 1 /\ x = u - q /\ x >= 0
      BY <1>5, <1>6, <1>8, <1>13, <2>2
    <3> QED
      BY <1>11, <3>1
  <2> QED
    BY <2>1, <2>2
<1>16. q = (PromptLen + k) \div W
  BY <1>1, <1>2
<1>17. d = Max({0, e.oldrows - (PromptLen + e.oldpos + settings.cols) \div settings.cols}) /\ u = Max({0, e.oldrows - 1})
  BY <1>4, <1>7, <1>8, <1>11, <1>12
<1>18. Clearing(e, k, q, d, u)
  BY <1>5, <1>13, <1>14, <1>15, <1>16, <1>17 DEF Clearing
<1> QED
  BY <1>18

(* The line that was drawn can be cleared.                                 *)
LEMMA DrawnIsClearable ==
  ASSUME settings \in Settings, NEW t, NEW s \in Seq(Chars), NEW k \in Nat, NEW c, InRows(t, s, k, c),
         NEW e, Kept(e, Len(s), k)
  PROVE  Clearable(e, t)
<1>0. PICK q \in Nat, d \in Nat, u \in Nat : Clearing(e, k, q, d, u)
  BY ClearingIs
<1>1. /\ q = (PromptLen + k) \div W
      /\ d = Max({0, e.oldrows - (PromptLen + e.oldpos + settings.cols) \div settings.cols})
      /\ u = Max({0, e.oldrows - 1}) /\ u + 1 = RowsBefore(e) /\ q <= u /\ d = u - q
  BY <1>0 DEF Clearing
<1>2. t \in Terms /\ t.top \in {0, 1}
  BY DEF InRows, ScreenOf
<1>3. PICK w \in Nat, p \in Nat, row \in Nat, top \in Nat, col \in Nat, m \in Nat :
        w = W /\ p = PromptLen /\ w > 0 /\ row = t.row /\ top = t.top /\ col = t.col /\ m = Len(s) /\ top <= 1
  <2>1. t.row \in Nat /\ t.col \in Nat /\ t.top \in Nat /\ t.top <= 1
    BY <1>2, TermIs
  <2>2. W \in Nat /\ PromptLen \in Nat /\ W > 0
    BY Widths
  <2>3. Len(s) \in Nat
    OBVIOUS
  <2> QED
    BY <2>1, <2>2, <2>3
<1>4. PICK b \in Nat : b = p + k
  OBVIOUS
<1>5. (row - top) * w + col = b /\ col < w
  BY <1>3, <1>4 DEF InRows
<1>6. row = top + q
  <2>1. PICK q1 \in Nat, r \in 0..(w - 1) : q1 = b \div w /\ r = b % w /\ b = w * q1 + r
    BY <1>3, Divided
  <2>2. q1 = q
    BY <1>1, <1>3, <1>4, <2>1
  <2>3. PICK x \in Int, y \in 0..(w - 1) : x = row - top /\ y = col
    <3>1. col \in 0..(w - 1)
      BY <1>5
    <3> QED
      BY <3>1
  <2>4. x * w + y = q1 * w + r
    <3>1. w * q1 = q1 * w
      OBVIOUS
    <3>2. x * w + y = b
      BY <1>5, <2>3
    <3> QED
      BY <2>1, <3>1, <3>2
  <2>5. x = q1
    BY <1>3, <2>4, SameCell
  <2> QED
    BY <2>2, <2>3, <2>5
<1>7. PICK rows \in Nat : rows = Rows /\ u + 1 <= rows
  <2>1. Rows \in Nat
    <3>1. 0 <= PromptLen + BufLen
      BY Widths
    <3> QED
      BY <3>1, RowsSuffice
  <2> QED
    BY <1>1, <2>1 DEF Kept
<1>8. PICK r \in Nat : r = top + u
  OBVIOUS
<1>9. r = Min2(Rows, t.row + d)
  <2>1. row + d = r
    BY <1>1, <1>6, <1>8
  <2>2. r <= rows
    BY <1>3, <1>7, <1>8
  <2> QED
    BY <1>3, <1>7, <2>1, <2>2 DEF Min2
<1>10. UpFrom(r, u) = t.top
  BY <1>3, <1>8 DEF UpFrom
<1>11. p + m <= (u + 1) * w
  <2>1. PromptLen + Len(s) <= RowsBefore(e) * W
    BY DEF Kept
  <2>2. RowsBefore(e) = u + 1
    BY <1>1
  <2> QED
    BY <1>3, <2>1, <2>2
<1>12. ASSUME NEW x \in Cells PROVE (x[1] < t.top => t.cell[x] = "old") /\ (x[1] > r => t.cell[x] = "blank")
  <2>1. PICK a \in Nat, y \in 0..(w - 1) : a = x[1] /\ y = x[2]
    <3>1. x[1] \in 0..Rows /\ x[2] \in 0..(W - 1) /\ Rows \in Nat
      BY CellsAre
    <3>2. x[1] \in Nat /\ x[2] \in 0..(w - 1)
      BY <1>3, <3>1
    <3> QED
      BY <3>2
  <2>2. PICK z \in Int : z = Count(top, x) /\ z = (a - top) * w + y + 1
    <3>1. Count(top, x) \in Int
      BY CountIs
    <3>2. Count(top, x) = (a - top) * w + y + 1
      BY <1>3, <2>1 DEF Count
    <3> QED
      BY <3>1, <3>2
  <2>3. PICK v \in Seq(Codes) : v = Used(s) /\ Len(v) = p + m
    BY <1>3, UsedIs
  <2>4. t.cell[x] = IF a < top THEN "old" ELSE IF z <= p + m THEN v[z] ELSE IF z <= w THEN c ELSE "blank"
    BY <1>3, <2>1, <2>2, <2>3 DEF InRows, ScreenOf
  <2>5. CASE a > r
    <3>1. (a - top) * w >= (u + 1) * w
      <4>1. a - top >= u + 1
        BY <1>8, <2>5
      <4>2. PICK f \in Nat, g \in Nat : f = a - top /\ g = u + 1 /\ f >= g
        BY <4>1
      <4>3. f * w >= g * w
        BY <4>2
      <4> QED
        BY <4>2, <4>3
    <3>2. (u + 1) * w >= w /\ (u + 1) * w \in Int /\ (a - top) * w \in Int
      <4>1. (u + 1) * w = u * w + w /\ u * w \in Nat
        OBVIOUS
      <4> QED
        BY <4>1
    <3>3. z > p + m /\ z > w
      <4>1. PICK f \in Int, g \in Int : f = (a - top) * w /\ g = (u + 1) * w
        BY <3>2
      <4>2. z = f + y + 1 /\ f >= g /\ g >= w /\ g >= p + m
        BY <1>11, <2>2, <3>1, <3>2, <4>1
      <4> QED
        BY <4>2
    <3>4. ~(a < top) /\ ~(z <= p + m) /\ ~(z <= w)
      BY <1>8, <2>5, <3>3
    <3> QED
      BY <1>3, <2>1, <2>4, <3>4
  <2>6. CASE ~(a > r)
    BY <1>3, <2>1, <2>4, <2>6
  <2> QED
    BY <2>5, <2>6
<1> QED
  BY <1>1, <1>2, <1>9, <1>10, <1>12 DEF Clearable

(* The screen has been cleared by the terminal.                            *)
LEMMA ScreenIsClearable ==
  ASSUME settings \in Settings, NEW t \in Terms, NEW e, NEW n, NEW k \in Nat, Kept(e, n, k)
  PROVE  Clearable(e, linenoiseClearScreen(t)) /\ OneRow(linenoiseClearScreen(t))
<1>0. PICK q \in Nat, d \in Nat, u \in Nat : Clearing(e, k, q, d, u)
  BY ClearingIs
<1>1. /\ q = (PromptLen + k) \div W
      /\ d = Max({0, e.oldrows - (PromptLen + e.oldpos + settings.cols) \div settings.cols})
      /\ u = Max({0, e.oldrows - 1}) /\ u + 1 = RowsBefore(e) /\ q <= u /\ d = u - q
  BY <1>0 DEF Clearing
<1>2. PICK rows \in Nat : rows = Rows /\ u + 1 <= rows
  <2>1. Rows \in Nat
    <3>1. 0 <= PromptLen + BufLen
      BY Widths
    <3> QED
      BY <3>1, RowsSuffice
  <2> QED
    BY <1>1, <2>1 DEF Kept
<1>3. PICK v : v = linenoiseClearScreen(t)
  OBVIOUS
<1>4. PICK c : c = [p \in Cells |-> "blank"]
  OBVIOUS
<1>5. v = Term(c, 0, 0, 0)
  <2>1. DOMAIN t.cell = Cells
    BY DEF Terms
  <2>2. PICK a : a = [t EXCEPT !.cell = c]
    OBVIOUS
  <2>3. a = Term(c, t.row, t.col, t.top)
    BY <2>2 DEF Terms, Term
  <2>4. PICK b : b = [a EXCEPT !.row = 0]
    OBVIOUS
  <2>5. b = Term(c, 0, t.col, t.top)
    BY <2>3, <2>4 DEF Term
  <2>6. PICK f : f = [b EXCEPT !.col = 0]
    OBVIOUS
  <2>7. f = Term(c, 0, 0, t.top)
    BY <2>5, <2>6 DEF Term
  <2>8. [f EXCEPT !.top = 0] = Term(c, 0, 0, 0)
    BY <2>7 DEF Term
  <2>9. v = [t EXCEPT !.cell = c, !.row = 0, !.col = 0, !.top = 0]
    BY <1>3, <1>4, <2>1 DEF linenoiseClearScreen
  <2> QED
    BY <2>2, <2>4, <2>6, <2>8, <2>9
<1>6. c \in [Cells -> Codes]
  BY <1>4 DEF Codes
<1>7. v \in Terms /\ v.top = 0 /\ v.row = 0 /\ v.cell = c
  BY <1>5, <1>6 DEF Term, Terms
<1>8. d = Min2(Rows, v.row + d)
  <2>1. d <= rows /\ 0 + d = d
    BY <1>1, <1>2
  <2> QED
    BY <1>2, <1>7, <2>1 DEF Min2
<1>9. UpFrom(d, u) = v.top
  BY <1>1, <1>7 DEF UpFrom
<1>10. ASSUME NEW p \in Cells PROVE ~(p[1] < 0) /\ v.cell[p] = "blank"
  <2>1. p[1] \in Nat
    BY CellsAre
  <2> QED
    BY <1>4, <1>7, <2>1
<1>11. Clearable(e, v)
  BY <1>1, <1>7, <1>8, <1>9, <1>10 DEF Clearable
<1>12. OneRow(v)
  BY <1>7, <1>10 DEF OneRow
<1> QED
  BY <1>3, <1>11, <1>12

LEMMA BlankIsEmpty ==
  ASSUME settings \in Settings
  PROVE  Empty(Blank)
<1>1. PICK c : c = [p \in Cells |-> IF p[1] = 0 THEN "old" ELSE "blank"]
  OBVIOUS
<1>2. c \in [Cells -> Codes]
  BY <1>1 DEF Codes
<1>3. Blank = Term(c, 1, 0, 1)
  BY <1>1 DEF Blank, Term
<1>4. Blank \in Terms /\ Blank.top = 1 /\ Blank.row = 1 /\ Blank.col = 0 /\ Blank.cell = c
  BY <1>2, <1>3 DEF Term, Terms
<1>5. ASSUME NEW p \in Cells PROVE c[p] = IF p[1] < 1 THEN "old" ELSE "blank"
  <2>1. p[1] \in Nat
    BY CellsAre
  <2>2. p[1] < 1 <=> p[1] = 0
    BY <2>1
  <2> QED
    BY <1>1, <2>2
<1> QED
  BY <1>4, <1>5 DEF Empty

LEMMA CleanRowEmpty ==
  ASSUME settings \in Settings, NEW t, Empty(t)
  PROVE  Empty(CleanRow(t))
<1>1. t \in Terms /\ t.top \in {0, 1} /\ t.row = t.top
  BY DEF Empty
<1>2. PICK v : v = CleanRow(t)
  OBVIOUS
<1>3. /\ v \in Terms /\ v.top = t.top /\ v.row = t.row /\ v.col = 0
      /\ \A p \in Cells : v.cell[p] = IF p[1] = t.row THEN "blank" ELSE t.cell[p]
  BY <1>1, <1>2, CleanRowIs
<1>4. ASSUME NEW p \in Cells PROVE v.cell[p] = IF p[1] < v.top THEN "old" ELSE "blank"
  <2>1. PICK a \in Int, top \in Int : a = p[1] /\ top = t.top
    BY <1>1, CellsAre
  <2>2. t.cell[p] = IF a < top THEN "old" ELSE "blank"
    BY <2>1 DEF Empty
  <2>3. v.cell[p] = IF a = top THEN "blank" ELSE t.cell[p]
    BY <1>1, <1>3, <2>1
  <2>4. a = top => ~(a < top)
    OBVIOUS
  <2>5. v.cell[p] = IF a < top THEN "old" ELSE "blank"
    BY <2>2, <2>3, <2>4
  <2> QED
    BY <1>3, <2>1, <2>5
<1> QED
  BY <1>1, <1>2, <1>3, <1>4 DEF Empty

(* ---- what is drawn, and what is kept of it ------------------------------------- *)
Pictured(x, s, k, c) ==
  IF settings.ml THEN InRows(x.t, s, k, c) /\ Kept(x.l, Len(s), k) ELSE InRow(x.t, s, k, c)
Ready(e, t) == IF settings.ml THEN Clearable(e, t) ELSE OneRow(t)

LEMMA ReadySame ==
  ASSUME NEW t, NEW e, Ready(e, t), NEW d, d.oldpos = e.oldpos, d.oldrows = e.oldrows
  PROVE  Ready(d, t)
<1>1. CASE settings.ml
  <2>1. Clearable(e, t)
    BY <1>1 DEF Ready
  <2>2. PICK c \in Nat, n \in Nat, r \in Nat :
          /\ c = Max({0, e.oldrows - (PromptLen + e.oldpos + settings.cols) \div settings.cols})
          /\ n = Max({0, e.oldrows - 1})
          /\ r = Min2(Rows, t.row + c)
          /\ UpFrom(r, n) = t.top
          /\ \A p \in Cells : (p[1] < t.top => t.cell[p] = "old") /\ (p[1] > r => t.cell[p] = "blank")
    BY <2>1 DEF Clearable
  <2>3. /\ c = Max({0, d.oldrows - (PromptLen + d.oldpos + settings.cols) \div settings.cols})
        /\ n = Max({0, d.oldrows - 1})
    BY <2>2
  <2>4. Clearable(d, t)
    BY <2>1, <2>2, <2>3 DEF Clearable
  <2> QED
    BY <1>1, <2>4 DEF Ready
<1>2. CASE ~settings.ml
  BY <1>2 DEF Ready
<1> QED
  BY <1>1, <1>2

LEMMA PicturedSame ==
  ASSUME NEW x, NEW s, NEW k, NEW c, Pictured(x, s, k, c), NEW y, y.t = x.t,
         y.l.oldpos = x.l.oldpos, y.l.oldrows = x.l.oldrows
  PROVE  Pictured(y, s, k, c)
BY DEF Pictured, Kept, RowsBefore

LEMMA PicturedReady ==
  ASSUME settings \in Settings, NEW x, NEW s \in Seq(Chars), NEW k \in Nat, NEW c, Pictured(x, s, k, c)
  PROVE  Ready(x.l, x.t)
<1>1. CASE settings.ml
  <2>1. InRows(x.t, s, k, c) /\ Kept(x.l, Len(s), k)
    BY <1>1 DEF Pictured
  <2>2. Clearable(x.l, x.t)
    BY <2>1, DrawnIsClearable
  <2> QED
    BY <1>1, <2>2 DEF Ready
<1>2. CASE ~settings.ml
  <2>1. InRow(x.t, s, k, c)
    BY <1>2 DEF Pictured
  <2>2. OneRow(x.t)
    BY <2>1, InRowIsOneRow
  <2> QED
    BY <1>2, <2>2 DEF Ready
<1> QED
  BY <1>1, <1>2

LEMMA DrawnIs ==
  ASSUME NEW B, NEW e \in States(B)
  PROVE  Drawn(e, TRUE).oldpos = e.pos /\ Drawn(e, TRUE).oldrows = RowsOf(e) + (IF Wraps(e) THEN 1 ELSE 0)
<1>1. PICK n : n = RowsOf(e) + (IF TRUE /\ Wraps(e) THEN 1 ELSE 0) /\ n = RowsOf(e) + (IF Wraps(e) THEN 1 ELSE 0)
  OBVIOUS
<1>2. Drawn(e, TRUE) = [e EXCEPT !.oldpos = e.pos, !.oldrows = n]
  BY <1>1 DEF Drawn
<1>3. PICK d : d = [e EXCEPT !.oldpos = e.pos]
  OBVIOUS
<1>4. d = [buf |-> e.buf, pos |-> e.pos, len |-> e.len, oldpos |-> e.pos, oldrows |-> e.oldrows,
           history_index |-> e.history_index, in_completion |-> e.in_completion, completion_idx |-> e.completion_idx]
  BY <1>3 DEF States
<1>5. Drawn(e, TRUE) = [d EXCEPT !.oldrows = n]
  BY <1>2, <1>3
<1>6. Drawn(e, TRUE).oldpos = e.pos /\ Drawn(e, TRUE).oldrows = n
  BY <1>4, <1>5
<1> QED
  BY <1>1, <1>6

(* Clearing what was drawn and drawing the line pictures it.               *)
LEMMA RefreshDraws ==
  ASSUME settings \in Settings, NEW B, NEW x, x.l \in States(B), Writable(x.l), NEW hints, NEW clean,
         (clean = TRUE /\ Ready(x.l, x.t)) \/ (clean = FALSE /\ Empty(x.t))
  PROVE  Pictured(refreshLineWithFlags(x, clean, TRUE, hints), Text(x.l), x.l.pos, Fill(x.l.len, hints))
<1>1. PICK y : y = refreshLineWithFlags(x, clean, TRUE, hints)
  OBVIOUS
<1>2. CASE settings.ml
  <2>1. y.l = Drawn(x.l, TRUE) /\ y.t = refreshMultiLine(x.l, x.t, clean, TRUE, hints)
    BY <1>1, <1>2 DEF refreshLineWithFlags
  <2>2. PICK t : t = CleanRow(IF clean THEN Cleared(x.l, x.t) ELSE x.t)
    OBVIOUS
  <2>3. y.t = WriteLines(x.l, t, hints)
    BY <2>1, <2>2 DEF refreshMultiLine, CleanRow
  <2>4. Empty(t)
    <3>1. CASE clean = TRUE /\ Ready(x.l, x.t)
      <4>1. Clearable(x.l, x.t)
        BY <1>2, <3>1 DEF Ready
      <4>2. t = CleanRow(Cleared(x.l, x.t))
        BY <2>2, <3>1
      <4> QED
        BY <4>1, <4>2, ClearedIsEmpty
    <3>2. CASE clean = FALSE /\ Empty(x.t)
      <4>1. t = CleanRow(x.t)
        BY <2>2, <3>2
      <4> QED
        BY <3>2, <4>1, CleanRowEmpty
    <3> QED
      BY <3>1, <3>2
  <2>5. InRows(y.t, Text(x.l), x.l.pos, Fill(x.l.len, hints))
    BY <2>3, <2>4, WriteLinesIs
  <2>6. Kept(y.l, x.l.len, x.l.pos)
    <3>1. y.l.oldpos = x.l.pos /\ y.l.oldrows = RowsOf(x.l) + (IF Wraps(x.l) THEN 1 ELSE 0)
      BY <2>1, DrawnIs
    <3> QED
      BY <3>1, DrawnIsKept
  <2>7. Len(Text(x.l)) = x.l.len
    BY DEF Writable
  <2> QED
    BY <1>1, <1>2, <2>5, <2>6, <2>7 DEF Pictured
<1>3. CASE ~settings.ml
  <2>1. y.t = refreshSingleLine(x.l, x.t, TRUE, hints)
    BY <1>1, <1>3 DEF refreshLineWithFlags
  <2>2. OneRow(x.t)
    BY <1>3, EmptyIsOneRow DEF Ready
  <2>3. InRow(y.t, Text(x.l), x.l.pos, Fill(x.l.len, hints))
    BY <2>1, <2>2, SingleIs
  <2> QED
    BY <1>1, <1>3, <2>3 DEF Pictured
<1> QED
  BY <1>2, <1>3

(* ---- the settings stay ---------------------------------------------------------- *)
LEMMA SameScreen ==
  ASSUME settings' = settings
  PROVE  /\ W' = W /\ Cells' = Cells /\ Terms' = Terms /\ Rows' = Rows
         /\ \A r, p : Count(r, p)' = Count(r, p)
         /\ \A s : Used(s)' = Used(s)
         /\ \A s, skip : Window(s, skip)' = Window(s, skip)
<1>1. W' = W
  BY DEF W
<1>2. Cells' = Cells
  BY DEF Cells
<1>3. Terms' = Terms
  BY <1>2 DEF Terms
<1>4. Rows' = Rows
  OBVIOUS
<1>5. \A r, p : Count(r, p)' = Count(r, p)
  BY <1>1 DEF Count
<1>6. \A s : Masked(s)' = Masked(s)
  BY DEF Masked
<1>7. Prompt' = Prompt
  OBVIOUS
<1>8. \A s : Used(s)' = Used(s)
  BY <1>6, <1>7 DEF Used
<1>9. \A s, skip : Window(s, skip)' = Window(s, skip)
  BY <1>1 DEF Window
<1> QED
  BY <1>1, <1>2, <1>3, <1>4, <1>5, <1>8, <1>9

LEMMA SameScreenOf ==
  ASSUME settings' = settings, NEW t, NEW u, NEW c
  PROVE  ScreenOf(t, u, c)' <=> ScreenOf(t, u, c)
BY SameScreen DEF ScreenOf

LEMMA SameInRow ==
  ASSUME settings' = settings, NEW t, NEW s, NEW k, NEW c
  PROVE  InRow(t, s, k, c)' <=> InRow(t, s, k, c)
BY SameScreen, SameScreenOf DEF InRow

LEMMA SameInRows ==
  ASSUME settings' = settings, NEW t, NEW s, NEW k, NEW c
  PROVE  InRows(t, s, k, c)' <=> InRows(t, s, k, c)
BY SameScreen, SameScreenOf DEF InRows

LEMMA SameKept ==
  ASSUME settings' = settings, NEW e, NEW n, NEW k
  PROVE  Kept(e, n, k)' <=> Kept(e, n, k)
BY SameScreen DEF Kept, RowsBefore

LEMMA SameEmpty ==
  ASSUME settings' = settings, NEW t
  PROVE  Empty(t)' <=> Empty(t)
BY SameScreen DEF Empty

LEMMA SamePictured ==
  ASSUME settings' = settings, NEW x, NEW s, NEW k, NEW c
  PROVE  Pictured(x, s, k, c)' <=> Pictured(x, s, k, c)
<1>1. CASE settings.ml
  <2>1. InRows(x.t, s, k, c)' <=> InRows(x.t, s, k, c)
    <3>1. PICK t : t = x.t
      OBVIOUS
    <3>2. InRows(t, s, k, c)' <=> InRows(t, s, k, c)
      BY SameInRows
    <3> QED
      BY <3>1, <3>2
  <2>2. Kept(x.l, Len(s), k)' <=> Kept(x.l, Len(s), k)
    <3>1. PICK e, n : e = x.l /\ n = Len(s)
      OBVIOUS
    <3>2. Kept(e, n, k)' <=> Kept(e, n, k)
      BY SameKept
    <3> QED
      BY <3>1, <3>2
  <2> QED
    BY <1>1, <2>1, <2>2 DEF Pictured
<1>2. CASE ~settings.ml
  <2>1. InRow(x.t, s, k, c)' <=> InRow(x.t, s, k, c)
    <3>1. PICK t : t = x.t
      OBVIOUS
    <3>2. InRow(t, s, k, c)' <=> InRow(t, s, k, c)
      BY SameInRow
    <3> QED
      BY <3>1, <3>2
  <2> QED
    BY <1>2, <2>1 DEF Pictured
<1> QED
  BY <1>1, <1>2

(* ---- the line on the screen ------------------------------------------------------ *)
SeenOf(e) == IF Shows(e) THEN Candidate(e) ELSE Text(e)
CursorOf(e) == IF Shows(e) THEN Len(Candidate(e)) ELSE e.pos
Fills == IF settings.hints THEN {"hint", "blank"} ELSE {"blank"}
Shown(F) == \E x, s, k, c : x = Here /\ s = Seen /\ k = Cursor /\ c \in F /\ Pictured(x, s, k, c)

LEMMA SeenIs ==
  ASSUME CompletionsFit, NEW e, Line(e)
  PROVE  SeenOf(e) \in Seq(Chars) /\ CursorOf(e) \in Nat /\ CursorOf(e) <= Len(SeenOf(e))
<1>1. CASE Shows(e)
  <2>1. PICK c \in Seq(Chars) : c = Candidate(e)
    BY <1>1, CandidateIs
  <2>2. Len(c) \in Nat
    OBVIOUS
  <2> QED
    BY <1>1, <2>1, <2>2 DEF SeenOf, CursorOf
<1>2. CASE ~Shows(e)
  <2>1. Text(e) \in Seq(Chars) /\ Len(Text(e)) = e.len
    BY TextIs
  <2>2. e.pos \in Nat /\ e.pos <= e.len
    BY DEF Line, States
  <2> QED
    BY <1>2, <2>1, <2>2 DEF SeenOf, CursorOf
<1> QED
  BY <1>1, <1>2

LEMMA SameSeen ==
  ASSUME NEW d, NEW e, SameLine(d, e)
  PROVE  SeenOf(d) = SeenOf(e) /\ CursorOf(d) = CursorOf(e) /\ Shows(d) = Shows(e) /\ Text(d) = Text(e)
<1>1. d.buf = e.buf /\ d.pos = e.pos /\ d.len = e.len /\ d.in_completion = e.in_completion /\ d.completion_idx = e.completion_idx
  BY DEF SameLine
<1>2. Strlen(d) = Strlen(e)
  BY <1>1 DEF Strlen
<1>3. Text(d) = Text(e)
  BY <1>1 DEF Text, Bytes
<1>4. CString(d) = CString(e)
  BY <1>1, <1>2 DEF CString, Bytes
<1>5. Shows(d) = Shows(e) /\ Candidate(d) = Candidate(e)
  BY <1>1, <1>4 DEF Shows, Candidate
<1> QED
  BY <1>1, <1>3, <1>5 DEF SeenOf, CursorOf

LEMMA LineWritable ==
  ASSUME NEW e, Line(e)
  PROVE  Writable(e) /\ e \in States(Buffers)
<1>1. Text(e) \in Seq(Chars) /\ Len(Text(e)) = e.len
  BY TextIs
<1>2. e.len \in 0..BufLen /\ e.pos \in 0..e.len /\ e \in States(Buffers)
  BY LineNumbers
<1> QED
  BY <1>1, <1>2 DEF Writable

LEMMA FillIs ==
  ASSUME NEW n
  PROVE  Fill(n, settings.hints) \in Fills /\ Fill(n, FALSE) = "blank"
BY DEF Fill, Fills

(* A line that no candidate covers is drawn.                               *)
LEMMA LineDrawn ==
  ASSUME settings \in Settings, NEW x, x = [l |-> x.l, t |-> x.t], Line(x.l), ~x.l.in_completion,
         NEW hints, Ready(x.l, x.t)
  PROVE  LET y == refreshLineWithFlags(x, TRUE, TRUE, hints) IN
         /\ Line(y.l) /\ SameLine(y.l, x.l)
         /\ Pictured(y, SeenOf(y.l), CursorOf(y.l), Fill(x.l.len, hints))
         /\ y = [l |-> y.l, t |-> y.t]
<1>1. PICK y : y = refreshLineWithFlags(x, TRUE, TRUE, hints)
  OBVIOUS
<1>2. Writable(x.l) /\ x.l \in States(Buffers)
  BY LineWritable
<1>3. y.l \in States(Buffers) /\ SameLine(y.l, x.l)
  BY <1>1, <1>2, RefreshKeeps
<1>4. Line(y.l)
  BY <1>3 DEF Line, SameLine
<1>5. Pictured(y, Text(x.l), x.l.pos, Fill(x.l.len, hints))
  BY <1>1, <1>2, RefreshDraws
<1>6. SeenOf(y.l) = Text(x.l) /\ CursorOf(y.l) = x.l.pos
  <2>1. ~Shows(x.l)
    BY DEF Shows
  <2> QED
    BY <1>3, <2>1, SameSeen DEF SeenOf, CursorOf
<1>7. y = [l |-> y.l, t |-> y.t]
  BY <1>1 DEF refreshLineWithFlags
<1> QED
  BY <1>1, <1>3, <1>4, <1>5, <1>6, <1>7

ScreenInv ==
  /\ LineInv
  /\ phase = "edit" => Shown(Fills)
  /\ phase = "done" => Shown({"blank"})
  /\ phase = "hidden" => Empty(term)
  /\ phase = "idle" => term = Blank

LEMMA ShownNext ==
  ASSUME settings' = settings, NEW F, NEW x, x = [l |-> l', t |-> term'], NEW c \in F,
         Pictured(x, SeenOf(x.l), CursorOf(x.l), c)
  PROVE  Shown(F)'
<1>1. PICK s, k : s = SeenOf(x.l) /\ k = CursorOf(x.l)
  OBVIOUS
<1>2. x.l = l'
  OBVIOUS
<1>3. x = Here'
  BY DEF Here
<1>4. s = Seen' /\ k = Cursor'
  BY <1>1, <1>2 DEF Seen, Cursor, SeenOf, CursorOf
<1>5. Pictured(x, s, k, c)'
  BY <1>1, SamePictured
<1> QED
  BY <1>3, <1>4, <1>5 DEF Shown

LEMMA ShownIs ==
  ASSUME NEW F, Shown(F)
  PROVE  \E c \in F : Pictured(Here, SeenOf(l), CursorOf(l), c)
BY DEF Shown, Seen, Cursor, SeenOf, CursorOf

LEMMA HereReady ==
  ASSUME LineInv, CompletionsFit, NEW F, Shown(F)
  PROVE  Ready(l, term)
<1>1. PICK c \in F : Pictured(Here, SeenOf(l), CursorOf(l), c)
  BY ShownIs
<1>2. PICK s \in Seq(Chars), k \in Nat : s = SeenOf(l) /\ k = CursorOf(l)
  BY SeenIs DEF LineInv
<1>0. PICK x : x = [l |-> l, t |-> term]
  OBVIOUS
<1>3. x = Here /\ x.l = l /\ x.t = term
  BY <1>0 DEF Here
<1>4. Pictured(x, s, k, c)
  BY <1>1, <1>2, <1>3
<1>5. Ready(x.l, x.t)
  BY <1>4, PicturedReady DEF LineInv
<1> QED
  BY <1>3, <1>5

LEMMA NowDrawn ==
  ASSUME LineInv, CompletionsFit, Shown(Fills)
  PROVE  \E c \in Fills : /\ Pictured(Completed(Here), Text(Now), Now.pos, c)
                          /\ Pictured(Completed(Here), SeenOf(Now), CursorOf(Now), c)
<1>1. Line(Now) /\ ~Now.in_completion
  BY NowIs
<1>2. ~Shows(Now)
  BY <1>1 DEF Shows
<1>3. SeenOf(Now) = Text(Now) /\ CursorOf(Now) = Now.pos
  BY <1>2 DEF SeenOf, CursorOf
<1>0. PICK h : h = [l |-> l, t |-> term]
  OBVIOUS
<1>4. h = Here /\ h = [l |-> h.l, t |-> h.t] /\ h.l = l /\ h.t = term
  BY <1>0 DEF Here
<1>5. Line(l) /\ settings \in Settings
  BY DEF LineInv
<1>6. CASE ~l.in_completion
  <2>1. Completed(h) = h
    BY <1>4, <1>5, <1>6, CompletedIs
  <2>2. Now = l
    BY <1>4, <2>1 DEF Now
  <2>3. PICK c \in Fills : Pictured(Here, SeenOf(l), CursorOf(l), c)
    BY ShownIs
  <2>4. Pictured(Completed(Here), SeenOf(Now), CursorOf(Now), c)
    BY <1>4, <2>1, <2>2, <2>3
  <2> QED
    BY <1>3, <2>4
<1>7. CASE l.in_completion
  <2>1. PICK x : x = [l |-> Chosen(l), t |-> term]
    OBVIOUS
  <2>2. Completed(h) = refreshLine(x)
    BY <1>4, <1>5, <1>7, <2>1, CompletedIs
  <2>3. Line(x.l) /\ ~x.l.in_completion /\ x.l.oldpos = l.oldpos /\ x.l.oldrows = l.oldrows
    BY <1>5, <2>1, ChosenLine
  <2>4. Ready(x.l, x.t)
    <3>1. Ready(l, term)
      BY HereReady
    <3>2. PICK d : d = x.l
      OBVIOUS
    <3>3. Ready(d, term)
      BY <2>3, <3>1, <3>2, ReadySame
    <3> QED
      BY <2>1, <3>2, <3>3
  <2>5. x = [l |-> x.l, t |-> x.t]
    BY <2>1
  <2>6. PICK y : y = refreshLineWithFlags(x, TRUE, TRUE, settings.hints)
    OBVIOUS
  <2>7. Pictured(y, SeenOf(y.l), CursorOf(y.l), Fill(x.l.len, settings.hints))
    BY <1>5, <2>3, <2>4, <2>5, <2>6, LineDrawn
  <2>8. Completed(Here) = y
    BY <1>4, <2>2, <2>6 DEF refreshLine
  <2>9. y.l = Now
    BY <2>8 DEF Now
  <2>10. Fill(x.l.len, settings.hints) \in Fills
    BY FillIs
  <2> QED
    BY <1>3, <2>7, <2>8, <2>9, <2>10
<1> QED
  BY <1>6, <1>7

LEMMA NowReady ==
  ASSUME LineInv, CompletionsFit, Shown(Fills)
  PROVE  Ready(Now, Completed(Here).t)
<1>1. PICK c \in Fills : Pictured(Completed(Here), Text(Now), Now.pos, c)
  BY NowDrawn
<1>2. PICK s \in Seq(Chars), k \in Nat : s = Text(Now) /\ k = Now.pos
  <2>1. Line(Now)
    BY NowIs
  <2>2. Text(Now) \in Seq(Chars) /\ Now.pos \in Nat
    BY <2>1, TextIs DEF Line, States
  <2> QED
    BY <2>2
<1>3. PICK x : x = Completed(Here)
  OBVIOUS
<1>4. Pictured(x, s, k, c)
  BY <1>1, <1>2, <1>3
<1>5. Ready(x.l, x.t)
  BY <1>4, PicturedReady DEF LineInv
<1> QED
  BY <1>3, <1>5 DEF Now

(* A key that changes the line draws it.                                   *)
LEMMA RedrawnShows ==
  ASSUME LineInv, CompletionsFit, Shown(Fills), NEW d, Line(d), ~d.in_completion,
         d.oldpos = Now.oldpos, d.oldrows = Now.oldrows
  PROVE  LET y == Redrawn(Completed(Here), d) IN
         \E c \in Fills : Pictured(y, SeenOf(y.l), CursorOf(y.l), c) /\ y = [l |-> y.l, t |-> y.t]
<1>1. PICK z : z = Completed(Here) /\ z = [l |-> z.l, t |-> z.t]
  BY CompletedShape
<1>2. PICK x : x = [l |-> d, t |-> z.t]
  OBVIOUS
<1>3. [z EXCEPT !.l = d] = x
  BY <1>1, <1>2
<1>4. PICK y : y = refreshLineWithFlags(x, TRUE, TRUE, settings.hints)
  OBVIOUS
<1>5. Redrawn(z, d) = y
  BY <1>3, <1>4 DEF Redrawn, refreshLine
<1>6. Ready(Now, z.t)
  BY <1>1, NowReady
<1>7. Ready(d, z.t)
  <2>1. PICK e, t : e = Now /\ t = z.t
    OBVIOUS
  <2>2. Ready(d, t)
    BY <1>6, <2>1, ReadySame
  <2> QED
    BY <2>1, <2>2
<1>8. x = [l |-> x.l, t |-> x.t] /\ x.l = d /\ x.t = z.t
  BY <1>2
<1>9. settings \in Settings
  BY DEF LineInv
<1>10. Pictured(y, SeenOf(y.l), CursorOf(y.l), Fill(x.l.len, settings.hints)) /\ y = [l |-> y.l, t |-> y.t]
  BY <1>4, <1>7, <1>8, <1>9, LineDrawn
<1>11. Fill(x.l.len, settings.hints) \in Fills
  BY FillIs
<1> QED
  BY <1>1, <1>5, <1>10, <1>11

LEMMA ShownFills ==
  ASSUME settings' = settings, NEW x, x = [l |-> l', t |-> term'], NEW c \in Fills,
         Pictured(x, SeenOf(x.l), CursorOf(x.l), c)
  PROVE  Shown(Fills)'
<1>1. PICK F : F = Fills
  OBVIOUS
<1>2. Shown(F)'
  BY <1>1, ShownNext
<1>3. Fills' = F
  BY <1>1 DEF Fills
<1> QED
  BY <1>2, <1>3 DEF Shown

LEMMA UnmovedShows ==
  ASSUME LineInv, CompletionsFit, Shown(Fills), settings' = settings,
         l' = Now, term' = Completed(Here).t
  PROVE  Shown(Fills)'
<1>1. PICK z : z = Completed(Here) /\ z.l = Now
  BY DEF Now
<1>2. z = [l |-> l', t |-> term']
  BY <1>1, CompletedShape
<1>3. PICK c \in Fills : Pictured(z, SeenOf(Now), CursorOf(Now), c)
  BY <1>1, NowDrawn
<1>4. Pictured(z, SeenOf(z.l), CursorOf(z.l), c)
  BY <1>1, <1>3
<1> QED
  BY <1>2, <1>4, ShownFills

LEMMA MovedShows ==
  ASSUME LineInv, CompletionsFit, Shown(Fills), settings' = settings,
         NEW d, Line(d), ~d.in_completion, d.oldpos = Now.oldpos, d.oldrows = Now.oldrows,
         l' = Redrawn(Completed(Here), d).l, term' = Redrawn(Completed(Here), d).t
  PROVE  Shown(Fills)'
<1>1. PICK y : y = Redrawn(Completed(Here), d)
  OBVIOUS
<1>2. PICK c \in Fills : Pictured(y, SeenOf(y.l), CursorOf(y.l), c) /\ y = [l |-> y.l, t |-> y.t]
  BY <1>1, RedrawnShows
<1>3. y = [l |-> l', t |-> term']
  BY <1>1, <1>2
<1> QED
  BY <1>2, <1>3, ShownFills

LEMMA EditingShows ==
  ASSUME LineInv', phase' = "edit", Shown(Fills)'
  PROVE  ScreenInv'
BY DEF ScreenInv

LEMMA KeyShows ==
  ASSUME ScreenInv, CompletionsFit, NEW moved, NEW d, IsKey(moved, d)
  PROVE  ScreenInv'
<1>1. LineInv /\ Shown(Fills) /\ settings' = settings /\ phase = "edit" /\ phase' = "edit"
  BY DEF ScreenInv, IsKey, Pressed
<1>2. LineInv'
  BY <1>1, KeyKeeps
<1>3. CASE moved
  <2>1. l' = Redrawn(Completed(Here), d).l /\ term' = Redrawn(Completed(Here), d).t
    BY <1>3 DEF IsKey, Pressed
  <2>2. PICK p, n : Becomes(Now, d, p, n)
    BY <1>3 DEF IsKey
  <2>3. Line(d) /\ ~d.in_completion /\ d.oldpos = Now.oldpos /\ d.oldrows = Now.oldrows
    BY <1>1, <2>2, NowIs DEF Becomes
  <2>4. Shown(Fills)'
    BY <1>1, <2>1, <2>3, MovedShows
  <2> QED
    BY <1>1, <1>2, <2>4, EditingShows
<1>4. CASE ~moved
  <2>1. l' = Now /\ term' = Completed(Here).t
    BY <1>4 DEF IsKey, Pressed, Now
  <2>2. Shown(Fills)'
    BY <1>1, <2>1, UnmovedShows
  <2> QED
    BY <1>1, <1>2, <2>2, EditingShows
<1> QED
  BY <1>3, <1>4

(* A character at the end is the last of the text.                         *)
LEMMA TextAppended ==
  ASSUME NEW e, Line(e), e.len < BufLen, e.pos = e.len, NEW c \in Chars
  PROVE  Text(Inserted(e, c)) = Append(Text(e), c)
<1>1. PICK d : d = Inserted(e, c)
  OBVIOUS
<1>2. PICK n \in Nat : n = e.len /\ n = e.pos
  BY LineNumbers
<1>3. Becomes(e, d, n + 1, n + 1)
  BY <1>1, <1>2, InsertedIs
<1>4. \A i \in 0..n : d.buf[i] = IF i < n THEN e.buf[i] ELSE IF i = n THEN c ELSE e.buf[i - 1]
  BY <1>1, <1>2, InsertedIs
<1>5. PICK s \in Seq(Chars) : s = Text(e) /\ Len(s) = n /\ \A i \in 1..n : s[i] = e.buf[i - 1]
  BY <1>2, TextIs
<1>6. PICK u \in Seq(Chars) : u = Text(d) /\ Len(u) = n + 1 /\ \A i \in 1..(n + 1) : u[i] = d.buf[i - 1]
  BY <1>3, TextIs DEF Becomes
<1>7. ASSUME NEW i \in 1..(n + 1) PROVE u[i] = IF i <= n THEN s[i] ELSE c
  <2>1. i - 1 \in 0..n
    OBVIOUS
  <2>2. u[i] = IF i - 1 < n THEN e.buf[i - 1] ELSE IF i - 1 = n THEN c ELSE e.buf[i - 1 - 1]
    BY <1>4, <1>6, <2>1
  <2>3. CASE i <= n
    BY <1>5, <2>2, <2>3
  <2>4. CASE i = n + 1
    BY <2>2, <2>4
  <2> QED
    BY <2>3, <2>4
<1>8. u = Append(s, c)
  BY <1>5, <1>6, <1>7
<1> QED
  BY <1>1, <1>5, <1>6, <1>8

LEMMA QuicklyShown ==
  ASSUME LineInv, CompletionsFit, Shown(Fills), settings' = settings, NEW c \in Chars, Now.len < BufLen,
         Now.len = Now.pos, ~settings.ml, PromptLen + (Now.len + 1) < settings.cols, ~settings.hints,
         l' = Inserted(Now, c), term' = Type(Completed(Here).t, Masked(<<c>>))
  PROVE  Shown(Fills)'
<1>1. Line(Now) /\ ~Now.in_completion /\ settings \in Settings
  BY NowIs DEF LineInv
<1>2. PICK t : t = Completed(Here).t
  OBVIOUS
<1>3. PICK s \in Seq(Chars), n \in Nat : s = Text(Now) /\ n = Len(s) /\ n = Now.len
  BY <1>1, TextIs
<1>4. InRow(t, s, Len(s), "blank")
  <2>1. PICK f \in Fills : Pictured(Completed(Here), Text(Now), Now.pos, f)
    BY NowDrawn
  <2>2. f = "blank"
    BY <2>1 DEF Fills
  <2>3. PICK z : z = Completed(Here)
    OBVIOUS
  <2>4. InRow(z.t, Text(Now), Now.pos, f)
    BY <2>1, <2>3 DEF Pictured
  <2> QED
    BY <1>2, <1>3, <2>2, <2>3, <2>4
<1>5. PromptLen + Len(s) + 1 < W
  BY <1>3, Widths, <1>1 DEF W
<1>6. InRow(term', Append(s, c), Len(s) + 1, "blank")
  <2>1. term' = Type(t, Masked(<<c>>))
    BY <1>2
  <2> QED
    BY <1>1, <1>4, <1>5, <2>1, AppendIs
<1>7. PICK x : x = [l |-> l', t |-> term']
  OBVIOUS
<1>8. Becomes(Now, x.l, n + 1, n + 1)
  BY <1>1, <1>3, <1>7, InsertedIs
<1>9. ~Shows(x.l)
  BY <1>1, <1>8 DEF Shows, Becomes
<1>10. SeenOf(x.l) = Append(s, c) /\ CursorOf(x.l) = n + 1
  <2>1. Text(x.l) = Append(s, c)
    BY <1>1, <1>3, <1>7, TextAppended
  <2> QED
    BY <1>8, <1>9, <2>1 DEF SeenOf, CursorOf, Becomes
<1>11. Pictured(x, SeenOf(x.l), CursorOf(x.l), "blank")
  BY <1>3, <1>6, <1>7, <1>10 DEF Pictured
<1>12. "blank" \in Fills
  BY DEF Fills
<1> QED
  BY <1>7, <1>11, <1>12, ShownFills

LEMMA InsertShows ==
  ASSUME ScreenInv, CompletionsFit, NEW c \in settings.typed, linenoiseEditInsert(c)
  PROVE  ScreenInv'
<1>1. LineInv /\ Shown(Fills) /\ settings' = settings /\ phase = "edit" /\ phase' = "edit"
  BY DEF ScreenInv, linenoiseEditInsert
<1>2. LineInv'
  BY <1>1, InsertKeeps
<1>3. PICK z : z = Completed(Here) /\ z.l = Now
  BY DEF Now
<1>4. PICK y : y = IF z.l.len < BufLen THEN InsertDrawn(z, c) ELSE z
  OBVIOUS
<1>5. l' = y.l /\ term' = y.t
  BY <1>3, <1>4 DEF linenoiseEditInsert
<1>6. c \in Chars
  BY <1>1, SettingsNumbers DEF LineInv
<1>7. Line(Now) /\ ~Now.in_completion
  BY <1>1, NowIs
<1>8. CASE ~(Now.len < BufLen)
  <2>1. l' = Now /\ term' = Completed(Here).t
    BY <1>3, <1>4, <1>5, <1>8
  <2>2. Shown(Fills)'
    BY <1>1, <2>1, UnmovedShows
  <2> QED
    BY <1>1, <1>2, <2>2, EditingShows
<1>9. CASE Now.len < BufLen
  <2>1. PICK d : d = Inserted(Now, c)
    OBVIOUS
  <2>2. y = InsertDrawn(z, c)
    BY <1>3, <1>4, <1>9
  <2>3. Becomes(Now, d, Now.pos + 1, Now.len + 1)
    BY <1>6, <1>7, <1>9, <2>1, InsertedIs
  <2>4. d.len = Now.len + 1 /\ Line(d) /\ ~d.in_completion /\ d.oldpos = Now.oldpos /\ d.oldrows = Now.oldrows
    BY <1>7, <2>3 DEF Becomes
  <2>5. CASE Now.len = Now.pos /\ ~settings.ml /\ PromptLen + d.len < settings.cols /\ ~settings.hints
    <3>1. y = [l |-> d, t |-> Type(z.t, Masked(<<c>>))]
      BY <1>3, <2>1, <2>2, <2>5 DEF InsertDrawn
    <3>2. l' = Inserted(Now, c) /\ term' = Type(Completed(Here).t, Masked(<<c>>))
      BY <1>3, <1>5, <2>1, <3>1
    <3>3. PromptLen + (Now.len + 1) < settings.cols
      BY <2>4, <2>5
    <3>4. Shown(Fills)'
      BY <1>1, <1>6, <1>9, <2>5, <3>2, <3>3, QuicklyShown
    <3> QED
      BY <1>1, <1>2, <3>4, EditingShows
  <2>6. CASE ~(Now.len = Now.pos /\ ~settings.ml /\ PromptLen + d.len < settings.cols /\ ~settings.hints)
    <3>1. y = Redrawn(z, d)
      BY <1>3, <2>1, <2>2, <2>6 DEF InsertDrawn, Redrawn
    <3>2. l' = Redrawn(Completed(Here), d).l /\ term' = Redrawn(Completed(Here), d).t
      BY <1>3, <1>5, <3>1
    <3>3. Shown(Fills)'
      BY <1>1, <2>4, <3>2, MovedShows
    <3> QED
      BY <1>1, <1>2, <3>3, EditingShows
  <2> QED
    BY <2>5, <2>6
<1> QED
  BY <1>8, <1>9

(* A candidate is drawn as if it were the line.                            *)
Bounded(c) == [i \in 0..Len(c) |-> IF i < Len(c) THEN c[i + 1] ELSE Nul]
Instead(e, c) == [e EXCEPT !.len = Len(c), !.pos = Len(c), !.buf = Bounded(c)]
LEMMA CandidateDrawn ==
  ASSUME settings \in Settings, NEW B, NEW e \in States(B), NEW c \in Seq(Chars), Len(c) < BufLen
  PROVE  /\ Instead(e, c) \in States({Bounded(c)}) /\ Writable(Instead(e, c))
         /\ Text(Instead(e, c)) = c /\ Instead(e, c).pos = Len(c)
         /\ Instead(e, c).oldpos = e.oldpos /\ Instead(e, c).oldrows = e.oldrows
<1>9. PICK b : b = Bounded(c) /\ b = [i \in 0..Len(c) |-> IF i < Len(c) THEN c[i + 1] ELSE Nul]
  BY DEF Bounded
<1>10. PICK shown : shown = Instead(e, c) /\ shown = [e EXCEPT !.len = Len(c), !.pos = Len(c), !.buf = b]
  BY <1>9 DEF Instead
<1>1. shown = [buf |-> b, pos |-> Len(c), len |-> Len(c), oldpos |-> e.oldpos,
        oldrows |-> e.oldrows, history_index |-> e.history_index,
        in_completion |-> e.in_completion, completion_idx |-> e.completion_idx]
  BY <1>10 DEF States
<1>2. PICK n \in Nat : n = Len(c) /\ n < BufLen /\ BufLen \in Nat
  BY Widths
<1>3. shown \in States({b})
  BY <1>1, <1>2 DEF States
<1>4. Text(shown) = [i \in 1..n |-> b[0 + i - 1]]
  BY <1>1, <1>2 DEF Text, Bytes
<1>5. ASSUME NEW i \in 1..n PROVE b[0 + i - 1] = c[i]
  <2>1. PICK j \in 0..n : j = 0 + i - 1 /\ j < n /\ j + 1 = i
    OBVIOUS
  <2>2. b[j] = c[j + 1]
    BY <1>2, <1>9, <2>1
  <2> QED
    BY <2>1, <2>2
<1>6. c = [i \in 1..n |-> c[i]]
  BY <1>2
<1>7. Text(shown) = c
  BY <1>4, <1>5, <1>6
<1>8. Writable(shown)
  <2>1. shown.len = n /\ shown.pos = n
    BY <1>1, <1>2
  <2>2. n \in 0..BufLen /\ n \in 0..n
    BY <1>2
  <2>3. Text(shown) \in Seq(Chars) /\ Len(Text(shown)) = n
    BY <1>2, <1>7
  <2> QED
    BY <2>1, <2>2, <2>3 DEF Writable
<1>11. shown.pos = Len(c) /\ shown.oldpos = e.oldpos /\ shown.oldrows = e.oldrows
  BY <1>1
<1>12. shown = Instead(e, c) /\ b = Bounded(c)
  BY <1>9, <1>10
<1> QED
  BY <1>3, <1>7, <1>8, <1>11, <1>12

LEMMA ShowDraws ==
  ASSUME settings \in Settings, CompletionsFit, NEW x, x = [l |-> x.l, t |-> x.t], Line(x.l), NEW clean,
         (clean = TRUE /\ Ready(x.l, x.t)) \/ (clean = FALSE /\ Empty(x.t))
  PROVE  LET y == refreshLineWithCompletion(x, clean, TRUE) IN
         \E c \in Fills : Pictured(y, SeenOf(y.l), CursorOf(y.l), c) /\ y = [l |-> y.l, t |-> y.t]
<1>1. PICK y : y = refreshLineWithCompletion(x, clean, TRUE)
  OBVIOUS
<1>2. SeenOf(y.l) = SeenOf(x.l) /\ CursorOf(y.l) = CursorOf(x.l)
  <2>1. SameLine(y.l, x.l)
    BY <1>1, ShowKeeps
  <2> QED
    BY <2>1, SameSeen
<1>3. PICK B : B = Buffers /\ x.l \in States(B)
  BY LineNumbers
<1>4. CASE ~Shows(x.l)
  <2>1. y = refreshLineWithFlags(x, clean, TRUE, settings.hints)
    BY <1>1, <1>4 DEF refreshLineWithCompletion
  <2>2. Writable(x.l)
    BY LineWritable
  <2>3. Pictured(y, Text(x.l), x.l.pos, Fill(x.l.len, settings.hints))
    BY <1>3, <2>1, <2>2, RefreshDraws
  <2>4. SeenOf(x.l) = Text(x.l) /\ CursorOf(x.l) = x.l.pos
    BY <1>4 DEF SeenOf, CursorOf
  <2>5. y = [l |-> y.l, t |-> y.t]
    BY <2>1 DEF refreshLineWithFlags
  <2>6. Fill(x.l.len, settings.hints) \in Fills
    BY FillIs
  <2> QED
    BY <1>1, <1>2, <2>3, <2>4, <2>5, <2>6
<1>5. CASE Shows(x.l)
  <2>1. PICK c \in Seq(Chars) : c = Candidate(x.l) /\ Len(c) < BufLen
    BY <1>5, CandidateIs
  <2>2. PICK b : b = Bounded(c)
    OBVIOUS
  <2>4. PICK e \in States(B) : e = x.l
    BY <1>3
  <2>3. PICK shown : shown = Instead(e, c)
    OBVIOUS
  <2>5. /\ shown \in States({b}) /\ Writable(shown) /\ Text(shown) = c /\ shown.pos = Len(c)
        /\ shown.oldpos = e.oldpos /\ shown.oldrows = e.oldrows
    BY <2>1, <2>2, <2>3, CandidateDrawn
  <2>6. PICK z : z = [x EXCEPT !.l = shown]
    OBVIOUS
  <2>7. z.l = shown /\ z.t = x.t
    BY <2>6
  <2>8. PICK new : new = refreshLineWithFlags(z, clean, TRUE, settings.hints)
    OBVIOUS
  <2>9. Pictured(new, Text(z.l), z.l.pos, Fill(z.l.len, settings.hints))
    <3>1. (clean = TRUE /\ Ready(z.l, z.t)) \/ (clean = FALSE /\ Empty(z.t))
      <4>1. CASE clean = TRUE /\ Ready(x.l, x.t)
        <5>1. PICK t : t = x.t
          OBVIOUS
        <5>2. Ready(shown, t)
          BY <2>4, <2>5, <4>1, <5>1, ReadySame
        <5> QED
          BY <2>7, <4>1, <5>1, <5>2
      <4>2. CASE clean = FALSE /\ Empty(x.t)
        BY <2>7, <4>2
      <4> QED
        BY <4>1, <4>2
    <3>2. z.l \in States({b}) /\ Writable(z.l)
      BY <2>5, <2>7
    <3>3. PICK S : S = {b}
      OBVIOUS
    <3>4. z.l \in States(S)
      BY <3>2, <3>3
    <3> QED
      BY <2>8, <3>1, <3>2, <3>4, RefreshDraws
  <2>10. new = [l |-> new.l, t |-> new.t] /\ new.l \in States({b})
    <3>1. new = [l |-> new.l, t |-> new.t]
      BY <2>8 DEF refreshLineWithFlags
    <3>2. new.l \in States({b})
      BY <2>5, <2>7, <2>8, RefreshKeeps
    <3> QED
      BY <3>1, <3>2
  <2>11. y = [new EXCEPT !.l.len = x.l.len, !.l.pos = x.l.pos, !.l.buf = x.l.buf]
    BY <1>1, <1>5, <2>1, <2>2, <2>3, <2>4, <2>6, <2>8 DEF refreshLineWithCompletion, Instead, Bounded
  <2>12. PICK d : d = [new.l EXCEPT !.len = x.l.len, !.pos = x.l.pos, !.buf = x.l.buf]
    OBVIOUS
  <2>13. y = [l |-> d, t |-> new.t]
    <3>1. PICK n1 : n1 = [new EXCEPT !.l.len = x.l.len]
      OBVIOUS
    <3>2. PICK d1 : d1 = [new.l EXCEPT !.len = x.l.len]
      OBVIOUS
    <3>3. n1 = [l |-> d1, t |-> new.t]
      BY <2>10, <3>1, <3>2
    <3>4. PICK n2 : n2 = [n1 EXCEPT !.l.pos = x.l.pos]
      OBVIOUS
    <3>5. PICK d2 : d2 = [d1 EXCEPT !.pos = x.l.pos]
      OBVIOUS
    <3>6. n2 = [l |-> d2, t |-> new.t]
      BY <3>3, <3>4, <3>5
    <3>7. [n2 EXCEPT !.l.buf = x.l.buf] = [l |-> [d2 EXCEPT !.buf = x.l.buf], t |-> new.t]
      BY <3>6
    <3> QED
      BY <2>11, <2>12, <3>1, <3>2, <3>4, <3>5, <3>7
  <2>14. d.oldpos = new.l.oldpos /\ d.oldrows = new.l.oldrows
    BY <2>10, <2>12 DEF States
  <2>15. SeenOf(x.l) = c /\ CursorOf(x.l) = Len(c)
    BY <1>5, <2>1 DEF SeenOf, CursorOf
  <2>16. PICK f : f = Fill(z.l.len, settings.hints) /\ f \in Fills
    BY FillIs
  <2>17. Pictured(new, c, Len(c), f)
    BY <2>5, <2>7, <2>9, <2>16
  <2>18. Pictured(y, c, Len(c), f)
    <3>1. PICK k : k = Len(c)
      OBVIOUS
    <3>2. y.t = new.t /\ y.l.oldpos = new.l.oldpos /\ y.l.oldrows = new.l.oldrows
      BY <2>13, <2>14
    <3>3. Pictured(y, c, k, f)
      BY <2>17, <3>1, <3>2, PicturedSame
    <3> QED
      BY <3>1, <3>3
  <2>19. y = [l |-> y.l, t |-> y.t]
    BY <2>13
  <2> QED
    BY <1>1, <1>2, <2>15, <2>16, <2>18, <2>19
<1> QED
  BY <1>4, <1>5

LEMMA TabShows ==
  ASSUME LineInv, CompletionsFit, Shown(Fills), settings' = settings, CompletionKey(CompleteTab)
  PROVE  Shown(Fills)'
<1>1. settings \in Settings /\ Line(l) /\ l \in States(Buffers)
  BY DEF LineInv, Line
<1>2. PICK n \in Nat : n = Len(Completions(CString(l)))
  <2>1. CString(l) \in Seq(Chars)
    BY <1>1, TextIs
  <2>2. Completions(CString(l)) \in Seq(Seq(Chars))
    BY <2>1 DEF CompletionsFit
  <2> QED
    BY <2>2
<1>3. PICK next : next = IF l.in_completion THEN [l EXCEPT !.completion_idx = (@ + 1) % (n + 1)]
                                           ELSE [l EXCEPT !.in_completion = TRUE, !.completion_idx = 0]
  OBVIOUS
<1>4. PICK k \in Nat : k = IF l.in_completion THEN (l.completion_idx + 1) % (n + 1) ELSE 0
  <2>1. l.completion_idx + 1 \in Nat /\ n + 1 \in Nat /\ n + 1 > 0
    BY <1>1 DEF States
  <2>2. (l.completion_idx + 1) % (n + 1) \in 0..((n + 1) - 1)
    BY <2>1, Division
  <2> QED
    BY <2>2
<1>5. next = [buf |-> l.buf, pos |-> l.pos, len |-> l.len, oldpos |-> l.oldpos, oldrows |-> l.oldrows,
              history_index |-> l.history_index, in_completion |-> TRUE, completion_idx |-> k]
  <2>1. CASE l.in_completion
    <3>1. next = [l EXCEPT !.completion_idx = k]
      BY <1>3, <1>4, <2>1
    <3> QED
      BY <1>1, <2>1, <3>1 DEF States
  <2>2. CASE ~l.in_completion
    <3>1. next = [l EXCEPT !.in_completion = TRUE, !.completion_idx = k]
      BY <1>3, <1>4, <2>2
    <3> QED
      BY <1>1, <2>2, <3>1 DEF States
  <2> QED
    BY <2>1, <2>2
<1>6. Line(next)
  BY <1>1, <1>5 DEF Line, States
<1>7. PICK x : x = [Here EXCEPT !.l = next]
  OBVIOUS
<1>8. x = [l |-> next, t |-> term]
  BY <1>7 DEF Here
<1>9. PICK y : y = refreshLineWithCompletion(x, TRUE, TRUE)
  OBVIOUS
<1>10. l' = y.l /\ term' = y.t
  BY <1>2, <1>3, <1>7, <1>9 DEF CompletionKey, CompleteTab, Here
<1>11. Ready(next, term)
  <2>1. Ready(l, term)
    BY HereReady
  <2>2. next.oldpos = l.oldpos /\ next.oldrows = l.oldrows
    BY <1>5
  <2> QED
    BY <2>1, <2>2, ReadySame
<1>12. PICK c \in Fills : Pictured(y, SeenOf(y.l), CursorOf(y.l), c) /\ y = [l |-> y.l, t |-> y.t]
  <2>1. x.l = next /\ x.t = term /\ x = [l |-> x.l, t |-> x.t]
    BY <1>8
  <2>2. Ready(x.l, x.t) /\ Line(x.l)
    BY <1>6, <1>11, <2>1
  <2> QED
    BY <1>1, <1>9, <2>1, <2>2, ShowDraws
<1>13. y = [l |-> l', t |-> term']
  BY <1>10, <1>12
<1> QED
  BY <1>12, <1>13, ShownFills

LEMMA EscapeShows ==
  ASSUME LineInv, CompletionsFit, Shown(Fills), settings' = settings, CompletionKey(CompleteEscape)
  PROVE  Shown(Fills)'
<1>1. settings \in Settings /\ Line(l) /\ l \in States(Buffers)
  BY DEF LineInv, Line
<1>2. PICK h : h = [l |-> l, t |-> term]
  OBVIOUS
<1>3. h = Here /\ h.l = l /\ h.t = term
  BY <1>2 DEF Here
<1>4. PICK x : x = IF Shows(l) THEN refreshLine(h) ELSE h
  OBVIOUS
<1>5. PICK r : r = refreshLineWithFlags(h, TRUE, TRUE, settings.hints)
  OBVIOUS
<1>6. r \in {r} /\ refreshLine(h) = r /\ r = [l |-> r.l, t |-> r.t]
  BY <1>5 DEF refreshLine, refreshLineWithFlags
<1>7. Ready(h.l, h.t)
  BY <1>3, HereReady
<1>8. Line(r.l) /\ SameLine(r.l, l)
  <2>1. r.l \in States(Buffers) /\ SameLine(r.l, h.l)
    BY <1>1, <1>3, <1>5, RefreshKeeps
  <2> QED
    BY <1>1, <1>3, <2>1 DEF Line, SameLine
<1>9. Ready(r.l, r.t)
  <2>1. Writable(h.l) /\ h.l \in States(Buffers)
    BY <1>1, <1>3, LineWritable
  <2>2. PICK B : B = Buffers
    OBVIOUS
  <2>3. h.l \in States(B)
    BY <2>1, <2>2
  <2>4. PICK s \in Seq(Chars), k \in Nat, f \in {Fill(h.l.len, settings.hints)} : s = Text(h.l) /\ k = h.l.pos /\ f = Fill(h.l.len, settings.hints)
    <3>1. Text(h.l) \in Seq(Chars) /\ h.l.pos \in Nat
      BY <1>1, <1>3, TextIs DEF States
    <3> QED
      BY <3>1
  <2>5. Pictured(r, s, k, f)
    BY <1>1, <1>5, <1>7, <2>1, <2>3, <2>4, RefreshDraws
  <2> QED
    BY <1>1, <2>5, PicturedReady
<1>10. x = [l |-> x.l, t |-> x.t] /\ Line(x.l) /\ SameLine(x.l, l) /\ Ready(x.l, x.t)
  <2>1. SameLine(l, l)
    BY DEF SameLine
  <2>2. CASE Shows(l)
    BY <1>4, <1>6, <1>8, <1>9, <2>2
  <2>3. CASE ~Shows(l)
    BY <1>1, <1>2, <1>3, <1>4, <1>7, <2>1, <2>3
  <2> QED
    BY <2>2, <2>3
<1>11. PICK d : d = [x.l EXCEPT !.in_completion = FALSE]
  OBVIOUS
<1>12. d = [buf |-> x.l.buf, pos |-> x.l.pos, len |-> x.l.len, oldpos |-> x.l.oldpos,
            oldrows |-> x.l.oldrows, history_index |-> x.l.history_index, in_completion |-> FALSE,
            completion_idx |-> x.l.completion_idx]
  BY <1>10, <1>11 DEF Line, States
<1>13. Line(d) /\ ~d.in_completion /\ d.oldpos = x.l.oldpos /\ d.oldrows = x.l.oldrows
  BY <1>10, <1>12 DEF Line, States
<1>14. PICK z : z = [l |-> d, t |-> x.t]
  OBVIOUS
<1>15. PICK y : y = refreshLineWithFlags(z, TRUE, TRUE, settings.hints)
  OBVIOUS
<1>16. l' = y.l /\ term' = y.t
  <2>1. [x EXCEPT !.l.in_completion = FALSE] = z
    <3>1. [x EXCEPT !.l.in_completion = FALSE] = [x EXCEPT !.l = d]
      BY <1>10, <1>11
    <3>2. [x EXCEPT !.l = d] = z
      BY <1>10, <1>14
    <3> QED
      BY <3>1, <3>2
  <2>2. CompleteEscape(h) = refreshLine([IF Shows(h.l) THEN refreshLine(h) ELSE h EXCEPT !.l.in_completion = FALSE])
    BY DEF CompleteEscape
  <2>3. [IF Shows(h.l) THEN refreshLine(h) ELSE h EXCEPT !.l.in_completion = FALSE] = [x EXCEPT !.l.in_completion = FALSE]
    BY <1>3, <1>4
  <2>4. CompleteEscape(h) = y
    BY <1>15, <2>1, <2>2, <2>3 DEF refreshLine
  <2>5. l' = CompleteEscape(h).l /\ term' = CompleteEscape(h).t
    BY <1>3 DEF CompletionKey
  <2> QED
    BY <2>4, <2>5
<1>17. Ready(d, x.t)
  <2>1. PICK e, t : e = x.l /\ t = x.t
    OBVIOUS
  <2>2. Ready(d, t)
    BY <1>10, <1>13, <2>1, ReadySame
  <2> QED
    BY <2>1, <2>2
<1>18. Pictured(y, SeenOf(y.l), CursorOf(y.l), Fill(z.l.len, settings.hints)) /\ y = [l |-> y.l, t |-> y.t]
  <2>1. z = [l |-> z.l, t |-> z.t] /\ z.l = d /\ z.t = x.t
    BY <1>14
  <2> QED
    BY <1>1, <1>13, <1>15, <1>17, <2>1, LineDrawn
<1>19. y = [l |-> l', t |-> term']
  BY <1>16, <1>18
<1>20. PICK f : f = Fill(z.l.len, settings.hints) /\ f \in Fills
  BY FillIs
<1> QED
  BY <1>18, <1>19, <1>20, ShownFills

LEMMA CompletionShows ==
  ASSUME ScreenInv, CompletionsFit, CompletionKey(CompleteTab) \/ CompletionKey(CompleteEscape)
  PROVE  ScreenInv'
<1>1. LineInv /\ Shown(Fills) /\ settings' = settings /\ phase' = "edit"
  BY DEF ScreenInv, CompletionKey
<1>2. LineInv'
  BY <1>1, CompletionKeeps
<1>3. Shown(Fills)'
  BY <1>1, TabShows, EscapeShows
<1> QED
  BY <1>1, <1>2, <1>3, EditingShows

LEMMA ClearShows ==
  ASSUME ScreenInv, CompletionsFit, ClearScreen
  PROVE  ScreenInv'
<1>1. LineInv /\ Shown(Fills) /\ settings' = settings /\ phase' = "edit" /\ settings \in Settings
  BY DEF ScreenInv, ClearScreen, LineInv
<1>2. PICK z : z = Completed(Here) /\ z.l = Now /\ z = [l |-> z.l, t |-> z.t]
  <2>1. Completed(Here) = [l |-> Completed(Here).l, t |-> Completed(Here).t]
    BY <1>1, CompletedShape
  <2> QED
    BY <2>1 DEF Now
<1>3. PICK x : x = [z EXCEPT !.t = linenoiseClearScreen(@)]
  OBVIOUS
<1>4. x = [l |-> x.l, t |-> x.t] /\ x.l = Now /\ x.t = linenoiseClearScreen(z.t)
  BY <1>2, <1>3
<1>5. PICK y : y = refreshLineWithFlags(x, TRUE, TRUE, settings.hints)
  OBVIOUS
<1>6. l' = y.l /\ term' = y.t
  BY <1>2, <1>3, <1>5 DEF ClearScreen, refreshLine
<1>7. Line(x.l) /\ ~x.l.in_completion
  BY <1>1, <1>4, NowIs
<1>8. PICK s \in Seq(Chars), k \in Nat, f \in Fills : Pictured(z, s, k, f)
  <2>1. PICK c \in Fills : Pictured(Completed(Here), Text(Now), Now.pos, c)
    BY <1>1, NowDrawn
  <2>2. Text(Now) \in Seq(Chars) /\ Now.pos \in Nat
    BY <1>4, <1>7, TextIs DEF Line, States
  <2> QED
    BY <1>2, <2>1, <2>2
<1>9. Ready(x.l, x.t)
  <2>1. z.t \in Terms
    <3>1. CASE settings.ml
      BY <1>8, <3>1 DEF Pictured, InRows, ScreenOf
    <3>2. CASE ~settings.ml
      BY <1>8, <3>2 DEF Pictured, InRow, ScreenOf
    <3> QED
      BY <3>1, <3>2
  <2>2. CASE settings.ml
    <3>1. Kept(z.l, Len(s), k)
      BY <1>8, <2>2 DEF Pictured
    <3>2. PICK t \in Terms, e \in {z.l}, n \in {Len(s)} : t = z.t /\ e = z.l /\ n = Len(s)
      BY <2>1
    <3>3. Clearable(e, linenoiseClearScreen(t))
      BY <1>1, <3>1, <3>2, ScreenIsClearable
    <3> QED
      BY <1>2, <1>4, <2>2, <3>2, <3>3 DEF Ready
  <2>3. CASE ~settings.ml
    <3>1. PICK e : e.oldpos = 0 /\ e.oldrows = 0
      <4>1. PICK e : e = [oldpos |-> 0, oldrows |-> 0]
        OBVIOUS
      <4> QED
        BY <4>1
    <3>2. Kept(e, 0, 0)
      BY <1>1, <3>1, NothingKept
    <3>3. PICK t \in Terms : t = z.t
      BY <2>1
    <3>4. OneRow(linenoiseClearScreen(t))
      BY <1>1, <3>2, ScreenIsClearable
    <3> QED
      BY <1>4, <2>3, <3>3, <3>4 DEF Ready
  <2> QED
    BY <2>2, <2>3
<1>10. Pictured(y, SeenOf(y.l), CursorOf(y.l), Fill(x.l.len, settings.hints)) /\ y = [l |-> y.l, t |-> y.t]
  BY <1>1, <1>4, <1>5, <1>7, <1>9, LineDrawn
<1>11. y = [l |-> l', t |-> term']
  BY <1>6, <1>10
<1>12. PICK g : g = Fill(x.l.len, settings.hints) /\ g \in Fills
  BY FillIs
<1>13. Shown(Fills)'
  BY <1>1, <1>10, <1>11, <1>12, ShownFills
<1>14. LineInv'
  BY <1>1, ClearKeeps
<1> QED
  BY <1>1, <1>13, <1>14, EditingShows

LEMMA RecallShows ==
  ASSUME ScreenInv, CompletionsFit, NEW step \in {1, -1}, linenoiseEditHistoryNext(step)
  PROVE  ScreenInv'
<1>1. LineInv /\ Shown(Fills) /\ settings' = settings /\ phase = "edit" /\ phase' = "edit"
  BY DEF ScreenInv, linenoiseEditHistoryNext
<1>2. LineInv'
  BY <1>1, RecallKeeps
<1>3. PICK x : x = Completed(Here) /\ x.l = Now
  BY DEF Now
<1>4. Line(Now) /\ ~Now.in_completion /\ Now.history_index = l.history_index /\ Now \in States(Buffers)
  BY <1>1, NowIs DEF Line
<1>5. history \in Seq(Seq(Chars)) /\ Len(history) \in Nat /\ l.history_index \in Int
  BY <1>1, <1>4 DEF LineInv, States
<1>6. CASE Len(history) <= 1
  <2>1. l' = Now /\ term' = Completed(Here).t
    BY <1>3, <1>6 DEF linenoiseEditHistoryNext
  <2>2. Shown(Fills)'
    BY <1>1, <2>1, UnmovedShows
  <2> QED
    BY <1>1, <1>2, <2>2, EditingShows
<1>7. CASE ~(Len(history) <= 1)
  <2>1. PICK index \in Int : index = Now.history_index + step
    BY <1>4, <1>5
  <2>2. PICK h \in Seq(Seq(Chars)) : h = Stored
    BY <1>1, StoredIs
  <2>3. [history EXCEPT ![Place(x.l)] = CString(x.l)] = h
    BY <1>3, <2>2 DEF Stored
  <2>4. PICK y : y = IF index \notin 0..(Len(h) - 1) THEN x
                     ELSE refreshLine([x EXCEPT !.l = Recalled([x.l EXCEPT !.history_index = index], h[Len(h) - index])])
    OBVIOUS
  <2>5. l' = y.l /\ term' = y.t
    <3>1. PICK g \in {[history EXCEPT ![Place(x.l)] = CString(x.l)]} :
            LET i == x.l.history_index + step
                z == IF i \notin 0..(Len(g) - 1) THEN x
                     ELSE refreshLine([x EXCEPT !.l = Recalled([x.l EXCEPT !.history_index = i], g[Len(g) - i])])
            IN l' = z.l /\ term' = z.t
      BY <1>3, <1>7 DEF linenoiseEditHistoryNext
    <3>2. g = h
      BY <2>3
    <3>3. x.l.history_index + step = index
      BY <1>3, <2>1
    <3> QED
      BY <2>4, <3>1, <3>2, <3>3
  <2>6. CASE index \notin 0..(Len(h) - 1)
    <3>1. l' = Now /\ term' = Completed(Here).t
      BY <1>3, <2>4, <2>5, <2>6
    <3>2. Shown(Fills)'
      BY <1>1, <3>1, UnmovedShows
    <3> QED
      BY <1>1, <1>2, <3>2, EditingShows
  <2>7. CASE index \in 0..(Len(h) - 1)
    <3>1. Len(h) - index \in 1..Len(h)
      BY <2>7
    <3>2. PICK line \in Seq(Chars) : line = h[Len(h) - index]
      BY <3>1
    <3>3. PICK e : e = [x.l EXCEPT !.history_index = index]
      OBVIOUS
    <3>4. e = [buf |-> Now.buf, pos |-> Now.pos, len |-> Now.len, oldpos |-> Now.oldpos,
               oldrows |-> Now.oldrows, history_index |-> index, in_completion |-> Now.in_completion,
               completion_idx |-> Now.completion_idx]
      BY <1>3, <1>4, <3>3 DEF States
    <3>5. Line(e) /\ ~e.in_completion /\ e.oldpos = Now.oldpos /\ e.oldrows = Now.oldrows
      BY <1>4, <3>4 DEF Line, States
    <3>6. PICK d : d = Recalled(e, line)
      OBVIOUS
    <3>7. PICK n : Becomes(e, d, n, n)
      BY <3>5, <3>6, RecalledIs
    <3>8. Line(d) /\ ~d.in_completion /\ d.oldpos = Now.oldpos /\ d.oldrows = Now.oldrows
      BY <3>5, <3>7 DEF Becomes
    <3>9. y = Redrawn(x, d)
      BY <2>4, <2>7, <3>2, <3>3, <3>6 DEF Redrawn
    <3>10. l' = Redrawn(Completed(Here), d).l /\ term' = Redrawn(Completed(Here), d).t
      BY <1>3, <2>5, <3>9
    <3>11. Shown(Fills)'
      BY <1>1, <3>8, <3>10, MovedShows
    <3> QED
      BY <1>1, <1>2, <3>11, EditingShows
  <2> QED
    BY <2>6, <2>7
<1> QED
  BY <1>6, <1>7

(* The prompt is what is shown of an empty line.                           *)
LEMMA PromptShown ==
  ASSUME settings \in Settings
  PROVE  \E t : t = Type(Blank, Prompt) /\ (IF settings.ml THEN InRows(t, <<>>, 0, "blank") ELSE InRow(t, <<>>, 0, "blank"))
<1>1. PICK w \in Nat, k \in Nat : w = W /\ k = PromptLen /\ k > 0 /\ k < w
  BY Widths
<1>2. <<>> \in Seq(Chars) /\ Len(<<>>) = 0
  OBVIOUS
<1>3. PICK s \in Seq(Chars) : s = <<>> /\ Len(s) = 0
  BY <1>2
<1>4. PICK u : u = Used(s)
  OBVIOUS
<1>5. Len(u) = PromptLen + Len(s)
  BY <1>4, UsedIs
<1>6. Prompt = u
  <2>1. Masked(s) = <<>>
    BY <1>3 DEF Masked
  <2>2. Prompt \in Seq(Codes)
    BY <1>1 DEF Prompt, Codes
  <2>3. Prompt \o <<>> = Prompt
    BY <2>2
  <2> QED
    BY <1>4, <2>1, <2>3 DEF Used
<1>7. Empty(Blank)
  BY BlankIsEmpty
<1>8. PICK t : t = Type(Blank, Prompt)
  OBVIOUS
<1>9. HintFor(Len(s), FALSE) = <<>>
  BY DEF HintFor
<1>10. Used(s) \o HintFor(Len(s), FALSE) = Prompt
  <2>1. Prompt \in Seq(Codes)
    BY <1>1 DEF Prompt, Codes
  <2>2. Prompt \o <<>> = Prompt
    BY <2>1
  <2> QED
    BY <1>4, <1>6, <1>9, <2>2
<1>11. PICK n \in Nat : n = (PromptLen + Len(s) + W - 1) \div W /\ n = 1
  <2>1. PICK r \in 0..(w - 1) : r = k - 1
    BY <1>1
  <2>2. PICK a : a = 1 * w + r /\ a = PromptLen + Len(s) + W - 1
    <3>1. PICK a \in Int : a = w + (k - 1)
      BY <1>1
    <3>2. PromptLen + Len(s) + W - 1 = a
      BY <1>1, <1>3, <3>1
    <3>3. 1 * w + r = a
      BY <1>1, <2>1, <3>1
    <3> QED
      BY <3>2, <3>3
  <2>4. PICK q \in Nat : q = 1 /\ a = q * w + r
    BY <2>2
  <2>3. a \div w = 1
    BY <1>1, <2>1, <2>4, DivisionIs
  <2> QED
    BY <1>1, <2>2, <2>3
<1>12. t.row + 1 = t.top + n /\ t.col \in 1..W /\ t.top = Blank.top /\ ScreenOf(t, Used(s), Fill(Len(s), FALSE))
  <2>1. PICK b : b = Blank
    OBVIOUS
  <2>2. t = Type(b, Used(s) \o HintFor(Len(s), FALSE)) /\ Empty(b)
    BY <1>7, <1>8, <1>10, <2>1
  <2> QED
    <3>1. PICK hints : hints = FALSE
      OBVIOUS
    <3>2. t = Type(b, Used(s) \o HintFor(Len(s), hints))
      BY <2>2, <3>1
    <3>3. t.row + 1 = b.top + n /\ t.col \in 1..W /\ t.top = b.top /\ ScreenOf(t, Used(s), Fill(Len(s), hints))
      BY <1>11, <2>2, <3>2, LinesTyped
    <3> QED
      BY <2>1, <3>1, <3>3
<1>13. ScreenOf(t, Used(s), "blank")
  <2>1. Fill(Len(s), FALSE) = "blank"
    BY DEF Fill
  <2> QED
    BY <1>12, <2>1
<1>14. t \in Terms /\ t.row \in Nat /\ t.top \in Nat /\ t.col \in Nat /\ t.row = t.top
  <2>1. t \in Terms
    BY <1>13 DEF ScreenOf
  <2>2. t.row \in Nat /\ t.top \in Nat /\ t.col \in Nat
    BY <2>1 DEF Terms
  <2> QED
    BY <1>11, <1>12, <2>1, <2>2
<1>15. t.col = k
  <2>1. Blank \in Terms /\ Blank.col = 0 /\ Blank.row = Blank.top
    BY <1>7 DEF Empty
  <2>2. PICK b \in Terms, v \in Seq(Codes) : b = Blank /\ v = Prompt /\ Len(v) = k
    <3>1. Prompt \in Seq(Codes) /\ Len(Prompt) = k
      BY <1>1 DEF Prompt, Codes
    <3> QED
      BY <2>1, <3>1
  <2>3. (Type(b, v).row - b.top) * W + Type(b, v).col = Len(v)
    BY <1>1, <2>1, <2>2, TypedFromTop
  <2>4. (t.row - t.top) * W + t.col = k
    BY <1>8, <1>12, <2>2, <2>3
  <2>5. (t.row - t.top) * W = 0
    BY <1>1, <1>14
  <2> QED
    BY <1>14, <2>4, <2>5
<1>16. CASE settings.ml
  <2>1. (t.row - t.top) * W = 0
    BY <1>1, <1>14
  <2>2. (t.row - t.top) * W + t.col = PromptLen + 0
    BY <1>1, <1>14, <1>15, <2>1
  <2>3. t.col < W
    BY <1>1, <1>15
  <2>4. InRows(t, s, 0, "blank")
    BY <1>13, <2>2, <2>3 DEF InRows
  <2> QED
    BY <1>3, <1>8, <1>16, <2>4
<1>17. CASE ~settings.ml
  <2>1. Window(s, 0) = s
    <3>1. SubSeq(<<>>, 1, 0) = <<>>
      OBVIOUS
    <3>2. Min2(0, 0 + (W - PromptLen)) = 0
      BY <1>1 DEF Min2
    <3> QED
      BY <1>3, <3>1, <3>2 DEF Window
  <2>2. t.col = PromptLen + 0 - 0 /\ t.col < W
    BY <1>1, <1>15
  <2>3. ScreenOf(t, Used(Window(s, 0)), "blank")
    BY <1>13, <2>1
  <2>4. InRow(t, s, 0, "blank")
    BY <1>14, <2>2, <2>3 DEF InRow
  <2> QED
    BY <1>3, <1>8, <1>17, <2>4
<1> QED
  BY <1>16, <1>17

LEMMA StartShows ==
  ASSUME ScreenInv, linenoiseEditStart
  PROVE  ScreenInv'
<1>1. LineInv /\ settings' = settings /\ phase' = "edit" /\ settings \in Settings /\ l' = Fresh /\ term' = Type(Blank, Prompt)
  BY DEF ScreenInv, LineInv, linenoiseEditStart
<1>2. LineInv'
  BY <1>1, StartKeeps
<1>3. PICK t : t = Type(Blank, Prompt) /\ (IF settings.ml THEN InRows(t, <<>>, 0, "blank") ELSE InRow(t, <<>>, 0, "blank"))
  BY <1>1, PromptShown
<1>4. PICK x : x = [l |-> l', t |-> term']
  OBVIOUS
<1>5. x.l = Fresh /\ x.t = t
  BY <1>1, <1>3, <1>4
<1>6. Kept(x.l, 0, 0)
  <2>1. x.l.oldpos = 0 /\ x.l.oldrows = 0
    BY <1>5 DEF Fresh
  <2> QED
    BY <1>1, <2>1, NothingKept
<1>7. PICK s, k : s = <<>> /\ k = 0 /\ Len(s) = 0
  OBVIOUS
<1>8. Pictured(x, s, k, "blank")
  BY <1>3, <1>5, <1>6, <1>7 DEF Pictured
<1>9. SeenOf(x.l) = s /\ CursorOf(x.l) = k
  <2>1. ~Shows(x.l) /\ x.l.pos = 0 /\ x.l.len = 0
    BY <1>5, FreshIs DEF Shows
  <2>2. Text(x.l) = <<>>
    BY <2>1 DEF Text, Bytes
  <2> QED
    BY <1>7, <2>1, <2>2 DEF SeenOf, CursorOf
<1>10. "blank" \in Fills
  BY DEF Fills
<1>11. Shown(Fills)'
  BY <1>1, <1>4, <1>8, <1>9, <1>10, ShownFills
<1> QED
  BY <1>1, <1>2, <1>11, EditingShows

LEMMA EnterShows ==
  ASSUME ScreenInv, CompletionsFit, Enter
  PROVE  ScreenInv'
<1>1. LineInv /\ Shown(Fills) /\ settings' = settings /\ phase' = "done" /\ settings \in Settings
  BY DEF ScreenInv, LineInv, Enter
<1>2. LineInv'
  BY <1>1, EnterKeeps
<1>3. PICK x : x = Completed(Here) /\ x.l = Now /\ x = [l |-> x.l, t |-> x.t]
  <2>1. Completed(Here) = [l |-> Completed(Here).l, t |-> Completed(Here).t]
    BY <1>1, CompletedShape
  <2> QED
    BY <2>1 DEF Now
<1>4. Line(Now) /\ ~Now.in_completion
  BY <1>1, NowIs
<1>5. PICK y : y = IF settings.ml /\ x.l.pos # x.l.len THEN refreshLine([x EXCEPT !.l.pos = x.l.len]) ELSE x
  OBVIOUS
<1>6. PICK z : z = IF settings.hints THEN refreshLineWithFlags(y, TRUE, TRUE, FALSE) ELSE y
  OBVIOUS
<1>7. l' = z.l /\ term' = z.t
  BY <1>3, <1>5, <1>6 DEF Enter
<1>8. /\ Line(y.l) /\ ~y.l.in_completion /\ y = [l |-> y.l, t |-> y.t]
      /\ \E c \in Fills : Pictured(y, SeenOf(y.l), CursorOf(y.l), c)
  <2>1. CASE settings.ml /\ x.l.pos # x.l.len
    <3>1. PICK d : d = MovedEnd(Now)
      OBVIOUS
    <3>2. Becomes(Now, d, Now.len, Now.len)
      BY <1>4, <3>1, MovesKeep
    <3>3. Line(d) /\ ~d.in_completion /\ d.oldpos = Now.oldpos /\ d.oldrows = Now.oldrows
      BY <1>4, <3>2 DEF Becomes
    <3>4. [x EXCEPT !.l.pos = x.l.len] = [x EXCEPT !.l = d]
      BY <1>3, <3>1 DEF MovedEnd
    <3>5. y = Redrawn(x, d)
      BY <1>5, <2>1, <3>4 DEF Redrawn
    <3>6. \E c \in Fills : Pictured(y, SeenOf(y.l), CursorOf(y.l), c) /\ y = [l |-> y.l, t |-> y.t]
      BY <1>1, <1>3, <3>3, <3>5, RedrawnShows
    <3>7. Line(y.l) /\ SameLine(y.l, d)
      BY <1>1, <1>3, <3>3, <3>5, RedrawnIs
    <3> QED
      BY <3>3, <3>6, <3>7 DEF SameLine
  <2>2. CASE ~(settings.ml /\ x.l.pos # x.l.len)
    <3>1. y = x
      BY <1>5, <2>2
    <3>2. \E c \in Fills : Pictured(x, SeenOf(Now), CursorOf(Now), c)
      BY <1>1, <1>3, NowDrawn
    <3> QED
      BY <1>3, <1>4, <3>1, <3>2
  <2> QED
    BY <2>1, <2>2
<1>9. PICK c \in Fills : Pictured(y, SeenOf(y.l), CursorOf(y.l), c)
  BY <1>8
<1>10. Pictured(z, SeenOf(z.l), CursorOf(z.l), "blank") /\ z = [l |-> z.l, t |-> z.t]
  <2>1. CASE settings.hints
    <3>1. z = refreshLineWithFlags(y, TRUE, TRUE, FALSE)
      BY <1>6, <2>1
    <3>2. PICK s \in Seq(Chars), k \in Nat : s = SeenOf(y.l) /\ k = CursorOf(y.l)
      BY <1>8, SeenIs
    <3>3. Ready(y.l, y.t)
      BY <1>1, <1>9, <3>2, PicturedReady
    <3>4. PICK hints : hints = FALSE
      OBVIOUS
    <3>5. Pictured(z, SeenOf(z.l), CursorOf(z.l), Fill(y.l.len, hints)) /\ z = [l |-> z.l, t |-> z.t]
      BY <1>1, <1>8, <3>1, <3>3, <3>4, LineDrawn
    <3>6. Fill(y.l.len, hints) = "blank"
      BY <3>4 DEF Fill
    <3> QED
      BY <3>5, <3>6
  <2>2. CASE ~settings.hints
    <3>1. c = "blank"
      BY <1>9, <2>2 DEF Fills
    <3>2. z = y
      BY <1>6, <2>2
    <3> QED
      BY <1>8, <1>9, <3>1, <3>2
  <2> QED
    BY <2>1, <2>2
<1>11. z = [l |-> l', t |-> term']
  BY <1>7, <1>10
<1>12. PICK F : F = {"blank"}
  OBVIOUS
<1>13. Shown(F)'
  BY <1>1, <1>10, <1>11, <1>12, ShownNext
<1>14. Shown({"blank"})'
  BY <1>12, <1>13
<1> QED
  BY <1>1, <1>2, <1>14 DEF ScreenInv

LEMMA HideShows ==
  ASSUME ScreenInv, CompletionsFit, linenoiseHide
  PROVE  ScreenInv'
<1>1. LineInv /\ Shown(Fills) /\ settings' = settings /\ phase' = "hidden" /\ settings \in Settings
  BY DEF ScreenInv, LineInv, linenoiseHide
<1>2. LineInv'
  BY <1>1, HideShowKeep
<1>3. PICK h : h = [l |-> l, t |-> term]
  OBVIOUS
<1>4. h = Here /\ h.l = l /\ h.t = term
  BY <1>3 DEF Here
<1>5. Ready(h.l, h.t)
  BY <1>1, <1>4, HereReady
<1>6. PICK x : x = refreshLineWithFlags(h, TRUE, FALSE, FALSE)
  OBVIOUS
<1>7. term' = x.t
  BY <1>4, <1>6 DEF linenoiseHide
<1>8. Empty(x.t)
  <2>1. CASE settings.ml
    <3>1. x.t = CleanRow(Cleared(h.l, h.t))
      BY <1>6, <2>1 DEF refreshLineWithFlags, refreshMultiLine, CleanRow
    <3>2. Clearable(h.l, h.t)
      BY <1>5, <2>1 DEF Ready
    <3> QED
      BY <1>1, <3>1, <3>2, ClearedIsEmpty
  <2>2. CASE ~settings.ml
    <3>1. x.t = refreshSingleLine(h.l, h.t, FALSE, FALSE)
      BY <1>6, <2>2 DEF refreshLineWithFlags
    <3>2. OneRow(h.t)
      BY <1>5, <2>2 DEF Ready
    <3> QED
      BY <1>1, <3>1, <3>2, HiddenRowIs, ZenonT(40)
  <2> QED
    BY <2>1, <2>2
<1>9. Empty(term)'
  <2>1. PICK t : t = term'
    OBVIOUS
  <2>2. Empty(t)
    BY <1>7, <1>8, <2>1
  <2>3. Empty(t)'
    BY <1>1, <2>2, SameEmpty
  <2> QED
    BY <2>1, <2>3 DEF Empty
<1> QED
  BY <1>1, <1>2, <1>9 DEF ScreenInv

LEMMA ShowShows ==
  ASSUME ScreenInv, CompletionsFit, linenoiseShow
  PROVE  ScreenInv'
<1>1. LineInv /\ settings' = settings /\ phase' = "edit" /\ settings \in Settings /\ Line(l)
  BY DEF ScreenInv, LineInv, linenoiseShow
<1>2. LineInv'
  BY <1>1, HideShowKeep
<1>3. PICK x : x = [l |-> l, t |-> Blank]
  OBVIOUS
<1>4. [Here EXCEPT !.t = Blank] = x
  BY <1>3 DEF Here
<1>5. PICK y : y = refreshLineWithCompletion(x, FALSE, TRUE)
  OBVIOUS
<1>6. l' = y.l /\ term' = y.t
  BY <1>4, <1>5 DEF linenoiseShow
<1>7. PICK c \in Fills : Pictured(y, SeenOf(y.l), CursorOf(y.l), c) /\ y = [l |-> y.l, t |-> y.t]
  <2>1. x.l = l /\ x.t = Blank /\ x = [l |-> x.l, t |-> x.t]
    BY <1>3
  <2>2. PICK clean : clean = FALSE
    OBVIOUS
  <2>3. Empty(x.t)
    BY <1>1, <2>1, BlankIsEmpty
  <2>4. y = refreshLineWithCompletion(x, clean, TRUE) /\ Line(x.l)
    BY <1>1, <1>5, <2>1, <2>2
  <2> QED
    BY <1>1, <2>1, <2>2, <2>3, <2>4, ShowDraws
<1>8. y = [l |-> l', t |-> term']
  BY <1>6, <1>7
<1>9. Shown(Fills)'
  BY <1>1, <1>7, <1>8, ShownFills
<1> QED
  BY <1>1, <1>2, <1>9, EditingShows

(* Between two calls the screen is what it was before the first.           *)
LEMMA IdleShows ==
  ASSUME LineInv', settings' = settings, phase' = "idle",
         term' = Blank \/ (term' = term /\ term = Blank)
  PROVE  ScreenInv'
<1>1. Blank' = Blank
  <2>1. Cells' = Cells
    BY SameScreen
  <2> QED
    BY <2>1 DEF Blank
<1>2. (term = Blank)'
  BY <1>1
<1> QED
  BY <1>2 DEF ScreenInv

LEMMA ScreenStep ==
  ASSUME ScreenInv, CompletionsFit, [Next]_vars
  PROVE  ScreenInv'
<1>0. LineInv
  BY DEF ScreenInv
<1>1. LineInv'
  BY <1>0, LineStep
<1>2. CASE UNCHANGED <<l, history, history_max_len, term, settings, stdin, phase>>
  <2>1. /\ l' = l /\ term' = term /\ settings' = settings /\ phase' = phase
    BY <1>2
  <2>2. PICK x, F : x = [l |-> l', t |-> term'] /\ F = Fills
    OBVIOUS
  <2>3. ASSUME NEW G, Shown(G) PROVE Shown(G)'
    <3>1. PICK c \in G : Pictured(Here, SeenOf(l), CursorOf(l), c)
      BY <2>3, ShownIs
    <3>2. x = Here /\ x.l = l
      BY <2>1, <2>2 DEF Here
    <3>3. Pictured(x, SeenOf(x.l), CursorOf(x.l), c)
      BY <3>1, <3>2
    <3> QED
      BY <2>1, <2>2, <3>3, ShownNext
  <2>4. CASE phase = "edit"
    <3>1. Shown(F)'
      BY <2>2, <2>3, <2>4 DEF ScreenInv
    <3>2. Fills' = F
      BY <2>1, <2>2 DEF Fills
    <3>3. Shown(Fills)'
      BY <3>1, <3>2 DEF Shown
    <3> QED
      BY <1>1, <2>1, <2>4, <3>3, EditingShows
  <2>5. CASE phase = "done"
    <3>1. Shown({"blank"})'
      BY <2>3, <2>5 DEF ScreenInv
    <3> QED
      BY <1>1, <2>1, <2>5, <3>1 DEF ScreenInv
  <2>6. CASE phase = "hidden"
    <3>1. PICK t : t = term
      OBVIOUS
    <3>2. Empty(t)'
      BY <2>1, <2>6, <3>1, SameEmpty DEF ScreenInv
    <3>3. Empty(term)'
      BY <2>1, <3>1, <3>2 DEF Empty
    <3> QED
      BY <1>1, <2>1, <2>6, <3>3 DEF ScreenInv
  <2>7. CASE phase = "idle"
    BY <1>1, <2>1, <2>7, IdleShows DEF ScreenInv
  <2>8. phase \in {"idle", "edit", "hidden", "done"}
    BY <1>0 DEF LineInv
  <2> QED
    BY <2>4, <2>5, <2>6, <2>7, <2>8
<1>3. CASE settings.input = "tty" /\ linenoiseEditStart
  BY <1>3, StartShows
<1>4. CASE linenoiseEditFeed
  <2>1. CASE \E c \in settings.typed : linenoiseEditInsert(c)
    BY <2>1, InsertShows
  <2>2. CASE CompletionKey(CompleteTab) \/ CompletionKey(CompleteEscape)
    BY <2>2, CompletionShows
  <2>3. CASE \/ linenoiseEditMoveLeft \/ linenoiseEditMoveRight \/ linenoiseEditMoveHome \/ linenoiseEditMoveEnd
             \/ linenoiseEditDelete \/ linenoiseEditBackspace \/ linenoiseEditDeletePrevWord
             \/ Transpose \/ DeleteLine \/ DeleteToEnd
    <3>1. PICK moved, d : IsKey(moved, d)
      BY <1>0, <2>3, KeysMakeLines
    <3> QED
      BY <3>1, KeyShows
  <2>4. CASE ClearScreen
    BY <2>4, ClearShows
  <2>5. CASE \E step \in {1, -1} : linenoiseEditHistoryNext(step)
    BY <2>5, RecallShows
  <2>6. CASE Enter
    BY <2>6, EnterShows
  <2>7. CASE CtrlC \/ EndOfFile
    <3>1. settings' = settings /\ phase' = "idle" /\ term' = Blank
      BY <2>7 DEF CtrlC, EndOfFile, Left
    <3> QED
      BY <1>1, <3>1, IdleShows
  <2>8. CASE Forgotten
    BY <1>2, <2>8 DEF Forgotten
  <2> QED
    BY <1>4, <2>1, <2>2, <2>3, <2>4, <2>5, <2>6, <2>7, <2>8, FeedDoes
<1>5. CASE read
  <2>1. settings' = settings /\ phase' = "idle" /\ term' = Blank
    BY <1>5 DEF read, Left
  <2> QED
    BY <1>1, <2>1, IdleShows
<1>6. CASE \/ phase = "idle" /\ (linenoiseNoTTY \/ UnsupportedTerm)
           \/ \E n \in settings.lens : linenoiseHistorySetMaxLen(n) \/ linenoiseHistoryLoad(n)
  <2>1. settings' = settings /\ phase = "idle" /\ phase' = "idle" /\ term' = term
    BY <1>6 DEF linenoiseNoTTY, UnsupportedTerm, linenoiseHistorySetMaxLen, linenoiseHistoryLoad
  <2>2. term = Blank
    BY <2>1 DEF ScreenInv
  <2> QED
    BY <1>1, <2>1, <2>2, IdleShows
<1>7. CASE linenoiseHide
  BY <1>7, HideShows
<1>8. CASE linenoiseShow
  BY <1>8, ShowShows
<1> QED
  BY <1>2, <1>3, <1>4, <1>5, <1>6, <1>7, <1>8 DEF Next, linenoise, linenoiseBlockingEdit, vars

(* ---- the screen shows the line ----------------------------------------------- *)
LEMMA WindowShown ==
  ASSUME settings \in Settings, NEW s \in Seq(Chars), NEW k \in Nat, NEW c, InRow(term, s, k, c),
         s = Seen, k = Cursor, c \in After
  PROVE  WindowShows
<1>1. PICK skip \in 0..k :
        /\ skip > 0 => PromptLen + k - skip = W - 1
        /\ term.row = term.top /\ term.col = PromptLen + k - skip /\ term.col < W
        /\ ScreenOf(term, Used(Window(s, skip)), c)
  BY DEF InRow
<1>2. PICK w \in Nat : w = W /\ w > 0
  BY Widths
<1>3. PICK win \in Seq(Chars) : win = Window(s, skip) /\ PromptLen + Len(win) <= w
  <2>1. skip \in Nat
    OBVIOUS
  <2> QED
    BY <1>2, <2>1, WindowFits
<1>4. PICK u \in Seq(Codes), m \in Nat : u = Used(win) /\ m = Len(u) /\ m <= w
  BY <1>2, <1>3, UsedIs
<1>5. term \in Terms /\ term.top \in {0, 1}
  BY <1>1 DEF ScreenOf
<1>6. PICK row : row = [i \in 1..settings.cols |-> term.cell[<<term.row, i - 1>>]]
  OBVIOUS
<1>7. ASSUME NEW i \in 1..w
      PROVE  row[i] = (IF i <= m THEN u[i] ELSE c) /\ row[i] \in Codes
  <2>1. PICK p : p = <<term.row, i - 1>>
    OBVIOUS
  <2>2. Rows \in Nat /\ Rows >= 3
    <3>1. 0 <= PromptLen + BufLen
      BY Widths
    <3> QED
      BY <3>1, RowsSuffice
  <2>3. term.row \in 0..Rows
    BY <1>1, <1>5, <2>2
  <2>4. i - 1 \in 0..(settings.cols - 1)
    BY <1>2 DEF W
  <2>5. p \in Cells
    BY <2>1, <2>3, <2>4 DEF Cells
  <2>6. PICK top \in Int : top = term.top
    BY <1>5
  <2>7. Count(top, p) = i
    <3>1. p[1] = top /\ p[2] = i - 1
      BY <1>1, <2>1, <2>6
    <3>2. Count(top, p) = p[2] + 1
      BY <2>5, <3>1, CountIs
    <3> QED
      BY <3>1, <3>2
  <2>8. term.cell[p] = IF i <= Len(u) THEN u[i] ELSE IF i <= W THEN c ELSE "blank"
    <3>1. ~(p[1] < term.top)
      BY <1>1, <1>5, <2>1
    <3>2. ScreenOf(term, u, c)
      BY <1>1, <1>3, <1>4
    <3>3. Count(term.top, p) = i
      BY <2>6, <2>7
    <3> QED
      BY <2>5, <3>1, <3>2, <3>3 DEF ScreenOf
  <2>9. row[i] = term.cell[p]
    BY <1>2, <1>6, <2>1 DEF W
  <2>10. term.cell[p] \in Codes
    BY <1>5, <2>5 DEF Terms
  <2> QED
    BY <1>2, <1>4, <2>8, <2>9, <2>10
<1>8. row \in Seq(Codes) /\ Len(row) = w
  <2>1. row = [i \in 1..w |-> term.cell[<<term.row, i - 1>>]]
    BY <1>2, <1>6 DEF W
  <2>2. \A i \in 1..w : row[i] \in Codes
    BY <1>7
  <2>3. \A i \in 1..w : term.cell[<<term.row, i - 1>>] \in Codes
    BY <2>1, <2>2
  <2> QED
    BY <2>1, <2>3
<1>9. IsPrefix(u, row)
  <2>1. SubSeq(u, 1, m) = [i \in 1..m |-> u[i]]
    BY <1>4
  <2>2. SubSeq(row, 1, m) = [i \in 1..m |-> row[i]]
    BY <1>4, <1>8
  <2>3. \A i \in 1..m : row[i] = u[i]
    BY <1>4, <1>7
  <2>4. SubSeq(u, 1, m) = SubSeq(row, 1, m)
    BY <2>1, <2>2, <2>3
  <2> QED
    BY <1>4, <1>8, <2>4 DEF IsPrefix
<1>10. \A i \in (m + 1)..w : row[i] = c
  <2> SUFFICES ASSUME NEW i \in (m + 1)..w PROVE row[i] = c
    OBVIOUS
  <2>1. i \in 1..w /\ ~(i <= m)
    BY <1>4
  <2> QED
    BY <1>7, <2>1
<1>11. RowShows(win)
  <2>1. u = Prompt \o Masked(win)
    BY <1>4 DEF Used
  <2>2. term.col < settings.cols /\ term.row = term.top
    BY <1>1 DEF W
  <2>3. \E f \in After : \A i \in (Len(u) + 1)..settings.cols : row[i] = f
    BY <1>2, <1>4, <1>10 DEF W
  <2> QED
    BY <1>6, <1>9, <2>1, <2>2, <2>3 DEF RowShows
<1>12. win = SubSeq(Seen, skip + 1, Min2(Len(Seen), skip + settings.cols - PromptLen))
  BY <1>3 DEF Window, W
<1>13. /\ skip \in 0..Cursor
       /\ skip > 0 => PromptLen + Cursor - skip = settings.cols - 1
       /\ term.col = PromptLen + Cursor - skip
  BY <1>1 DEF W
<1> QED
  BY <1>11, <1>12, <1>13 DEF WindowShows

LEMMA RowsShown ==
  ASSUME settings \in Settings, NEW s, NEW k, NEW c, InRows(term, s, k, c),
         s = Seen, k = Cursor, c \in After
  PROVE  RowsShow
<1>1. /\ ScreenOf(term, Used(s), c)
      /\ (term.row - term.top) * settings.cols + term.col = PromptLen + Cursor
  BY DEF InRows, W
<1>2. DOMAIN term.cell = Cells /\ term.top \in {0, 1}
  BY <1>1 DEF ScreenOf, Terms
<1>3. Used(s) = Prompt \o Masked(Seen)
  BY DEF Used
<1>4. PICK u : u = Prompt \o Masked(Seen)
  OBVIOUS
<1>5. ASSUME NEW p \in DOMAIN term.cell, p[1] >= term.top
      PROVE  term.cell[p] = IF (p[1] - term.top) * settings.cols + p[2] + 1 <= Len(u)
                            THEN u[(p[1] - term.top) * settings.cols + p[2] + 1]
                            ELSE IF (p[1] - term.top) * settings.cols + p[2] + 1 <= settings.cols THEN c ELSE "blank"
  <2>1. p \in Cells
    BY <1>2
  <2>2. ~(p[1] < term.top)
    <3>1. p[1] \in Int /\ term.top \in Int
      BY <1>2, <2>1, CellsAre
    <3> QED
      BY <1>5, <3>1
  <2>3. Count(term.top, p) = (p[1] - term.top) * settings.cols + p[2] + 1
    BY DEF Count, W
  <2>4. term.cell[p] = IF Count(term.top, p) <= Len(Used(s)) THEN Used(s)[Count(term.top, p)]
                       ELSE IF Count(term.top, p) <= W THEN c ELSE "blank"
    BY <1>1, <2>1, <2>2 DEF ScreenOf
  <2> QED
    BY <1>3, <1>4, <2>3, <2>4 DEF W
<1> QED
  BY <1>1, <1>4, <1>5 DEF RowsShow

LEMMA PlaceOnScreen ==
  ASSUME settings \in Settings, NEW x, NEW s \in Seq(Chars), NEW k \in Nat, NEW c, Pictured(x, s, k, c)
  PROVE  /\ x.t.row \in 0..Rows /\ x.t.col \in 0..settings.cols
         /\ \A p \in DOMAIN x.t.cell : p[1] < x.t.top => x.t.cell[p] = "old"
<1>1. PICK t : t = x.t
  OBVIOUS
<1>2. Rows \in Nat /\ Rows >= 3
  <2>1. 0 <= PromptLen + BufLen
    BY Widths
  <2> QED
    BY <2>1, RowsSuffice
<1>3. PICK w \in Nat, m \in Nat : w = W /\ m = PromptLen /\ w > m
  BY Widths
<1>4. CASE settings.ml
  <2>1. InRows(t, s, k, c) /\ Kept(x.l, Len(s), k)
    BY <1>1, <1>4 DEF Pictured
  <2>2. t \in Terms /\ t.top \in {0, 1} /\ \A p \in Cells : p[1] < t.top => t.cell[p] = "old"
    BY <2>1 DEF InRows, ScreenOf
  <2>3. PICK row \in Nat, col \in Nat, top \in Nat : row = t.row /\ col = t.col /\ top = t.top /\ DOMAIN t.cell = Cells
    BY <2>2 DEF Terms
  <2>4. (row - top) * w + col = m + k /\ col < w
    BY <1>3, <2>1, <2>3 DEF InRows
  <2>5. PICK a \in Nat : a = m + k
    OBVIOUS
  <2>6. PICK n \in Nat : n = RowsBefore(x.l) /\ n <= Rows /\ a \div w < n
    <3>1. RowsBefore(x.l) \in Nat
      BY <2>1 DEF Kept, RowsBefore
    <3> QED
      BY <1>3, <2>1, <2>5, <3>1 DEF Kept
  <2>7. row <= Rows
    <3>1. CASE row < top
      BY <1>2, <2>2, <2>3, <3>1
    <3>2. CASE row >= top
      <4>1. PICK q \in Nat, r \in 0..(w - 1) : q = row - top /\ r = col
        BY <2>4, <3>2
      <4>2. a = q * w + r
        BY <2>4, <2>5, <4>1
      <4>3. a \div w = q
        <5>1. w > 0
          BY <1>3
        <5> QED
          BY <4>1, <4>2, <5>1, DivisionIs
      <4>4. row = top + q /\ q < n
        BY <2>6, <4>1, <4>3
      <4> QED
        BY <1>2, <2>2, <2>3, <2>6, <4>4
    <3> QED
      BY <3>1, <3>2
  <2>8. t.row \in 0..Rows /\ t.col \in 0..settings.cols
    BY <1>2, <1>3, <2>3, <2>4, <2>7 DEF W
  <2> QED
    BY <1>1, <2>2, <2>3, <2>8
<1>5. CASE ~settings.ml
  <2>1. InRow(t, s, k, c)
    BY <1>1, <1>5 DEF Pictured
  <2>2. t.row = t.top /\ t.col < W /\ t \in Terms /\ t.top \in {0, 1} /\ \A p \in Cells : p[1] < t.top => t.cell[p] = "old"
    BY <2>1 DEF InRow, ScreenOf
  <2>3. t.col \in Nat /\ DOMAIN t.cell = Cells
    BY <2>2 DEF Terms
  <2>4. t.row \in 0..Rows /\ t.col \in 0..settings.cols
    BY <1>2, <1>3, <2>2, <2>3 DEF W
  <2> QED
    BY <1>1, <2>2, <2>3, <2>4
<1> QED
  BY <1>4, <1>5

LEMMA OnScreen ==
  ASSUME LineInv, CompletionsFit, NEW F, Shown(F), F \subseteq After
  PROVE  /\ term.row \in 0..Rows /\ term.col \in 0..settings.cols
         /\ IF settings.ml THEN RowsShow ELSE WindowShows
         /\ \A p \in DOMAIN term.cell : p[1] < term.top => term.cell[p] = "old"
<1>1. settings \in Settings /\ Line(l)
  BY DEF LineInv
<1>2. PICK x, s, k, c : x = Here /\ s = Seen /\ k = Cursor /\ c \in F /\ Pictured(x, s, k, c)
  BY DEF Shown
<1>3. s \in Seq(Chars) /\ k \in Nat
  BY <1>1, <1>2, SeenIs DEF Seen, Cursor, SeenOf, CursorOf
<1>4. x.t = term
  BY <1>2 DEF Here
<1>5. /\ x.t.row \in 0..Rows /\ x.t.col \in 0..settings.cols
      /\ \A p \in DOMAIN x.t.cell : p[1] < x.t.top => x.t.cell[p] = "old"
  BY <1>1, <1>2, <1>3, PlaceOnScreen
<1>6. CASE settings.ml
  <2>1. InRows(term, s, k, c)
    BY <1>2, <1>4, <1>6 DEF Pictured
  <2>2. RowsShow
    BY <1>1, <1>2, <2>1, RowsShown
  <2> QED
    BY <1>4, <1>5, <1>6, <2>2
<1>7. CASE ~settings.ml
  <2>1. InRow(term, s, k, c)
    BY <1>2, <1>4, <1>7 DEF Pictured
  <2>2. WindowShows
    BY <1>1, <1>2, <1>3, <2>1, WindowShown
  <2> QED
    BY <1>4, <1>5, <1>7, <2>2
<1> QED
  BY <1>6, <1>7

LEMMA NothingOnScreen ==
  ASSUME settings \in Settings, NEW t, Empty(t)
  PROVE  /\ \A p \in DOMAIN t.cell : p[1] >= t.top => t.cell[p] = "blank"
         /\ \A p \in DOMAIN t.cell : p[1] < t.top => t.cell[p] = "old"
         /\ t.row = t.top /\ t.col = 0
<1>1. t \in Terms /\ t.top \in {0, 1} /\ DOMAIN t.cell = Cells
  BY DEF Empty, Terms
<1>2. ASSUME NEW p \in Cells
      PROVE  (p[1] >= t.top => t.cell[p] = "blank") /\ (p[1] < t.top => t.cell[p] = "old")
  <2>1. p[1] \in Int /\ t.top \in Int
    BY <1>1, CellsAre
  <2>2. t.cell[p] = IF p[1] < t.top THEN "old" ELSE "blank"
    BY DEF Empty
  <2> QED
    BY <2>1, <2>2
<1> QED
  BY <1>1, <1>2 DEF Empty

LEMMA ScreenInit ==
  ASSUME Init
  PROVE  ScreenInv
BY LineInit DEF Init, ScreenInv

LEMMA ScreenIs ==
  ASSUME ScreenInv, CompletionsFit
  PROVE  ScreenShowsLine
<1>1. LineInv /\ settings \in Settings /\ phase \in {"idle", "edit", "hidden", "done"}
  BY DEF ScreenInv, LineInv
<1>2. CASE phase = "edit"
  <2>1. Shown(Fills) /\ Fills \subseteq After
    BY <1>2 DEF ScreenInv, Fills, After
  <2> QED
    BY <1>1, <1>2, <2>1, OnScreen DEF ScreenShowsLine
<1>3. CASE phase = "done"
  <2>1. Shown({"blank"}) /\ {"blank"} \subseteq After
    BY <1>3 DEF ScreenInv, After
  <2>2. PICK F : F = {"blank"}
    OBVIOUS
  <2>3. Shown(F) /\ F \subseteq After
    BY <2>1, <2>2
  <2> QED
    BY <1>1, <1>3, <2>3, OnScreen DEF ScreenShowsLine
<1>4. CASE phase = "hidden"
  <2>1. Empty(term)
    BY <1>4 DEF ScreenInv
  <2> QED
    BY <1>1, <1>4, <2>1, NothingOnScreen DEF ScreenShowsLine
<1>5. CASE phase = "idle"
  <2>1. term = Blank /\ Empty(Blank)
    BY <1>1, <1>5, BlankIsEmpty DEF ScreenInv
  <2> QED
    BY <1>1, <1>5, <2>1, NothingOnScreen DEF ScreenShowsLine
<1> QED
  BY <1>1, <1>2, <1>3, <1>4, <1>5

(* Whatever is typed, in one row or in several, with a hint, a mask or a   *)
(* candidate in the line's place, the screen shows the line with the       *)
(* cursor where l->pos says and nothing of what was drawn before:          *)
(* l->oldpos and l->oldrows always tell refreshMultiLine what to clear; a  *)
(* hidden line has left no trace, and the rows above are not touched.      *)
THEOREM EditorScreen == CompletionsFit => (Spec => []ScreenShowsLine)
<1> SUFFICES ASSUME CompletionsFit PROVE Spec => []ScreenShowsLine
  OBVIOUS
<1>1. Init => ScreenInv
  BY ScreenInit
<1>2. ScreenInv /\ [Next]_vars => ScreenInv'
  BY ScreenStep
<1>3. ScreenInv => ScreenShowsLine
  BY ScreenIs
<1> QED
  BY <1>1, <1>2, <1>3, PTL DEF Spec
=============================================================================
