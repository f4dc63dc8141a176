--------------------------- MODULE LineEditProofs ---------------------------
(***************************************************************************)
(* Proofs about the line editor, for buffers of any length, any keys and   *)
(* any completions that fit.  The first half follows the bytes: every key  *)
(* makes of a line (characters, then a zero at l->len, the cursor before   *)
(* it) a line again.  The second says what has become of the text on each  *)
(* side of the cursor, and of the history and its file, and that LineEdit  *)
(* implements Editing.                                                     *)
(***************************************************************************)
EXTENDS LineEdit, NaturalsInduction, WellFoundedInduction, TLAPS

(* ---- induction ---------------------------------------------------------------- *)
(* Induction on a set of numbers that is closed downwards.                 *)
LEMMA Induction ==
  ASSUME NEW D \in SUBSET Nat, \A n \in D : n # 0 => n - 1 \in D,
         NEW A, \A n \in D : n = 0 \/ n - 1 \in A => n \in A
  PROVE  D \subseteq A
<1> DEFINE T == D \ A
           R == {x \in Nat \X Nat : x[1] < x[2]}
<1> SUFFICES ASSUME T # {} PROVE FALSE
  OBVIOUS
<1>1. IsWellFoundedOn(R, Nat)
  BY NatLessThanWellFounded DEF OpToRel
<1>2. \E m \in T : \A n \in T : ~(<<n, m>> \in R)
  BY <1>1, WFMin
<1>3. PICK m \in T : \A n \in T : ~(n < m)
  BY <1>2
<1>4. m # 0 /\ m - 1 \in D /\ m - 1 \notin T
  BY <1>3
<1> QED
  BY <1>3, <1>4

(* A function defined by recursion exists: the step is a function.         *)
Recursive(f, D, a, F) == f = [n \in D |-> IF n = 0 THEN a ELSE F[<<n, f[n - 1]>>]]

LEMMA RecursionOnNat ==
  ASSUME NEW S, NEW a \in S, NEW F \in [Nat \X S -> S]
  PROVE  \E f \in [Nat -> S] : Recursive(f, Nat, a, F)
<1> DEFINE Follows(n, g) == \A i \in 0..n : g[i] = IF i = 0 THEN a ELSE F[<<i, g[i - 1]>>]
           A == {n \in Nat : \E g \in [0..n -> S] : Follows(n, g)}
<1>1. \A n \in Nat : n = 0 \/ n - 1 \in A => n \in A
  <2> SUFFICES ASSUME NEW n \in Nat, n = 0 \/ n - 1 \in A PROVE n \in A
    OBVIOUS
  <2>1. CASE n = 0
    <3>1. [i \in 0..n |-> a] \in [0..n -> S] /\ Follows(n, [i \in 0..n |-> a])
      BY <2>1
    <3> QED
      BY <3>1
  <2>2. CASE n # 0
    <3>1. PICK g \in [0..(n - 1) -> S] : Follows(n - 1, g)
      BY <2>2
    <3>2. PICK h : h = [i \in 0..n |-> IF i = n THEN F[<<n, g[n - 1]>>] ELSE g[i]]
      OBVIOUS
    <3>3. n - 1 \in 0..(n - 1) /\ <<n, g[n - 1]>> \in Nat \X S
      BY <2>2
    <3>4. h \in [0..n -> S]
      BY <3>2, <3>3
    <3>5. ASSUME NEW i \in 0..n PROVE h[i] = IF i = 0 THEN a ELSE F[<<i, h[i - 1]>>]
      <4>1. CASE i = n
        <5>1. h[n] = F[<<n, g[n - 1]>>] /\ h[n - 1] = g[n - 1]
          BY <2>2, <3>2
        <5> QED
          BY <2>2, <4>1, <5>1
      <4>2. CASE i # n
        <5>1. i \in 0..(n - 1) /\ h[i] = g[i]
          BY <3>2, <4>2
        <5>2. i # 0 => h[i - 1] = g[i - 1]
          BY <3>2, <5>1
        <5> QED
          BY <3>1, <5>1, <5>2
      <4> QED
        BY <4>1, <4>2
    <3> QED
      BY <3>4, <3>5
  <2> QED
    BY <2>1, <2>2
<1>2. \A n \in Nat : n \in A
  <2>1. \A n \in Nat : n # 0 => n - 1 \in Nat
    OBVIOUS
  <2> HIDE DEF A
  <2> QED
    BY <1>1, <2>1, Induction
<1> DEFINE G(n) == CHOOSE g \in [0..n -> S] : Follows(n, g)
<1>3. \A n \in Nat : G(n) \in [0..n -> S] /\ Follows(n, G(n))
  BY <1>2
<1> HIDE DEF G
<1>4. \A n \in Nat : \A i \in 0..n : G(n)[i] = G(i)[i]
  <2> SUFFICES ASSUME NEW n \in Nat PROVE \A i \in 0..n : G(n)[i] = G(i)[i]
    OBVIOUS
  <2> DEFINE B == {i \in 0..n : \A k \in i..n : G(k)[i] = G(n)[i]}
  <2>1. \A i \in 0..n : i = 0 \/ i - 1 \in B => i \in B
    <3> SUFFICES ASSUME NEW i \in 0..n, i = 0 \/ i - 1 \in B, NEW k \in i..n PROVE G(k)[i] = G(n)[i]
      OBVIOUS
    <3>1. /\ G(k)[i] = IF i = 0 THEN a ELSE F[<<i, G(k)[i - 1]>>]
          /\ G(n)[i] = IF i = 0 THEN a ELSE F[<<i, G(n)[i - 1]>>]
      BY <1>3
    <3>2. i # 0 => G(k)[i - 1] = G(n)[i - 1]
      OBVIOUS
    <3> QED
      BY <3>1, <3>2
  <2>2. 0..n \subseteq B
    <3>1. 0..n \in SUBSET Nat /\ \A i \in 0..n : i # 0 => i - 1 \in 0..n
      OBVIOUS
    <3> HIDE DEF B
    <3> QED
      BY <2>1, <3>1, Induction
  <2> QED
    BY <2>2
<1>5. PICK f : f = [n \in Nat |-> G(n)[n]]
  OBVIOUS
<1>6. f \in [Nat -> S]
  BY <1>3, <1>5
<1>7. ASSUME NEW n \in Nat PROVE f[n] = IF n = 0 THEN a ELSE F[<<n, f[n - 1]>>]
  <2>1. G(n)[n] = IF n = 0 THEN a ELSE F[<<n, G(n)[n - 1]>>]
    BY <1>3
  <2>2. n # 0 => n - 1 \in Nat /\ n - 1 \in 0..n
    OBVIOUS
  <2>3. n # 0 => G(n)[n - 1] = G(n - 1)[n - 1]
    BY <1>4, <2>2
  <2>4. f[n] = G(n)[n] /\ (n # 0 => f[n - 1] = G(n - 1)[n - 1])
    BY <1>5, <2>2
  <2> QED
    BY <2>1, <2>3, <2>4
<1> QED
  BY <1>6, <1>7 DEF Recursive

(* The same for a first part of the numbers.                               *)
LEMMA Recursion ==
  ASSUME NEW D \in SUBSET Nat, \A n \in D : n # 0 => n - 1 \in D,
         NEW S, NEW a \in S, NEW F \in [Nat \X S -> S]
  PROVE  \E f \in [D -> S] : Recursive(f, D, a, F)
<1>1. PICK g \in [Nat -> S] : Recursive(g, Nat, a, F)
  BY RecursionOnNat
<1>2. \A n \in Nat : g[n] = IF n = 0 THEN a ELSE F[<<n, g[n - 1]>>]
  BY <1>1 DEF Recursive
<1>3. PICK f : f = [n \in D |-> g[n]]
  OBVIOUS
<1>4. f \in [D -> S]
  BY <1>3
<1>5. \A n \in D : f[n] = IF n = 0 THEN a ELSE F[<<n, f[n - 1]>>]
  BY <1>2, <1>3
<1> QED
  BY <1>4, <1>5 DEF Recursive

(* What the program gives as a completion is text that the buffer takes.   *)
CompletionsFit ==
  \A line \in Seq(Chars) :
    /\ Completions(line) \in Seq(Seq(Chars))
    /\ \A i \in 1..Len(Completions(line)) : Len(Completions(line)[i]) < BufLen

(* ---- the buffer --------------------------------------------------------- *)
Buffers == [0..BufLen -> Chars \cup {Nul}]

(* The text in b has n characters.                                         *)
Ends(b, n) == n \in 0..BufLen /\ b[n] = Nul /\ \A i \in 0..(n - 1) : b[i] # Nul

States(B) == [buf : B, pos : Nat, len : Nat, oldpos : Nat, oldrows : Nat, history_index : Int,
              in_completion : BOOLEAN, completion_idx : Nat]

(* The line that is edited.                                                *)
Line(e) == e \in States(Buffers) /\ e.pos <= e.len /\ Ends(e.buf, e.len)

(* The least number of a set.                                              *)
LEMMA Least ==
  ASSUME NEW S, S \subseteq Nat, NEW n \in S, \A i \in S : n <= i
  PROVE  Min(S) = n
<1>1. \E m \in S : \A i \in S : m =< i
  OBVIOUS
<1>2. ASSUME NEW m \in S, \A i \in S : m =< i PROVE m = n
  <2>1. m =< n /\ n =< m /\ m \in Nat /\ n \in Nat
    BY <1>2
  <2> QED
    BY <2>1
<1> QED
  BY <1>1, <1>2 DEF Min

LEMMA StrlenIs ==
  ASSUME NEW e, e.buf \in Buffers, NEW n, Ends(e.buf, n)
  PROVE  Strlen(e) = n
<1> DEFINE S == {i \in DOMAIN e.buf : e.buf[i] = Nul}
<1>1. DOMAIN e.buf = 0..BufLen /\ BufLen \in Nat
  BY LineEditAssumption DEF Buffers
<1>2. S \subseteq Nat /\ n \in S
  BY <1>1 DEF Ends
<1>3. \A i \in S : n <= i
  BY <1>1 DEF Ends
<1> QED
  BY <1>2, <1>3, Least DEF Strlen

(* A line is its text, with or without its zero.                           *)
LEMMA TextIs ==
  ASSUME NEW e, Line(e)
  PROVE  /\ Strlen(e) = e.len /\ CString(e) = Text(e)
         /\ Text(e) \in Seq(Chars) /\ Len(Text(e)) = e.len
         /\ \A i \in 1..e.len : Text(e)[i] = e.buf[i - 1]
<1>1. e.buf \in Buffers /\ e.len \in 0..BufLen /\ BufLen \in Nat
  BY LineEditAssumption DEF Line, States, Ends
<1>2. Strlen(e) = e.len
  BY <1>1, StrlenIs DEF Line
<1>3. CString(e) = Text(e)
  BY <1>2 DEF CString, Text
<1>4. Text(e) = [i \in 1..e.len |-> e.buf[i - 1]]
  <2>1. Text(e) = [i \in 1..e.len |-> e.buf[0 + i - 1]]
    BY DEF Text, Bytes
  <2>2. \A i \in 1..e.len : 0 + i - 1 = i - 1
    BY <1>1
  <2> QED
    BY <2>1, <2>2
<1>5. ASSUME NEW i \in 1..e.len PROVE e.buf[i - 1] \in Chars
  <2>1. i - 1 \in 0..(e.len - 1) /\ i - 1 \in 0..BufLen
    BY <1>1
  <2>2. e.buf[i - 1] # Nul
    BY <2>1 DEF Line, Ends
  <2> QED
    BY <1>1, <2>1, <2>2 DEF Buffers
<1> QED
  BY <1>1, <1>2, <1>3, <1>4, <1>5

(* ---- drawing does not change the line ------------------------------------ *)
SameLine(d, e) ==
  /\ d.buf = e.buf /\ d.pos = e.pos /\ d.len = e.len /\ d.history_index = e.history_index
  /\ d.in_completion = e.in_completion /\ d.completion_idx = e.completion_idx

LEMMA Division ==
  ASSUME NEW a \in Nat, NEW c \in Nat, c > 0
  PROVE  a \div c \in Nat /\ a % c \in 0..(c - 1) /\ a = c * (a \div c) + (a % c)
OBVIOUS

LEMMA SettingsNumbers ==
  ASSUME settings \in Settings
  PROVE  /\ settings.cols \in Nat /\ settings.cols > PromptLen /\ PromptLen \in Nat \ {0}
         /\ BufLen \in Nat \ {0} /\ settings.typed \subseteq Chars /\ settings.lens \subseteq Nat \ {0}
BY LineEditAssumption

LEMMA DrawnKeeps ==
  ASSUME settings \in Settings, NEW B, NEW e \in States(B), NEW write \in BOOLEAN
  PROVE  Drawn(e, write) \in States(B) /\ SameLine(Drawn(e, write), e)
<1>1. RowsOf(e) \in Nat
  <2>1. PromptLen + e.len + settings.cols - 1 \in Nat /\ settings.cols \in Nat /\ settings.cols > 0
    BY SettingsNumbers DEF States
  <2> QED
    BY <2>1, Division DEF RowsOf
<1>2. PICK rows \in Nat : rows = RowsOf(e) + (IF write /\ Wraps(e) THEN 1 ELSE 0)
  BY <1>1
<1>3. Drawn(e, write) = [e EXCEPT !.oldpos = e.pos, !.oldrows = rows]
  BY <1>2 DEF Drawn
<1>4. Drawn(e, write) = [buf |-> e.buf, pos |-> e.pos, len |-> e.len, oldpos |-> e.pos, oldrows |-> rows,
         history_index |-> e.history_index, in_completion |-> e.in_completion,
         completion_idx |-> e.completion_idx]
  BY <1>3 DEF States
<1> QED
  BY <1>4 DEF States, SameLine

LEMMA RefreshKeeps ==
  ASSUME settings \in Settings, NEW B, NEW x, x.l \in States(B), NEW clean, NEW write \in BOOLEAN, NEW hints
  PROVE  /\ refreshLineWithFlags(x, clean, write, hints).l \in States(B)
         /\ SameLine(refreshLineWithFlags(x, clean, write, hints).l, x.l)
<1>1. SameLine(x.l, x.l)
  BY DEF SameLine
<1> QED
  BY <1>1, DrawnKeeps DEF refreshLineWithFlags

LEMMA RefreshLineKeeps ==
  ASSUME settings \in Settings, NEW x, Line(x.l)
  PROVE  Line(refreshLine(x).l) /\ SameLine(refreshLine(x).l, x.l)
<1>1. x.l \in States(Buffers)
  BY DEF Line
<1>2. refreshLine(x).l \in States(Buffers) /\ SameLine(refreshLine(x).l, x.l)
  BY <1>1, RefreshKeeps DEF refreshLine
<1> QED
  BY <1>2 DEF Line, SameLine

(* ---- completions ---------------------------------------------------------- *)
LEMMA CandidateIs ==
  ASSUME CompletionsFit, NEW e, Line(e), Shows(e)
  PROVE  Candidate(e) \in Seq(Chars) /\ Len(Candidate(e)) < BufLen
<1>1. CString(e) \in Seq(Chars)
  BY TextIs
<1>2. e.completion_idx \in Nat /\ e.completion_idx < Len(Completions(CString(e)))
  BY DEF Line, States, Shows
<1>3. e.completion_idx + 1 \in 1..Len(Completions(CString(e)))
  BY <1>1, <1>2, SMTT(30) DEF CompletionsFit
<1>4. PICK s \in Seq(Seq(Chars)) : s = Completions(CString(e))
  BY <1>1 DEF CompletionsFit
<1>5. PICK k \in 1..Len(s) : k = e.completion_idx + 1
  BY <1>3, <1>4
<1>6. s[k] \in Seq(Chars)
  OBVIOUS
<1>7. \A i \in 1..Len(s) : Len(s[i]) < BufLen
  BY <1>1, <1>4 DEF CompletionsFit
<1> QED
  BY <1>4, <1>5, <1>6, <1>7 DEF Candidate

(* Taken(e) is the line after another key: the candidate, if one is shown. *)
Chosen(e) ==
  IF ~Shows(e) THEN [e EXCEPT !.in_completion = FALSE]
  ELSE LET c == Candidate(e) IN
       [e EXCEPT !.in_completion = FALSE, !.len = Len(c), !.pos = Len(c),
          !.buf = strncpy([@ EXCEPT ![Min2(Len(c), BufLen - 1)] = Nul], c, Min2(Len(c), BufLen - 1))]

LEMMA ChosenLine ==
  ASSUME CompletionsFit, NEW e, Line(e)
  PROVE  /\ Line(Chosen(e)) /\ ~Chosen(e).in_completion /\ Chosen(e).history_index = e.history_index
         /\ Chosen(e).oldpos = e.oldpos /\ Chosen(e).oldrows = e.oldrows
         /\ ~Shows(e) => Chosen(e).buf = e.buf /\ Chosen(e).pos = e.pos /\ Chosen(e).len = e.len
         /\ Shows(e) => Text(Chosen(e)) = Candidate(e) /\ Chosen(e).pos = Len(Candidate(e))
                        /\ Chosen(e).len = Len(Candidate(e))
<1>1. CASE ~Shows(e)
  <2>1. Chosen(e) = [buf |-> e.buf, pos |-> e.pos, len |-> e.len, oldpos |-> e.oldpos,
          oldrows |-> e.oldrows, history_index |-> e.history_index, in_completion |-> FALSE,
          completion_idx |-> e.completion_idx]
    BY <1>1 DEF Chosen, Line, States
  <2> QED
    BY <1>1, <2>1 DEF Line, States
<1>2. CASE Shows(e)
  <2>1. PICK c : c = Candidate(e)
    OBVIOUS
  <2>2. c \in Seq(Chars) /\ Len(c) \in Nat /\ Len(c) < BufLen /\ BufLen \in Nat
    BY <1>2, <2>1, CandidateIs, LineEditAssumption
  <2>3. Min2(Len(c), BufLen - 1) = Len(c)
    BY <2>2 DEF Min2
  <2>4. PICK b : b = strncpy([e.buf EXCEPT ![Len(c)] = Nul], c, Len(c))
    OBVIOUS
  <2>5. Chosen(e) = [buf |-> b, pos |-> Len(c), len |-> Len(c), oldpos |-> e.oldpos,
          oldrows |-> e.oldrows, history_index |-> e.history_index, in_completion |-> FALSE,
          completion_idx |-> e.completion_idx]
    BY <1>2, <2>1, <2>3, <2>4 DEF Chosen, Line, States
  <2>6. e.buf \in [0..BufLen -> Chars \cup {Nul}]
    BY DEF Line, States, Buffers
  <2>7. b = [i \in 0..BufLen |-> IF i >= Len(c) THEN [e.buf EXCEPT ![Len(c)] = Nul][i]
                                 ELSE IF i < Len(c) THEN c[i + 1] ELSE Nul]
    BY <2>4, <2>6 DEF strncpy
  <2>8. \A i \in 0..(Len(c) - 1) : b[i] = c[i + 1] /\ c[i + 1] \in Chars
    BY <2>2, <2>7
  <2>9. b \in Buffers
    BY <2>2, <2>6, <2>7 DEF Buffers
  <2>10. b[Len(c)] = Nul
    BY <2>2, <2>6, <2>7
  <2>11. Ends(b, Len(c))
    BY <2>2, <2>8, <2>10, LineEditAssumption DEF Ends
  <2>12. Line(Chosen(e))
    BY <2>2, <2>5, <2>9, <2>11 DEF Line, States
  <2>13. Text(Chosen(e)) = c
    <3>1. Text(Chosen(e)) \in Seq(Chars) /\ Len(Text(Chosen(e))) = Len(c)
      BY <2>5, <2>12, TextIs
    <3>2. \A i \in 1..Len(c) : Text(Chosen(e))[i] = b[i - 1]
      BY <2>5, <2>12, TextIs
    <3>3. \A i \in 1..Len(c) : Text(Chosen(e))[i] = c[i]
      BY <2>2, <2>8, <3>2
    <3> QED
      BY <2>2, <3>1, <3>3
  <2> QED
    BY <1>2, <2>1, <2>5, <2>12, <2>13
<1> QED
  BY <1>1, <1>2

LEMMA CompletedIs ==
  ASSUME settings \in Settings, CompletionsFit, NEW x, x = [l |-> x.l, t |-> x.t], Line(x.l)
  PROVE  /\ Line(Completed(x).l)
         /\ ~x.l.in_completion => Completed(x) = x
         /\ x.l.in_completion => Completed(x) = refreshLine([l |-> Chosen(x.l), t |-> x.t])
         /\ SameLine(Completed(x).l, IF x.l.in_completion THEN Chosen(x.l) ELSE x.l)
<1>1. CASE ~x.l.in_completion
  BY <1>1 DEF Completed, SameLine
<1>2. CASE x.l.in_completion
  <2>1. [x EXCEPT !.l = Chosen(x.l)] = [l |-> Chosen(x.l), t |-> x.t]
    OBVIOUS
  <2>2. Completed(x) = refreshLine([x EXCEPT !.l = Chosen(x.l)])
    BY <1>2 DEF Completed, Chosen
  <2>3. Line(Chosen(x.l))
    BY ChosenLine
  <2>4. PICK y : y = [l |-> Chosen(x.l), t |-> x.t]
    OBVIOUS
  <2>5. y.l = Chosen(x.l) /\ Completed(x) = refreshLine(y)
    BY <2>1, <2>2, <2>4
  <2>6. Line(refreshLine(y).l) /\ SameLine(refreshLine(y).l, y.l)
    BY <2>3, <2>5, RefreshLineKeeps
  <2> QED
    BY <1>2, <2>4, <2>5, <2>6
<1> QED
  BY <1>1, <1>2

(* ---- the keys ------------------------------------------------------------- *)
MovedLeft(e) == [e EXCEPT !.pos = @ - 1]
MovedRight(e) == [e EXCEPT !.pos = @ + 1]
MovedHome(e) == [e EXCEPT !.pos = 0]
MovedEnd(e) == [e EXCEPT !.pos = e.len]
Deleted(e) ==
  [e EXCEPT !.buf = [memmove(@, e.pos, e.pos + 1, e.len - e.pos - 1) EXCEPT ![e.len - 1] = Nul], !.len = @ - 1]
Backspaced(e) ==
  [e EXCEPT !.buf = [memmove(@, e.pos - 1, e.pos, e.len - e.pos) EXCEPT ![e.len - 1] = Nul],
            !.len = @ - 1, !.pos = @ - 1]
Transposed(e) ==
  [e EXCEPT !.buf[e.pos - 1] = e.buf[e.pos], !.buf[e.pos] = e.buf[e.pos - 1],
            !.pos = IF @ # e.len - 1 THEN @ + 1 ELSE @]
LineDeleted(e) == [e EXCEPT !.buf[0] = Nul, !.pos = 0, !.len = 0]
EndDeleted(e) == [e EXCEPT !.buf[e.pos] = Nul, !.len = e.pos]

(* e with another text and cursor.                                         *)
With(e, b, p, n) ==
  [buf |-> b, pos |-> p, len |-> n, oldpos |-> e.oldpos, oldrows |-> e.oldrows,
   history_index |-> e.history_index, in_completion |-> e.in_completion, completion_idx |-> e.completion_idx]

(* It is a line again, in which F says what the characters are.            *)
Becomes(e, new, p, n) ==
  /\ Line(new) /\ new.pos = p /\ new.len = n /\ new.oldpos = e.oldpos /\ new.oldrows = e.oldrows
  /\ new.history_index = e.history_index /\ new.in_completion = e.in_completion
  /\ new.completion_idx = e.completion_idx

SetPos(e, p) == [e EXCEPT !.pos = p]
SetText(e, b, n) == [e EXCEPT !.buf = b, !.len = n]
SetBufPos(e, b, p) == [e EXCEPT !.buf = b, !.pos = p]
SetTextPos(e, b, n, p) == [e EXCEPT !.buf = b, !.len = n, !.pos = p]
SetPosLen(e, b, p, n) == [e EXCEPT !.buf = b, !.pos = p, !.len = n]

LEMMA WithIs ==
  ASSUME NEW B, NEW e \in States(B), NEW b, NEW p, NEW n
  PROVE  /\ SetPos(e, p) = With(e, e.buf, p, e.len)
         /\ SetText(e, b, n) = With(e, b, e.pos, n)
         /\ SetBufPos(e, b, p) = With(e, b, p, e.len)
         /\ SetTextPos(e, b, n, p) = With(e, b, p, n)
         /\ SetPosLen(e, b, p, n) = With(e, b, p, n)
<1>1. e = With(e, e.buf, e.pos, e.len)
  BY DEF With, States
<1>2. ASSUME NEW c, NEW q, NEW m, NEW x
      PROVE  /\ [With(e, c, q, m) EXCEPT !.buf = x] = With(e, x, q, m)
             /\ [With(e, c, q, m) EXCEPT !.pos = x] = With(e, c, x, m)
             /\ [With(e, c, q, m) EXCEPT !.len = x] = With(e, c, q, x)
  BY DEF With
<1>3. PICK d : d = [e EXCEPT !.buf = b]
  OBVIOUS
<1>4. d = With(e, b, e.pos, e.len)
  BY <1>1, <1>2, <1>3
<1>5. PICK f : f = [d EXCEPT !.len = n]
  OBVIOUS
<1>6. f = With(e, b, e.pos, n)
  BY <1>2, <1>4, <1>5
<1>7. PICK g : g = [d EXCEPT !.pos = p]
  OBVIOUS
<1>8. g = With(e, b, p, e.len)
  BY <1>2, <1>4, <1>7
<1>9. [f EXCEPT !.pos = p] = With(e, b, p, n)
  BY <1>2, <1>6
<1>10. [g EXCEPT !.len = n] = With(e, b, p, n)
  BY <1>2, <1>8, SMTT(30)
<1>11. [e EXCEPT !.pos = p] = With(e, e.buf, p, e.len)
  BY <1>1, <1>2
<1> QED
  BY <1>3, <1>5, <1>6, <1>7, <1>8, <1>9, <1>10, <1>11 DEF SetPos, SetText, SetBufPos, SetTextPos, SetPosLen

LEMMA WithLine ==
  ASSUME NEW e, Line(e), NEW b \in Buffers, NEW n \in Nat, NEW p \in 0..n, Ends(b, n)
  PROVE  Becomes(e, With(e, b, p, n), p, n)
BY DEF With, Line, States, Becomes

LEMMA LineNumbers ==
  ASSUME NEW e, Line(e)
  PROVE  /\ e \in States(Buffers) /\ e.buf \in Buffers /\ e.len \in Nat /\ e.pos \in 0..e.len /\ e.len \in 0..BufLen
         /\ BufLen \in Nat \ {0} /\ e.buf[e.len] = Nul /\ (\A i \in 0..(e.len - 1) : e.buf[i] # Nul)
         /\ Nul \notin Chars
BY LineEditAssumption DEF Line, States, Ends

Shifted(m, b, to, from, n) ==
  \A i \in 0..BufLen : m[i] = IF i \in to..(to + n - 1) THEN b[i - to + from] ELSE b[i]

LEMMA MoveIs ==
  ASSUME NEW b \in Buffers, NEW to \in Nat, NEW from \in Nat, NEW n \in Nat,
         to + n <= BufLen + 1, from + n <= BufLen + 1, BufLen \in Nat
  PROVE  /\ memmove(b, to, from, n) \in Buffers
         /\ Shifted(memmove(b, to, from, n), b, to, from, n)
<1>1. b \in [0..BufLen -> Chars \cup {Nul}] /\ DOMAIN b = 0..BufLen
  BY DEF Buffers
<1>2. PICK m : m = [i \in 0..BufLen |-> IF i \in to..(to + n - 1) THEN b[i - to + from] ELSE b[i]]
  OBVIOUS
<1>3. m = memmove(b, to, from, n)
  BY <1>1, <1>2 DEF memmove
<1>4. \A i \in 0..BufLen : i \in to..(to + n - 1) => i - to + from \in 0..BufLen
  OBVIOUS
<1>5. \A i \in 0..BufLen : m[i] \in Chars \cup {Nul}
  BY <1>1, <1>2, <1>4
<1>6. m \in Buffers
  BY <1>2, <1>5 DEF Buffers
<1> QED
  BY <1>2, <1>3, <1>6 DEF Shifted

LEMMA MovesKeep ==
  ASSUME NEW e, Line(e)
  PROVE  /\ e.pos > 0 => Becomes(e, MovedLeft(e), e.pos - 1, e.len) /\ MovedLeft(e).buf = e.buf
         /\ e.pos # e.len => Becomes(e, MovedRight(e), e.pos + 1, e.len) /\ MovedRight(e).buf = e.buf
         /\ Becomes(e, MovedHome(e), 0, e.len) /\ MovedHome(e).buf = e.buf
         /\ Becomes(e, MovedEnd(e), e.len, e.len) /\ MovedEnd(e).buf = e.buf
<1>1. \A p : SetPos(e, p) = With(e, e.buf, p, e.len)
  BY LineNumbers, WithIs
<1>2. ASSUME NEW p \in 0..e.len
      PROVE  Becomes(e, SetPos(e, p), p, e.len) /\ SetPos(e, p).buf = e.buf
  <2>1. Becomes(e, With(e, e.buf, p, e.len), p, e.len)
    BY LineNumbers, WithLine DEF Line
  <2> QED
    BY <1>1, <2>1 DEF With
<1>3. /\ MovedLeft(e) = SetPos(e, e.pos - 1) /\ MovedRight(e) = SetPos(e, e.pos + 1)
      /\ MovedHome(e) = SetPos(e, 0) /\ MovedEnd(e) = SetPos(e, e.len)
  BY LineNumbers DEF MovedLeft, MovedRight, MovedHome, MovedEnd, SetPos, States
<1>4. /\ 0 \in 0..e.len /\ e.len \in 0..e.len
      /\ e.pos > 0 => e.pos - 1 \in 0..e.len
      /\ e.pos # e.len => e.pos + 1 \in 0..e.len
  BY LineNumbers
<1> QED
  BY <1>2, <1>3, <1>4

LEMMA InsertedIs ==
  ASSUME NEW e, Line(e), e.len < BufLen, NEW c \in Chars
  PROVE  /\ Becomes(e, Inserted(e, c), e.pos + 1, e.len + 1)
         /\ \A i \in 0..e.len : Inserted(e, c).buf[i] =
              IF i < e.pos THEN e.buf[i] ELSE IF i = e.pos THEN c ELSE e.buf[i - 1]
<1>1. PICK m : m = memmove(e.buf, e.pos + 1, e.pos, e.len - e.pos)
  OBVIOUS
<1>2. /\ m \in Buffers
      /\ \A i \in 0..BufLen : m[i] = IF i \in (e.pos + 1)..(e.pos + 1 + (e.len - e.pos) - 1)
                                     THEN e.buf[i - (e.pos + 1) + e.pos] ELSE e.buf[i]
  <2>1. e.len - e.pos \in Nat /\ e.pos + 1 + (e.len - e.pos) <= BufLen + 1 /\ e.pos + (e.len - e.pos) <= BufLen + 1
    BY LineNumbers
  <2>2. e.pos \in Nat /\ e.pos + 1 \in Nat /\ BufLen \in Nat /\ e.buf \in Buffers
    BY LineNumbers
  <2> QED
    <3>1. PICK to \in Nat, n \in Nat : to = e.pos + 1 /\ n = e.len - e.pos
      BY <2>1, <2>2
    <3>2. m \in Buffers /\ Shifted(m, e.buf, to, e.pos, n)
      BY <1>1, <2>1, <2>2, <3>1, MoveIs
    <3> QED
      BY <3>1, <3>2 DEF Shifted
<1>3. PICK b : b = [m EXCEPT ![e.pos] = c, ![e.len + 1] = Nul]
  OBVIOUS
<1>4. b \in Buffers
  BY <1>2, <1>3 DEF Buffers
<1>5. b = [i \in 0..BufLen |-> IF i = e.len + 1 THEN Nul ELSE IF i = e.pos THEN c ELSE m[i]]
  BY <1>2, <1>3, LineNumbers DEF Buffers
<1>6. ASSUME NEW i \in 0..e.len
      PROVE  b[i] = IF i < e.pos THEN e.buf[i] ELSE IF i = e.pos THEN c ELSE e.buf[i - 1]
  <2>1. i \in 0..BufLen /\ i # e.len + 1 /\ e.pos \in Nat
    BY LineNumbers
  <2>2. CASE i <= e.pos
    BY <1>2, <1>5, <2>1, <2>2
  <2>3. CASE i > e.pos
    <3>1. i \in (e.pos + 1)..(e.pos + 1 + (e.len - e.pos) - 1) /\ i - (e.pos + 1) + e.pos = i - 1
      BY <2>1, <2>3, LineNumbers
    <3> QED
      BY <1>2, <1>5, <2>1, <2>3, <3>1
  <2> QED
    BY <2>1, <2>2, <2>3
<1>7. Ends(b, e.len + 1)
  <2>1. e.len + 1 \in 0..BufLen /\ b[e.len + 1] = Nul
    BY <1>5, LineNumbers
  <2>2. ASSUME NEW i \in 0..(e.len + 1 - 1) PROVE b[i] # Nul
    <3>1. i \in 0..e.len
      BY LineNumbers
    <3> QED
      BY <1>6, <3>1, LineNumbers
  <2>3. \A i \in 0..((e.len + 1) - 1) : b[i] # Nul
    BY <2>2, LineNumbers
  <2> QED
    BY <2>1, <2>3 DEF Ends
<1>8. Inserted(e, c) = With(e, b, e.pos + 1, e.len + 1)
  <2>1. Inserted(e, c) = SetTextPos(e, b, e.len + 1, e.pos + 1)
    BY <1>1, <1>3, LineNumbers DEF Inserted, SetTextPos, States
  <2> QED
    BY <2>1, LineNumbers, WithIs
<1>9. Becomes(e, With(e, b, e.pos + 1, e.len + 1), e.pos + 1, e.len + 1)
  BY <1>4, <1>7, WithLine, LineNumbers
<1> QED
  BY <1>6, <1>8, <1>9 DEF With

LEMMA DeletedIs ==
  ASSUME NEW e, Line(e), e.pos < e.len
  PROVE  /\ Becomes(e, Deleted(e), e.pos, e.len - 1)
         /\ \A i \in 0..(e.len - 2) : Deleted(e).buf[i] = IF i < e.pos THEN e.buf[i] ELSE e.buf[i + 1]
<1>1. PICK m : m = memmove(e.buf, e.pos, e.pos + 1, e.len - e.pos - 1)
  OBVIOUS
<1>2. /\ m \in Buffers
      /\ \A i \in 0..BufLen : m[i] = IF i \in e.pos..(e.pos + (e.len - e.pos - 1) - 1)
                                     THEN e.buf[i - e.pos + (e.pos + 1)] ELSE e.buf[i]
  <2>1. /\ e.len - e.pos - 1 \in Nat /\ e.pos + (e.len - e.pos - 1) <= BufLen + 1
        /\ e.pos + 1 + (e.len - e.pos - 1) <= BufLen + 1
    BY LineNumbers
  <2>2. e.pos \in Nat /\ e.pos + 1 \in Nat /\ BufLen \in Nat /\ e.buf \in Buffers
    BY LineNumbers
  <2> QED
    <3>1. PICK from \in Nat, n \in Nat : from = e.pos + 1 /\ n = e.len - e.pos - 1
      BY <2>1, <2>2
    <3>2. m \in Buffers /\ Shifted(m, e.buf, e.pos, from, n)
      BY <1>1, <2>1, <2>2, <3>1, MoveIs
    <3> QED
      BY <3>1, <3>2 DEF Shifted
<1>3. PICK b : b = [m EXCEPT ![e.len - 1] = Nul]
  OBVIOUS
<1>4. b \in Buffers
  BY <1>2, <1>3 DEF Buffers
<1>5. b = [i \in 0..BufLen |-> IF i = e.len - 1 THEN Nul ELSE m[i]]
  BY <1>2, <1>3, LineNumbers DEF Buffers
<1>6. ASSUME NEW i \in 0..(e.len - 2)
      PROVE  b[i] = IF i < e.pos THEN e.buf[i] ELSE e.buf[i + 1]
  <2>1. i \in 0..BufLen /\ i # e.len - 1 /\ e.pos \in Nat
    BY LineNumbers
  <2>2. CASE i < e.pos
    BY <1>2, <1>5, <2>1, <2>2
  <2>3. CASE i >= e.pos
    <3>1. i \in e.pos..(e.pos + (e.len - e.pos - 1) - 1) /\ i - e.pos + (e.pos + 1) = i + 1
      BY <2>1, <2>3, LineNumbers
    <3> QED
      BY <1>2, <1>5, <2>1, <2>3, <3>1
  <2> QED
    BY <2>1, <2>2, <2>3
<1>7. Ends(b, e.len - 1)
  <2>1. e.len - 1 \in 0..BufLen /\ b[e.len - 1] = Nul
    BY <1>5, LineNumbers
  <2>2. ASSUME NEW i \in 0..(e.len - 1 - 1) PROVE b[i] # Nul
    <3>1. i \in 0..(e.len - 2) /\ i \in 0..(e.len - 1) /\ i + 1 \in 0..(e.len - 1)
      BY LineNumbers
    <3> QED
      BY <1>6, <3>1, LineNumbers
  <2>3. \A i \in 0..((e.len - 1) - 1) : b[i] # Nul
    BY <2>2, LineNumbers
  <2> QED
    BY <2>1, <2>3 DEF Ends
<1>8. Deleted(e) = With(e, b, e.pos, e.len - 1)
  <2>1. Deleted(e) = SetText(e, b, e.len - 1)
    BY <1>1, <1>3, LineNumbers DEF Deleted, SetText, States
  <2> QED
    BY <2>1, LineNumbers, WithIs
<1>9. Becomes(e, With(e, b, e.pos, e.len - 1), e.pos, e.len - 1)
  <2>1. e.len - 1 \in Nat /\ e.pos \in 0..(e.len - 1)
    BY LineNumbers
  <2> QED
    BY <1>4, <1>7, <2>1, WithLine
<1> QED
  BY <1>6, <1>8, <1>9 DEF With

LEMMA BackspacedIs ==
  ASSUME NEW e, Line(e), e.pos > 0
  PROVE  /\ Becomes(e, Backspaced(e), e.pos - 1, e.len - 1)
         /\ \A i \in 0..(e.len - 2) : Backspaced(e).buf[i] = IF i < e.pos - 1 THEN e.buf[i] ELSE e.buf[i + 1]
<1>1. PICK m : m = memmove(e.buf, e.pos - 1, e.pos, e.len - e.pos)
  OBVIOUS
<1>2. /\ m \in Buffers
      /\ \A i \in 0..BufLen : m[i] = IF i \in (e.pos - 1)..(e.pos - 1 + (e.len - e.pos) - 1)
                                     THEN e.buf[i - (e.pos - 1) + e.pos] ELSE e.buf[i]
  <2>1. /\ e.len - e.pos \in Nat /\ e.pos - 1 + (e.len - e.pos) <= BufLen + 1
        /\ e.pos + (e.len - e.pos) <= BufLen + 1
    BY LineNumbers
  <2>2. PICK to \in Nat, n \in Nat : to = e.pos - 1 /\ n = e.len - e.pos
    BY <2>1, LineNumbers
  <2>3. e.pos \in Nat /\ BufLen \in Nat /\ e.buf \in Buffers
    BY LineNumbers
  <2>4. to + n <= BufLen + 1 /\ e.pos + n <= BufLen + 1
    BY <2>1, <2>2
  <2>5. m \in Buffers
    BY <1>1, <2>2, <2>3, <2>4, MoveIs
  <2>6. Shifted(m, e.buf, to, e.pos, n)
    BY <1>1, <2>2, <2>3, <2>4, MoveIs
  <2> QED
    BY <2>2, <2>5, <2>6 DEF Shifted
<1>3. PICK b : b = [m EXCEPT ![e.len - 1] = Nul]
  OBVIOUS
<1>4. b \in Buffers
  BY <1>2, <1>3 DEF Buffers
<1>5. b = [i \in 0..BufLen |-> IF i = e.len - 1 THEN Nul ELSE m[i]]
  BY <1>2, <1>3, LineNumbers DEF Buffers
<1>6. ASSUME NEW i \in 0..(e.len - 2)
      PROVE  b[i] = IF i < e.pos - 1 THEN e.buf[i] ELSE e.buf[i + 1]
  <2>1. i \in 0..BufLen /\ i # e.len - 1 /\ e.pos \in Nat
    BY LineNumbers
  <2>2. CASE i < e.pos - 1
    BY <1>2, <1>5, <2>1, <2>2
  <2>3. CASE i >= e.pos - 1
    <3>1. i \in (e.pos - 1)..(e.pos - 1 + (e.len - e.pos) - 1) /\ i - (e.pos - 1) + e.pos = i + 1
      BY <2>1, <2>3, LineNumbers
    <3> QED
      BY <1>2, <1>5, <2>1, <2>3, <3>1
  <2> QED
    BY <2>1, <2>2, <2>3
<1>7. Ends(b, e.len - 1)
  <2>1. e.len - 1 \in 0..BufLen /\ b[e.len - 1] = Nul
    BY <1>5, LineNumbers
  <2>2. ASSUME NEW i \in 0..(e.len - 1 - 1) PROVE b[i] # Nul
    <3>1. i \in 0..(e.len - 2) /\ i \in 0..(e.len - 1) /\ i + 1 \in 0..(e.len - 1)
      BY LineNumbers
    <3> QED
      BY <1>6, <3>1, LineNumbers
  <2>3. \A i \in 0..((e.len - 1) - 1) : b[i] # Nul
    BY <2>2, LineNumbers
  <2> QED
    BY <2>1, <2>3 DEF Ends
<1>8. Backspaced(e) = With(e, b, e.pos - 1, e.len - 1)
  <2>1. Backspaced(e) = SetTextPos(e, b, e.len - 1, e.pos - 1)
    BY <1>1, <1>3, LineNumbers DEF Backspaced, SetTextPos, States
  <2> QED
    BY <2>1, LineNumbers, WithIs
<1>9. Becomes(e, With(e, b, e.pos - 1, e.len - 1), e.pos - 1, e.len - 1)
  <2>1. e.len - 1 \in Nat /\ e.pos - 1 \in 0..(e.len - 1)
    BY LineNumbers
  <2> QED
    BY <1>4, <1>7, <2>1, WithLine
<1> QED
  BY <1>6, <1>8, <1>9 DEF With

LEMMA TransposedIs ==
  ASSUME NEW e, Line(e), e.pos > 0, e.pos < e.len
  PROVE  /\ Becomes(e, Transposed(e), IF e.pos # e.len - 1 THEN e.pos + 1 ELSE e.pos, e.len)
         /\ \A i \in 0..(e.len - 1) : Transposed(e).buf[i] =
              IF i = e.pos - 1 THEN e.buf[e.pos] ELSE IF i = e.pos THEN e.buf[e.pos - 1] ELSE e.buf[i]
<1>1. PICK b : b = [e.buf EXCEPT ![e.pos - 1] = e.buf[e.pos], ![e.pos] = e.buf[e.pos - 1]]
  OBVIOUS
<1>2. e.pos \in 0..BufLen /\ e.pos - 1 \in 0..BufLen /\ e.pos # e.pos - 1
  BY LineNumbers
<1>3. e.buf[e.pos] \in Chars \cup {Nul} /\ e.buf[e.pos - 1] \in Chars \cup {Nul}
  BY <1>2, LineNumbers DEF Buffers
<1>4. b = [i \in 0..BufLen |-> IF i = e.pos - 1 THEN e.buf[e.pos] ELSE IF i = e.pos THEN e.buf[e.pos - 1] ELSE e.buf[i]]
  BY <1>1, <1>2, LineNumbers DEF Buffers
<1>5. b \in Buffers
  BY <1>3, <1>4, LineNumbers DEF Buffers
<1>6. ASSUME NEW i \in 0..(e.len - 1)
      PROVE  b[i] = IF i = e.pos - 1 THEN e.buf[e.pos] ELSE IF i = e.pos THEN e.buf[e.pos - 1] ELSE e.buf[i]
  BY <1>4, LineNumbers
<1>7. Ends(b, e.len)
  <2>1. e.len \in 0..BufLen /\ b[e.len] = Nul
    BY <1>4, LineNumbers
  <2>2. e.pos \in 0..(e.len - 1) /\ e.pos - 1 \in 0..(e.len - 1)
    BY LineNumbers
  <2>3. \A i \in 0..(e.len - 1) : b[i] # Nul
    BY <1>6, <2>2, LineNumbers
  <2> QED
    BY <2>1, <2>3 DEF Ends
<1>8. PICK p \in 0..e.len : p = IF e.pos # e.len - 1 THEN e.pos + 1 ELSE e.pos
  BY LineNumbers
<1>9. Transposed(e) = With(e, b, p, e.len)
  <2>1. PICK d : d = [e EXCEPT !.buf[e.pos - 1] = e.buf[e.pos], !.buf[e.pos] = e.buf[e.pos - 1]]
    OBVIOUS
  <2>2. PICK f : f = [e EXCEPT !.buf[e.pos - 1] = e.buf[e.pos]]
    OBVIOUS
  <2>3. PICK c : c = [e.buf EXCEPT ![e.pos - 1] = e.buf[e.pos]]
    OBVIOUS
  <2>4. f = With(e, c, e.pos, e.len)
    BY <2>2, <2>3, LineNumbers DEF With, States
  <2>5. d = [f EXCEPT !.buf[e.pos] = e.buf[e.pos - 1]]
    BY <2>1, <2>2
  <2>6. b = [c EXCEPT ![e.pos] = e.buf[e.pos - 1]]
    BY <1>1, <2>3
  <2>7. d = With(e, b, e.pos, e.len)
    BY <2>4, <2>5, <2>6 DEF With
  <2>8. Transposed(e) = [d EXCEPT !.pos = IF @ # e.len - 1 THEN @ + 1 ELSE @]
    BY <2>1 DEF Transposed
  <2> QED
    BY <1>8, <2>7, <2>8 DEF With
<1>10. Becomes(e, With(e, b, p, e.len), p, e.len)
  BY <1>5, <1>7, WithLine, LineNumbers
<1> QED
  BY <1>6, <1>8, <1>9, <1>10 DEF With

LEMMA LineDeletedIs ==
  ASSUME NEW e, Line(e)
  PROVE  Becomes(e, LineDeleted(e), 0, 0)
<1>1. PICK b : b = [e.buf EXCEPT ![0] = Nul]
  OBVIOUS
<1>2. b \in Buffers /\ b[0] = Nul /\ 0 \in 0..BufLen
  BY <1>1, LineNumbers DEF Buffers
<1>3. Ends(b, 0)
  BY <1>2 DEF Ends
<1>4. LineDeleted(e) = SetPosLen(e, b, 0, 0)
  BY <1>1, LineNumbers DEF LineDeleted, SetPosLen, States
<1>5. LineDeleted(e) = With(e, b, 0, 0)
  BY <1>4, LineNumbers, WithIs
<1> QED
  BY <1>2, <1>3, <1>5, WithLine

LEMMA EndDeletedIs ==
  ASSUME NEW e, Line(e)
  PROVE  /\ Becomes(e, EndDeleted(e), e.pos, e.pos)
         /\ \A i \in 0..(e.pos - 1) : EndDeleted(e).buf[i] = e.buf[i]
<1>1. PICK b : b = [e.buf EXCEPT ![e.pos] = Nul]
  OBVIOUS
<1>2. b \in Buffers /\ b[e.pos] = Nul /\ e.pos \in 0..BufLen
  BY <1>1, LineNumbers DEF Buffers
<1>3. \A i \in 0..(e.pos - 1) : b[i] = e.buf[i]
  BY <1>1, LineNumbers DEF Buffers
<1>4. Ends(b, e.pos)
  BY <1>2, <1>3, LineNumbers DEF Ends
<1>5. EndDeleted(e) = SetText(e, b, e.pos)
  BY <1>1, LineNumbers DEF EndDeleted, SetText, States
<1>6. EndDeleted(e) = With(e, b, e.pos, e.pos)
  BY <1>5, LineNumbers, WithIs
<1>7. Becomes(e, With(e, b, e.pos, e.pos), e.pos, e.pos)
  BY <1>2, <1>4, WithLine, LineNumbers
<1> QED
  BY <1>3, <1>6, <1>7 DEF With

(* The greatest number of a set that has one.                              *)
LEMMA Greatest ==
  ASSUME NEW k \in Nat, NEW S, S \subseteq 0..k, 0 \in S
  PROVE  Max(S) \in S /\ \A y \in S : y <= Max(S)
<1> DEFINE A == {j \in 0..k : \E m \in S : m <= j /\ \A y \in S : y <= j => y <= m}
<1>1. ASSUME NEW j \in 0..k, j = 0 \/ j - 1 \in A PROVE j \in A
  <2>1. CASE j = 0
    BY <2>1
  <2>2. CASE j # 0 /\ j \in S
    BY <2>2
  <2>3. CASE j # 0 /\ j \notin S
    <3>1. PICK m \in S : m <= j - 1 /\ \A y \in S : y <= j - 1 => y <= m
      BY <1>1, <2>3
    <3>2. ASSUME NEW y \in S, y <= j PROVE y <= m
      BY <2>3, <3>1, <3>2
    <3> QED
      BY <3>1, <3>2
  <2> QED
    BY <2>1, <2>2, <2>3
<1>2. 0..k \in SUBSET Nat /\ \A j \in 0..k : j # 0 => j - 1 \in 0..k
  OBVIOUS
<1>3. 0..k \subseteq A
  <2> HIDE DEF A
  <2> QED
    BY <1>1, <1>2, Induction
<1>4. \E m \in S : \A y \in S : m >= y
  BY <1>3
<1>5. Max(S) \in S /\ \A y \in S : Max(S) >= y
  BY <1>4 DEF Max
<1> QED
  BY <1>5

(* The word before the cursor: characters without a space before them, and *)
(* then spaces.                                                            *)
LEMMA WordStartIs ==
  ASSUME NEW e, Line(e)
  PROVE  \E last \in 0..e.pos :
           /\ WordStart(e) \in 0..last
           /\ last > 0 => e.buf[last - 1] # Space
           /\ \A i \in (last + 1)..e.pos : e.buf[i - 1] = Space
           /\ WordStart(e) > 0 => e.buf[WordStart(e) - 1] = Space
           /\ \A i \in (WordStart(e) + 1)..last : e.buf[i - 1] # Space
<1> DEFINE S == {0} \cup {i \in 1..e.pos : e.buf[i - 1] # Space}
           last == Max(S)
           T == {0} \cup {i \in 1..last : e.buf[i - 1] = Space}
           at == Max(T)
<1>1. e.pos \in Nat
  BY LineNumbers
<1>2. last \in S /\ \A y \in S : y <= last
  <2>1. S \subseteq 0..e.pos /\ 0 \in S
    BY <1>1
  <2> HIDE DEF S
  <2> QED
    BY <1>1, <2>1, Greatest
<1>3. last \in 0..e.pos
  BY <1>1, <1>2
<1>4. \A i \in (last + 1)..e.pos : e.buf[i - 1] = Space
  <2> SUFFICES ASSUME NEW i \in (last + 1)..e.pos, e.buf[i - 1] # Space PROVE FALSE
    OBVIOUS
  <2>1. i \in S
    BY <1>1, <1>3
  <2> QED
    BY <1>2, <1>3, <2>1
<1>5. last > 0 => e.buf[last - 1] # Space
  BY <1>2
<1> HIDE DEF last
<1>6. at \in T /\ \A y \in T : y <= at
  <2>1. T \subseteq 0..last /\ 0 \in T /\ last \in Nat
    BY <1>1, <1>3
  <2> HIDE DEF T
  <2> QED
    BY <2>1, Greatest
<1>7. at \in 0..last
  BY <1>3, <1>6
<1>8. \A i \in (at + 1)..last : e.buf[i - 1] # Space
  <2> SUFFICES ASSUME NEW i \in (at + 1)..last, e.buf[i - 1] = Space PROVE FALSE
    OBVIOUS
  <2>1. i \in T
    BY <1>3, <1>7
  <2> QED
    BY <1>3, <1>6, <1>7, <2>1
<1>9. at > 0 => e.buf[at - 1] = Space
  BY <1>6
<1>10. WordStart(e) = at
  BY DEF WordStart, last
<1> HIDE DEF at
<1> QED
  BY <1>3, <1>4, <1>5, <1>7, <1>8, <1>9, <1>10

LEMMA DeletedWordIs ==
  ASSUME NEW e, Line(e)
  PROVE  /\ WordStart(e) \in 0..e.pos
         /\ Becomes(e, DeletedWord(e), WordStart(e), e.len - (e.pos - WordStart(e)))
         /\ \A i \in 0..(e.len - (e.pos - WordStart(e)) - 1) :
              DeletedWord(e).buf[i] = IF i < WordStart(e) THEN e.buf[i] ELSE e.buf[i + (e.pos - WordStart(e))]
<1>1. PICK at \in 0..e.pos : at = WordStart(e)
  BY WordStartIs, LineNumbers
<1>2. PICK n \in Nat : n = e.len - e.pos + 1
  BY LineNumbers
<1>3. PICK b : b = memmove(e.buf, at, e.pos, n)
  OBVIOUS
<1>4. /\ b \in Buffers
      /\ \A i \in 0..BufLen : b[i] = IF i \in at..(at + n - 1) THEN e.buf[i - at + e.pos] ELSE e.buf[i]
  <2>1. at \in Nat /\ e.pos \in Nat /\ at + n <= BufLen + 1 /\ e.pos + n <= BufLen + 1 /\ BufLen \in Nat /\ e.buf \in Buffers
    BY <1>2, LineNumbers
  <2> QED
    <3>1. b \in Buffers /\ Shifted(b, e.buf, at, e.pos, n)
      BY <1>3, <2>1, MoveIs
    <3> QED
      BY <3>1 DEF Shifted
<1>5. PICK len \in 0..e.len : len = e.len - (e.pos - at)
  BY LineNumbers
<1>6. ASSUME NEW i \in 0..len
      PROVE  b[i] = IF i < at THEN e.buf[i] ELSE e.buf[i + (e.pos - at)]
  <2>1. i \in 0..BufLen
    BY LineNumbers
  <2>2. i >= at => i \in at..(at + n - 1) /\ i - at + e.pos = i + (e.pos - at)
    BY <1>2, <1>5, LineNumbers
  <2>3. i < at => i \notin at..(at + n - 1)
    OBVIOUS
  <2> QED
    BY <1>4, <2>1, <2>2, <2>3
<1>7. Ends(b, len)
  <2>1. len + (e.pos - at) = e.len /\ len >= at /\ len \in 0..BufLen /\ len \in 0..len
    BY <1>5, LineNumbers
  <2>2. b[len] = Nul
    BY <1>6, <2>1, LineNumbers
  <2>3. ASSUME NEW i \in 0..(len - 1) PROVE b[i] # Nul
    <3>1. i \in 0..len /\ i \in 0..(e.len - 1) /\ i + (e.pos - at) \in 0..(e.len - 1)
      BY <1>5, LineNumbers
    <3> QED
      BY <1>6, <3>1, LineNumbers
  <2> QED
    BY <2>1, <2>2, <2>3 DEF Ends
<1>8. DeletedWord(e) = With(e, b, at, len)
  <2>1. DeletedWord(e) = SetPosLen(e, b, at, len)
    BY <1>1, <1>2, <1>3, <1>5, LineNumbers DEF DeletedWord, SetPosLen, States
  <2> QED
    BY <2>1, LineNumbers, WithIs
<1>9. Becomes(e, With(e, b, at, len), at, len)
  <2>1. len \in Nat /\ at \in 0..len
    BY <1>5, LineNumbers
  <2> QED
    BY <1>4, <1>7, <2>1, WithLine
<1> QED
  BY <1>1, <1>5, <1>6, <1>8, <1>9 DEF With

(* ---- the history ---------------------------------------------------------- *)
LEMMA RecalledIs ==
  ASSUME NEW e, Line(e), NEW line \in Seq(Chars)
  PROVE  \E n \in Nat :
           /\ n = Min2(Len(line), BufLen - 1)
           /\ Becomes(e, Recalled(e, line), n, n)
           /\ \A i \in 0..(n - 1) : Recalled(e, line).buf[i] = line[i + 1]
<1>1. PICK n \in 0..(BufLen - 1) : n = Min2(Len(line), BufLen - 1)
  BY LineNumbers DEF Min2
<1>2. PICK b : b = [strncpy(e.buf, line, BufLen) EXCEPT ![BufLen - 1] = Nul]
  OBVIOUS
<1>3. b = [i \in 0..BufLen |-> IF i = BufLen - 1 THEN Nul ELSE IF i >= BufLen THEN e.buf[i]
                               ELSE IF i < Len(line) THEN line[i + 1] ELSE Nul]
  BY <1>2, LineNumbers DEF strncpy, Buffers
<1>4. ASSUME NEW i \in 0..BufLen PROVE b[i] \in Chars \cup {Nul}
  <2>1. i < Len(line) => line[i + 1] \in Chars
    OBVIOUS
  <2>2. e.buf[i] \in Chars \cup {Nul}
    BY LineNumbers DEF Buffers
  <2> QED
    BY <1>3, <2>1, <2>2
<1>5. b \in Buffers
  BY <1>3, <1>4 DEF Buffers
<1>6. \A i \in 0..(n - 1) : b[i] = line[i + 1] /\ b[i] # Nul
  <2> SUFFICES ASSUME NEW i \in 0..(n - 1) PROVE b[i] = line[i + 1] /\ b[i] # Nul
    OBVIOUS
  <2>1. i < Len(line) /\ i < BufLen - 1 /\ i \in 0..BufLen
    BY <1>1, LineNumbers DEF Min2
  <2>2. line[i + 1] \in Chars
    BY <2>1
  <2> QED
    BY <1>3, <2>1, <2>2, LineNumbers
<1>7. b[n] = Nul
  BY <1>1, <1>3, LineNumbers DEF Min2
<1>8. Ends(b, n)
  BY <1>6, <1>7, LineNumbers DEF Ends
<1>9. PICK new : new = With(e, b, e.pos, e.len)
  OBVIOUS
<1>10. [e EXCEPT !.buf = b] = new
  BY <1>9, LineNumbers, SMTT(30) DEF With, States
<1>11. Strlen(new) = n
  BY <1>5, <1>8, <1>9, StrlenIs DEF With
<1>12. Recalled(e, line) = With(e, b, n, n)
  <2>1. [e EXCEPT !.buf = [strncpy(@, line, BufLen) EXCEPT ![BufLen - 1] = Nul]] = new
    BY <1>2, <1>10
  <2>2. Recalled(e, line) = [new EXCEPT !.len = Strlen(new), !.pos = Strlen(new)]
    BY <2>1 DEF Recalled
  <2>3. Recalled(e, line) = [new EXCEPT !.len = n, !.pos = n]
    BY <1>11, <2>2
  <2>4. PICK f : f = [new EXCEPT !.len = n]
    OBVIOUS
  <2>5. f = With(e, b, e.pos, n)
    BY <1>9, <2>4 DEF With
  <2>6. [f EXCEPT !.pos = n] = With(e, b, n, n)
    BY <2>5 DEF With
  <2> QED
    BY <2>3, <2>4, <2>6
<1>13. Becomes(e, With(e, b, n, n), n, n)
  BY <1>5, <1>8, WithLine
<1> QED
  BY <1>1, <1>6, <1>12, <1>13 DEF With

LEMMA HistoryAddIs ==
  ASSUME NEW X, NEW h \in Seq(X), NEW max \in Nat \ {0}, Len(h) <= max, NEW line \in X
  PROVE  /\ linenoiseHistoryAdd(h, max, line) \in Seq(X)
         /\ Len(linenoiseHistoryAdd(h, max, line)) <= max /\ linenoiseHistoryAdd(h, max, line) # <<>>
<1>1. CASE h # <<>> /\ Last(h) = line
  BY <1>1 DEF linenoiseHistoryAdd
<1>2. CASE ~(h # <<>> /\ Last(h) = line)
  <2>1. CASE Len(h) = max
    <3>1. Tail(h) \in Seq(X) /\ Len(Tail(h)) = max - 1
      BY <2>1
    <3>2. Append(Tail(h), line) \in Seq(X) /\ Len(Append(Tail(h), line)) = max
      BY <3>1
    <3> QED
      BY <1>2, <2>1, <3>2 DEF linenoiseHistoryAdd
  <2>2. CASE Len(h) # max
    <3>1. Append(h, line) \in Seq(X) /\ Len(Append(h, line)) = Len(h) + 1
      OBVIOUS
    <3> QED
      BY <1>2, <2>2, <3>1 DEF linenoiseHistoryAdd
  <2> QED
    BY <2>1, <2>2
<1> QED
  BY <1>1, <1>2

(* ---- lines that are not edited --------------------------------------------- *)
LEMMA PieceBounds ==
  ASSUME NEW n \in Nat, NEW B \in Nat \ {0}, NEW i \in 1..((n + B - 1) \div B)
  PROVE  (i - 1) * B \in Nat /\ (i - 1) * B + 1 <= n /\ i * B = (i - 1) * B + B /\ i * B \in Nat
<1>1. PICK q \in Nat : q = (n + B - 1) \div B
  BY Division
<1>2. n + B - 1 \in Nat
  OBVIOUS
<1>3. PICK r \in 0..(B - 1) : n + B - 1 = B * q + r
  BY <1>1, <1>2, Division
<1>4. i \in Nat /\ i <= q /\ i >= 1
  BY <1>1
<1>5. i * B \in Nat /\ B * q \in Nat /\ i * B <= B * q
  BY <1>4
<1>6. (i - 1) * B = i * B - B /\ (i - 1) * B \in Nat
  BY <1>4
<1> QED
  BY <1>3, <1>5, <1>6

LEMMA CutIs ==
  ASSUME NEW line \in Seq(Chars), NEW s, s = Append(line, Eol),
         NEW m \in 1..Len(s), NEW n \in m..Len(s)
  PROVE  /\ Cut(SubSeq(s, m, n)) \in Seq(Chars)
         /\ n < Len(s) => (line[n] = Eol \/ Cut(SubSeq(s, m, n)) = SubSeq(line, m, n))
         /\ n = Len(s) => Cut(SubSeq(s, m, n)) = SubSeq(line, m, Len(line))
<1>1. Len(s) = Len(line) + 1 /\ Len(line) \in Nat /\ (\A i \in 1..Len(line) : s[i] = line[i] /\ line[i] \in Chars)
      /\ s[Len(s)] = Eol
  OBVIOUS
<1>2. PICK c : c = SubSeq(s, m, n)
  OBVIOUS
<1>3. c = [i \in 1..(n - m + 1) |-> s[i + m - 1]]
  <2>1. s \in Seq(Chars \cup {Eol})
    OBVIOUS
  <2> QED
    BY <1>2, <2>1
<1>4. Len(c) = n - m + 1 /\ n - m + 1 \in Nat \ {0} /\ c[n - m + 1] = s[n]
  <2>1. PICK k \in Nat \ {0} : k = n - m + 1
    OBVIOUS
  <2>2. c = [i \in 1..k |-> s[i + m - 1]]
    BY <1>3, <2>1
  <2>3. Len(c) = k
    BY <2>2
  <2>4. k + m - 1 = n
    BY <2>1
  <2>5. c[k] = s[n]
    BY <2>2, <2>4
  <2> QED
    BY <2>1, <2>3, <2>5
<1>5. Last(c) = s[n]
  BY <1>4 DEF Last
<1>6. c \in Seq(Chars \cup {Eol})
  BY <1>1, <1>2
<1>7. CASE s[n] # Eol
  <2>1. n \in 1..Len(line)
    BY <1>1, <1>7
  <2>2. ASSUME NEW i \in 1..(n - m + 1) PROVE c[i] = line[i + m - 1] /\ c[i] \in Chars
    <3>1. i + m - 1 \in 1..Len(line)
      BY <2>1
    <3> QED
      BY <1>1, <1>3, <3>1
  <2>3. c = SubSeq(line, m, n)
    BY <1>3, <2>1, <2>2
  <2>4. c \in Seq(Chars)
    BY <2>1, <2>3
  <2>5. Cut(c) = c
    BY <1>5, <1>7 DEF Cut
  <2> QED
    BY <1>1, <1>2, <2>1, <2>3, <2>4, <2>5
<1>8. CASE s[n] = Eol
  <2>1. Cut(c) = SubSeq(c, 1, n - m)
    BY <1>4, <1>5, <1>8 DEF Cut, Front
  <2>2. SubSeq(c, 1, n - m) = [i \in 1..(n - m) |-> c[i]]
    BY <1>4, <1>6
  <2>3. ASSUME NEW i \in 1..(n - m) PROVE c[i] = line[i + m - 1] /\ c[i] \in Chars
    <3>1. i + m - 1 \in 1..Len(line) /\ i \in 1..(n - m + 1)
      BY <1>1
    <3> QED
      BY <1>1, <1>3, <3>1
  <2>4. Cut(c) \in Seq(Chars)
    BY <2>1, <2>2, <2>3
  <2>5. n - 1 <= Len(line) /\ n - 1 \in Nat /\ m \in Nat \ {0}
    BY <1>1
  <2>6. SubSeq(line, m, n - 1) = [i \in 1..(n - m) |-> line[i + m - 1]]
    BY <2>5
  <2>7. Cut(c) = SubSeq(line, m, n - 1)
    BY <2>1, <2>2, <2>3, <2>6
  <2>8. n = Len(s) => n - 1 = Len(line)
    BY <1>1
  <2> QED
    BY <1>1, <1>2, <1>8, <2>4, <2>7, <2>8
<1> QED
  BY <1>7, <1>8

LEMMA FgetsIs ==
  ASSUME NEW line \in Seq(Chars)
  PROVE  fgets(Append(line, Eol)) \in Seq(Seq(Chars)) /\ fgets(Append(line, Eol)) # <<>>
<1>1. PICK s : s = Append(line, Eol)
  OBVIOUS
<1>2. Len(s) = Len(line) + 1 /\ Len(line) \in Nat /\ BufLen \in Nat \ {0}
  BY <1>1, LineEditAssumption
<1>3. PICK q \in Nat : q = (Len(s) + BufLen - 1) \div BufLen
  BY <1>2, Division
<1>4. fgets(s) = [i \in 1..q |-> Cut(SubSeq(s, (i - 1) * BufLen + 1, Min2(i * BufLen, Len(s))))]
  BY <1>3 DEF fgets
<1>5. ASSUME NEW i \in 1..q PROVE Cut(SubSeq(s, (i - 1) * BufLen + 1, Min2(i * BufLen, Len(s)))) \in Seq(Chars)
  <2>1. /\ (i - 1) * BufLen \in Nat /\ (i - 1) * BufLen + 1 <= Len(s)
        /\ i * BufLen = (i - 1) * BufLen + BufLen /\ i * BufLen \in Nat
    BY <1>2, <1>3, PieceBounds
  <2>2. PICK m \in 1..Len(s) : m = (i - 1) * BufLen + 1
    BY <1>2, <2>1
  <2>3. PICK n \in m..Len(s) : n = Min2(i * BufLen, Len(s))
    BY <1>2, <2>1, <2>2 DEF Min2
  <2>4. Cut(SubSeq(s, m, n)) \in Seq(Chars)
    BY <1>1, CutIs
  <2> QED
    BY <2>2, <2>3, <2>4
<1>6. fgets(s) \in Seq(Seq(Chars)) /\ Len(fgets(s)) = q
  BY <1>4, <1>5
<1>7. q # 0
  <2>1. Len(s) + BufLen - 1 >= BufLen
    BY <1>2
  <2>2. PICK a \in Nat : a = Len(s) + BufLen - 1
    BY <1>2
  <2>3. PICK r \in 0..(BufLen - 1) : a = BufLen * q + r
    BY <1>2, <1>3, <2>2, Division, SMTT(30)
  <2> QED
    BY <1>2, <2>1, <2>2, <2>3
<1> QED
  BY <1>1, <1>6, <1>7

(* Lines are added one after the other.                                    *)
AddedUpTo(h, max, lines, add) ==
  /\ add[0] = h /\ AddedAll(h, max, lines) = add[Len(lines)]
  /\ \A i \in 1..Len(lines) : add[i] = linenoiseHistoryAdd(add[i - 1], max, lines[i])

LEMMA AddedAllIs ==
  ASSUME NEW X, NEW max \in Nat \ {0}, NEW h \in Seq(X), Len(h) <= max, NEW lines \in Seq(X)
  PROVE  /\ \E add : AddedUpTo(h, max, lines, add) /\ \A i \in 0..Len(lines) : add[i] \in Seq(X) /\ Len(add[i]) <= max
         /\ AddedAll(h, max, lines) \in Seq(X) /\ Len(AddedAll(h, max, lines)) <= max
<1> DEFINE D == 0..Len(lines)
           S == {s \in Seq(X) : Len(s) <= max}
           Step(i, s) == linenoiseHistoryAdd(s, max, lines[i])
<1>1. \A i \in 1..Len(lines), s \in S : Step(i, s) \in S
  <2> SUFFICES ASSUME NEW i \in 1..Len(lines), NEW s \in S PROVE Step(i, s) \in S
    OBVIOUS
  <2>1. lines[i] \in X /\ s \in Seq(X) /\ Len(s) <= max
    OBVIOUS
  <2> QED
    BY <2>1, HistoryAddIs
<1>2. PICK F : F = [p \in Nat \X S |-> IF p[1] \in 1..Len(lines) THEN Step(p[1], p[2]) ELSE p[2]]
  OBVIOUS
<1>3. /\ F \in [Nat \X S -> S]
      /\ \A i \in 1..Len(lines), s \in S : F[<<i, s>>] = Step(i, s)
  <2> HIDE DEF Step, S
  <2> QED
    BY <1>1, <1>2
<1>4. D \in SUBSET Nat /\ \A n \in D : n # 0 => n - 1 \in D
  OBVIOUS
<1>5. h \in S
  OBVIOUS
<1>6. PICK f \in [D -> S] : Recursive(f, D, h, F)
  <2> HIDE DEF D, S
  <2> QED
    BY <1>3, <1>4, <1>5, Recursion
<1> DEFINE Follows(g) == g = [i \in D |-> IF i = 0 THEN h ELSE Step(i, g[i - 1])]
<1>7. Follows(f)
  <2>1. \A n \in D : f[n] = IF n = 0 THEN h ELSE F[<<n, f[n - 1]>>]
    BY <1>6 DEF Recursive
  <2>2. \A n \in D : n # 0 => n - 1 \in D /\ n \in 1..Len(lines)
    BY <1>4
  <2> HIDE DEF Step, D, S
  <2>3. \A n \in D : f[n] = IF n = 0 THEN h ELSE Step(n, f[n - 1])
    BY <1>3, <2>1, <2>2
  <2> QED
    BY <2>3
<1>8. PICK add : add = CHOOSE g : Follows(g)
  OBVIOUS
<1>9. AddedAll(h, max, lines) = add[Len(lines)]
  BY <1>8 DEF AddedAll
<1>10. Follows(add)
  <2> HIDE DEF Follows
  <2> QED
    BY <1>7, <1>8
<1> HIDE DEF Step
<1>11. \A i \in D : add[i] = IF i = 0 THEN h ELSE Step(i, add[i - 1])
  BY <1>10
<1>12. \A i \in D : add[i] \in S
  <2> DEFINE A == {i \in D : add[i] \in S}
  <2>1. \A n \in D : n = 0 \/ n - 1 \in A => n \in A
    <3> SUFFICES ASSUME NEW n \in D, n = 0 \/ n - 1 \in A PROVE add[n] \in S
      OBVIOUS
    <3>1. n # 0 => n \in 1..Len(lines) /\ add[n - 1] \in S
      OBVIOUS
    <3> HIDE DEF D, S
    <3> QED
      BY <1>1, <1>5, <1>11, <3>1
  <2> HIDE DEF A
  <2>2. D \subseteq A
    BY <1>4, <2>1, Induction
  <2> QED
    BY <2>2 DEF A
<1>13. Len(lines) \in D /\ 0 \in D
  OBVIOUS
<1>14. \A i \in 1..Len(lines) : add[i] = linenoiseHistoryAdd(add[i - 1], max, lines[i])
  BY <1>11 DEF Step
<1>15. AddedUpTo(h, max, lines, add)
  BY <1>9, <1>11, <1>13, <1>14 DEF AddedUpTo
<1> QED
  BY <1>9, <1>12, <1>13, <1>15

(* The pieces of the lines of the file are added one after the other.      *)
LoadedUpTo(max, load) ==
  /\ load[0] = <<>> /\ Loaded(max) = load[Len(history)]
  /\ \A i \in 1..Len(history) : load[i] = AddedAll(load[i - 1], max, fgets(linenoiseHistorySave[i]))

LEMMA LoadedIs ==
  ASSUME history \in Seq(Seq(Chars)), NEW max \in Nat \ {0}
  PROVE  /\ \E load : LoadedUpTo(max, load) /\ \A i \in 0..Len(history) : load[i] \in Seq(Seq(Chars)) /\ Len(load[i]) <= max
         /\ Loaded(max) \in Seq(Seq(Chars)) /\ Len(Loaded(max)) <= max
<1> DEFINE D == 0..Len(history)
           S == {s \in Seq(Seq(Chars)) : Len(s) <= max}
           Step(i, s) == AddedAll(s, max, fgets(linenoiseHistorySave[i]))
<1>1. \A i \in 1..Len(history), s \in S : Step(i, s) \in S
  <2> SUFFICES ASSUME NEW i \in 1..Len(history), NEW s \in S PROVE Step(i, s) \in S
    OBVIOUS
  <2>1. linenoiseHistorySave[i] = Append(history[i], Eol) /\ history[i] \in Seq(Chars)
    BY DEF linenoiseHistorySave
  <2>2. fgets(linenoiseHistorySave[i]) \in Seq(Seq(Chars))
    BY <2>1, FgetsIs
  <2>3. s \in Seq(Seq(Chars)) /\ Len(s) <= max
    OBVIOUS
  <2> QED
    BY <2>2, <2>3, AddedAllIs
<1>2. PICK F : F = [p \in Nat \X S |-> IF p[1] \in 1..Len(history) THEN Step(p[1], p[2]) ELSE p[2]]
  OBVIOUS
<1>3. /\ F \in [Nat \X S -> S]
      /\ \A i \in 1..Len(history), s \in S : F[<<i, s>>] = Step(i, s)
  <2> HIDE DEF Step, S
  <2> QED
    BY <1>1, <1>2
<1>4. D \in SUBSET Nat /\ \A n \in D : n # 0 => n - 1 \in D
  OBVIOUS
<1>5. <<>> \in S
  OBVIOUS
<1>6. PICK f \in [D -> S] : Recursive(f, D, <<>>, F)
  <2> HIDE DEF D, S
  <2> QED
    BY <1>3, <1>4, <1>5, Recursion
<1> DEFINE Follows(g) == g = [i \in D |-> IF i = 0 THEN <<>> ELSE Step(i, g[i - 1])]
<1>7. Follows(f)
  <2>1. \A n \in D : f[n] = IF n = 0 THEN <<>> ELSE F[<<n, f[n - 1]>>]
    BY <1>6 DEF Recursive
  <2>2. \A n \in D : n # 0 => n - 1 \in D /\ n \in 1..Len(history)
    BY <1>4
  <2> HIDE DEF Step, D, S
  <2>3. \A n \in D : f[n] = IF n = 0 THEN <<>> ELSE Step(n, f[n - 1])
    BY <1>3, <2>1, <2>2
  <2> QED
    BY <2>3
<1>8. PICK load : load = CHOOSE g : Follows(g)
  OBVIOUS
<1>9. Loaded(max) = load[Len(history)]
  BY <1>8 DEF Loaded
<1>10. Follows(load)
  <2> HIDE DEF Follows
  <2> QED
    BY <1>7, <1>8
<1> HIDE DEF Step
<1>11. \A i \in D : load[i] = IF i = 0 THEN <<>> ELSE Step(i, load[i - 1])
  BY <1>10
<1>12. \A i \in D : load[i] \in S
  <2> DEFINE A == {i \in D : load[i] \in S}
  <2>1. \A n \in D : n = 0 \/ n - 1 \in A => n \in A
    <3> SUFFICES ASSUME NEW n \in D, n = 0 \/ n - 1 \in A PROVE load[n] \in S
      OBVIOUS
    <3>1. n # 0 => n \in 1..Len(history) /\ load[n - 1] \in S
      OBVIOUS
    <3> HIDE DEF D, S
    <3> QED
      BY <1>1, <1>5, <1>11, <3>1
  <2> HIDE DEF A
  <2>2. D \subseteq A
    BY <1>4, <2>1, Induction
  <2> QED
    BY <2>2 DEF A
<1>13. Len(history) \in D /\ 0 \in D
  OBVIOUS
<1>14. \A i \in 1..Len(history) : load[i] = AddedAll(load[i - 1], max, fgets(linenoiseHistorySave[i]))
  BY <1>11 DEF Step
<1>15. LoadedUpTo(max, load)
  BY <1>9, <1>11, <1>13, <1>14 DEF LoadedUpTo
<1> QED
  BY <1>9, <1>12, <1>13, <1>15

(* ---- the invariant --------------------------------------------------------- *)
LineInv ==
  /\ settings \in Settings
  /\ Line(l)
  /\ history \in Seq(Seq(Chars)) /\ history_max_len \in Nat \ {0} /\ Len(history) <= history_max_len
  /\ stdin \in Seq(Seq(Chars))
  /\ phase \in {"idle", "edit", "hidden", "done"}
  /\ phase \in {"edit", "hidden"} => history # <<>> /\ l.history_index \in 0..(Len(history) - 1)

LEMMA FreshIs ==
  Line(Fresh) /\ Fresh.history_index = 0 /\ Fresh.pos = 0 /\ Fresh.len = 0 /\ ~Fresh.in_completion
<1>1. BufLen \in Nat \ {0}
  BY LineEditAssumption
<1>2. [i \in 0..BufLen |-> Nul] \in Buffers
  BY DEF Buffers
<1>3. Fresh.buf = [i \in 0..BufLen |-> Nul] /\ Fresh \in States(Buffers)
  BY <1>2 DEF Fresh, States
<1>4. Ends(Fresh.buf, 0)
  BY <1>1, <1>3 DEF Ends
<1> QED
  BY <1>3, <1>4 DEF Line, Fresh

LEMMA AddedIs ==
  ASSUME LineInv, NEW line \in Seq(Chars)
  PROVE  Added(line) \in Seq(Seq(Chars)) /\ Len(Added(line)) <= history_max_len /\ Added(line) # <<>>
BY HistoryAddIs DEF LineInv, Added

LEMMA FrontIs ==
  ASSUME NEW X, NEW s \in Seq(X)
  PROVE  /\ Front(s) \in Seq(X) /\ Len(Front(s)) <= Len(s)
         /\ s # <<>> => Len(Front(s)) = Len(s) - 1 /\ \A i \in 1..(Len(s) - 1) : Front(s)[i] = s[i]
<1>1. CASE s = <<>>
  <2>1. Front(s) = SubSeq(s, 1, -1)
    BY <1>1 DEF Front
  <2>2. SubSeq(s, 1, -1) = <<>>
    BY <1>1
  <2> QED
    BY <1>1, <2>1, <2>2
<1>2. CASE s # <<>>
  <2>1. Len(s) - 1 \in Nat /\ Len(s) - 1 <= Len(s)
    BY <1>2
  <2>2. Front(s) = [i \in 1..(Len(s) - 1) |-> s[i]]
    BY <2>1 DEF Front
  <2>3. \A i \in 1..(Len(s) - 1) : s[i] \in X
    BY <2>1
  <2>4. Front(s) \in Seq(X) /\ Len(Front(s)) = Len(s) - 1
    BY <2>1, <2>2, <2>3
  <2> QED
    BY <1>2, <2>1, <2>2, <2>4
<1> QED
  BY <1>1, <1>2

LEMMA HereCompleted ==
  ASSUME LineInv, CompletionsFit
  PROVE  /\ Line(Completed(Here).l)
         /\ SameLine(Completed(Here).l, IF l.in_completion THEN Chosen(l) ELSE l)
         /\ Completed(Here).l.history_index = l.history_index
         /\ ~Completed(Here).l.in_completion
<1>1. PICK x : x = Here
  OBVIOUS
<1>2. x = [l |-> x.l, t |-> x.t] /\ x.l = l /\ x.t = term
  BY <1>1 DEF Here
<1>3. Line(x.l) /\ settings \in Settings
  BY <1>2 DEF LineInv
<1>4. /\ Line(Completed(x).l)
      /\ SameLine(Completed(x).l, IF x.l.in_completion THEN Chosen(x.l) ELSE x.l)
  BY <1>2, <1>3, CompletedIs
<1>5. Chosen(l).history_index = l.history_index /\ ~Chosen(l).in_completion
  BY <1>2, <1>3, ChosenLine
<1> QED
  BY <1>1, <1>2, <1>4, <1>5 DEF SameLine

Redrawn(x, d) == refreshLine([x EXCEPT !.l = d])

LEMMA RedrawnIs ==
  ASSUME settings \in Settings, NEW x, x = [l |-> x.l, t |-> x.t], NEW d, Line(d)
  PROVE  Line(Redrawn(x, d).l) /\ SameLine(Redrawn(x, d).l, d)
<1>1. PICK y : y = [x EXCEPT !.l = d]
  OBVIOUS
<1>2. y.l = d
  BY <1>1
<1> QED
  BY <1>1, <1>2, RefreshLineKeeps DEF Redrawn

(* What completion gives is an edit.                                       *)
LEMMA CompletedShape ==
  ASSUME LineInv
  PROVE  Completed(Here) = [l |-> Completed(Here).l, t |-> Completed(Here).t]
<1>1. \A y : refreshLine(y) = [l |-> refreshLine(y).l, t |-> refreshLine(y).t]
  BY DEF refreshLine, refreshLineWithFlags
<1>2. CASE ~l.in_completion
  BY <1>2 DEF Here, Completed
<1>3. CASE l.in_completion
  <2>1. \E y : Completed(Here) = refreshLine(y)
    BY <1>3 DEF Here, Completed
  <2> QED
    BY <1>1, <2>1
<1> QED
  BY <1>2, <1>3

(* A step that edits the line and leaves the history as it is.             *)
LEMMA EditKeeps ==
  ASSUME LineInv, Line(l'), l'.history_index = l.history_index, phase = "edit",
         UNCHANGED <<history, history_max_len, settings, stdin, phase>>
  PROVE  LineInv'
<1> DEFINE P == l.history_index \in 0..(Len(history) - 1)
<1>1. P /\ history # <<>>
  BY DEF LineInv
<1>2. Line(l)' /\ P' /\ (history # <<>>)'
  BY <1>1
<1> QED
  BY <1>2 DEF LineInv

(* A key makes the line d of the one there is, and draws it.               *)
Now == Completed(Here).l
Pressed(moved, d) ==
  /\ phase = "edit" /\ UNCHANGED <<history, history_max_len, settings, stdin, phase>>
  /\ l' = IF moved THEN Redrawn(Completed(Here), d).l ELSE Completed(Here).l
  /\ term' = IF moved THEN Redrawn(Completed(Here), d).t ELSE Completed(Here).t

LEMMA KeysAre ==
  /\ linenoiseEditMoveLeft => Pressed(Now.pos > 0, MovedLeft(Now))
  /\ linenoiseEditMoveRight => Pressed(Now.pos # Now.len, MovedRight(Now))
  /\ linenoiseEditMoveHome => Pressed(Now.pos # 0, MovedHome(Now))
  /\ linenoiseEditMoveEnd => Pressed(Now.pos # Now.len, MovedEnd(Now))
  /\ linenoiseEditDelete => Pressed(Now.pos < Now.len, Deleted(Now))
  /\ linenoiseEditBackspace => Pressed(Now.pos > 0, Backspaced(Now))
  /\ linenoiseEditDeletePrevWord => Pressed(TRUE, DeletedWord(Now))
  /\ Transpose => Pressed(Now.pos > 0 /\ Now.pos < Now.len, Transposed(Now))
  /\ DeleteLine => Pressed(TRUE, LineDeleted(Now))
  /\ DeleteToEnd => Pressed(TRUE, EndDeleted(Now))
<1>1. PICK x : x = Completed(Here)
  OBVIOUS
<1>2. linenoiseEditMoveLeft => Pressed(Now.pos > 0, MovedLeft(Now))
  BY <1>1 DEF linenoiseEditMoveLeft, Key, MovedLeft, Now, Pressed, Redrawn
<1>3. linenoiseEditMoveRight => Pressed(Now.pos # Now.len, MovedRight(Now))
  BY <1>1 DEF linenoiseEditMoveRight, Key, MovedRight, Now, Pressed, Redrawn
<1>4. linenoiseEditMoveHome => Pressed(Now.pos # 0, MovedHome(Now))
  BY <1>1 DEF linenoiseEditMoveHome, Key, MovedHome, Now, Pressed, Redrawn
<1>5. linenoiseEditMoveEnd => Pressed(Now.pos # Now.len, MovedEnd(Now))
  BY <1>1 DEF linenoiseEditMoveEnd, Key, MovedEnd, Now, Pressed, Redrawn
<1>6. linenoiseEditDelete => Pressed(Now.pos < Now.len, Deleted(Now))
  BY <1>1 DEF linenoiseEditDelete, Key, Deleted, Now, Pressed, Redrawn
<1>7. linenoiseEditBackspace => Pressed(Now.pos > 0, Backspaced(Now))
  BY <1>1 DEF linenoiseEditBackspace, Key, Backspaced, Now, Pressed, Redrawn
<1>8. linenoiseEditDeletePrevWord => Pressed(TRUE, DeletedWord(Now))
  BY <1>1 DEF linenoiseEditDeletePrevWord, Key, Now, Pressed, Redrawn
<1>9. Transpose => Pressed(Now.pos > 0 /\ Now.pos < Now.len, Transposed(Now))
  BY <1>1 DEF Transpose, Key, Transposed, Now, Pressed, Redrawn
<1>10. DeleteLine => Pressed(TRUE, LineDeleted(Now))
  BY <1>1 DEF DeleteLine, Key, LineDeleted, Now, Pressed, Redrawn
<1>11. DeleteToEnd => Pressed(TRUE, EndDeleted(Now))
  BY <1>1 DEF DeleteToEnd, Key, EndDeleted, Now, Pressed, Redrawn
<1> QED
  BY <1>2, <1>3, <1>4, <1>5, <1>6, <1>7, <1>8, <1>9, <1>10, <1>11

LEMMA NowIs ==
  ASSUME LineInv, CompletionsFit
  PROVE  Line(Now) /\ Now.history_index = l.history_index /\ ~Now.in_completion
BY HereCompleted DEF Now

(* All of them make a line of the line.                                    *)
IsKey(moved, d) == Pressed(moved, d) /\ (moved => \E p, n : Becomes(Now, d, p, n))

LEMMA KeysMakeLines ==
  ASSUME LineInv, CompletionsFit,
         \/ linenoiseEditMoveLeft \/ linenoiseEditMoveRight \/ linenoiseEditMoveHome \/ linenoiseEditMoveEnd
         \/ linenoiseEditDelete \/ linenoiseEditBackspace \/ linenoiseEditDeletePrevWord
         \/ Transpose \/ DeleteLine \/ DeleteToEnd
  PROVE  \E moved, d : IsKey(moved, d)
<1>1. Line(Now)
  BY NowIs
<1>2. CASE linenoiseEditMoveLeft
  <2>1. IsKey(Now.pos > 0, MovedLeft(Now))
    BY <1>1, <1>2, KeysAre, MovesKeep DEF IsKey
  <2> QED
    BY <2>1
<1>3. CASE linenoiseEditMoveRight
  <2>1. IsKey(Now.pos # Now.len, MovedRight(Now))
    BY <1>1, <1>3, KeysAre, MovesKeep DEF IsKey
  <2> QED
    BY <2>1
<1>4. CASE linenoiseEditMoveHome
  <2>1. IsKey(Now.pos # 0, MovedHome(Now))
    BY <1>1, <1>4, KeysAre, MovesKeep DEF IsKey
  <2> QED
    BY <2>1
<1>5. CASE linenoiseEditMoveEnd
  <2>1. IsKey(Now.pos # Now.len, MovedEnd(Now))
    BY <1>1, <1>5, KeysAre, MovesKeep DEF IsKey
  <2> QED
    BY <2>1
<1>6. CASE linenoiseEditDelete
  <2>1. IsKey(Now.pos < Now.len, Deleted(Now))
    BY <1>1, <1>6, KeysAre, DeletedIs DEF IsKey
  <2> QED
    BY <2>1
<1>7. CASE linenoiseEditBackspace
  <2>1. IsKey(Now.pos > 0, Backspaced(Now))
    BY <1>1, <1>7, KeysAre, BackspacedIs DEF IsKey
  <2> QED
    BY <2>1
<1>8. CASE linenoiseEditDeletePrevWord
  <2>1. IsKey(TRUE, DeletedWord(Now))
    BY <1>1, <1>8, KeysAre, DeletedWordIs DEF IsKey
  <2> QED
    BY <2>1
<1>9. CASE Transpose
  <2>1. IsKey(Now.pos > 0 /\ Now.pos < Now.len, Transposed(Now))
    BY <1>1, <1>9, KeysAre, TransposedIs DEF IsKey
  <2> QED
    BY <2>1
<1>10. CASE DeleteLine
  <2>1. IsKey(TRUE, LineDeleted(Now))
    BY <1>1, <1>10, KeysAre, LineDeletedIs DEF IsKey
  <2> QED
    BY <2>1
<1>11. CASE DeleteToEnd
  <2>1. IsKey(TRUE, EndDeleted(Now))
    BY <1>1, <1>11, KeysAre, EndDeletedIs DEF IsKey
  <2> QED
    BY <2>1
<1> QED
  BY <1>2, <1>3, <1>4, <1>5, <1>6, <1>7, <1>8, <1>9, <1>10, <1>11

LEMMA KeyKeeps ==
  ASSUME LineInv, CompletionsFit, NEW moved, NEW d, IsKey(moved, d)
  PROVE  LineInv' /\ (moved => SameLine(l', d))
<1>1. PICK x : x = Completed(Here)
  OBVIOUS
<1>2. Line(x.l) /\ x.l.history_index = l.history_index /\ x = [l |-> x.l, t |-> x.t] /\ settings \in Settings
  BY <1>1, HereCompleted, CompletedShape DEF LineInv
<1>3. l' = IF moved THEN Redrawn(x, d).l ELSE x.l
  BY <1>1 DEF IsKey, Pressed
<1>4. moved => Line(d) /\ d.history_index = l.history_index
  BY <1>1, <1>2 DEF IsKey, Becomes, Now
<1>5. moved => Line(Redrawn(x, d).l) /\ SameLine(Redrawn(x, d).l, d)
  BY <1>2, <1>4, RedrawnIs
<1>6. Line(l') /\ l'.history_index = l.history_index
  BY <1>2, <1>3, <1>4, <1>5 DEF SameLine
<1>7. LineInv'
  BY <1>6, EditKeeps DEF IsKey, Pressed
<1> QED
  BY <1>3, <1>5, <1>7

LEMMA InsertKeeps ==
  ASSUME LineInv, CompletionsFit, NEW c \in settings.typed, linenoiseEditInsert(c)
  PROVE  /\ LineInv'
         /\ SameLine(l', IF Now.len < BufLen THEN Inserted(Now, c) ELSE Now)
<1>1. PICK x : x = Completed(Here)
  OBVIOUS
<1>2. Line(x.l) /\ x.l.history_index = l.history_index /\ x = [l |-> x.l, t |-> x.t] /\ settings \in Settings
  BY <1>1, HereCompleted, CompletedShape DEF LineInv
<1>3. phase = "edit" /\ UNCHANGED <<history, history_max_len, settings, stdin, phase>>
  BY DEF linenoiseEditInsert
<1>4. l' = IF x.l.len < BufLen THEN InsertDrawn(x, c).l ELSE x.l
  BY <1>1 DEF linenoiseEditInsert
<1>5. c \in Chars
  BY <1>2, SettingsNumbers
<1>6. PICK d : d = Inserted(x.l, c)
  OBVIOUS
<1>7. x.l.len < BufLen => Line(d) /\ d.history_index = l.history_index
  BY <1>2, <1>5, <1>6, InsertedIs DEF Becomes
<1>8. InsertDrawn(x, c).l = d \/ InsertDrawn(x, c) = Redrawn(x, d)
  BY <1>6 DEF InsertDrawn, Redrawn
<1>9. SameLine(d, d) /\ SameLine(x.l, x.l)
  BY DEF SameLine
<1>10. x.l.len < BufLen => Line(l') /\ SameLine(l', d)
  BY <1>2, <1>4, <1>7, <1>8, <1>9, RedrawnIs
<1>11. x.l.len >= BufLen => Line(l') /\ SameLine(l', x.l)
  BY <1>2, <1>4, <1>9, LineNumbers
<1>12. x.l.len \in Nat /\ BufLen \in Nat
  BY <1>2, LineNumbers
<1>13. Line(l') /\ l'.history_index = l.history_index
  BY <1>2, <1>7, <1>10, <1>11, <1>12 DEF SameLine
<1>14. LineInv'
  BY <1>3, <1>13, EditKeeps
<1> QED
  BY <1>1, <1>6, <1>10, <1>11, <1>12, <1>14 DEF Now

(* Completion shows a candidate, and keeps the line.                       *)
LEMMA ShowKeeps ==
  ASSUME settings \in Settings, CompletionsFit, NEW x, x = [l |-> x.l, t |-> x.t], Line(x.l), NEW clean
  PROVE  /\ Line(refreshLineWithCompletion(x, clean, TRUE).l)
         /\ SameLine(refreshLineWithCompletion(x, clean, TRUE).l, x.l)
<1>1. CASE ~Shows(x.l)
  <2>1. refreshLineWithCompletion(x, clean, TRUE) = refreshLineWithFlags(x, clean, TRUE, settings.hints)
    BY <1>1 DEF refreshLineWithCompletion
  <2>2. /\ refreshLineWithFlags(x, clean, TRUE, settings.hints).l \in States(Buffers)
        /\ SameLine(refreshLineWithFlags(x, clean, TRUE, settings.hints).l, x.l)
    BY RefreshKeeps DEF Line
  <2> QED
    BY <2>1, <2>2 DEF Line, SameLine
<1>2. CASE Shows(x.l)
  <2>1. PICK c \in Seq(Chars) : c = Candidate(x.l)
    BY <1>2, CandidateIs
  <2>2. PICK b : b = [i \in 0..Len(c) |-> IF i < Len(c) THEN c[i + 1] ELSE Nul]
    OBVIOUS
  <2>3. PICK shown : shown = [x.l EXCEPT !.len = Len(c), !.pos = Len(c), !.buf = b]
    OBVIOUS
  <2>4. x.l \in States(Buffers)
    BY DEF Line
  <2>5. shown = [buf |-> b, pos |-> Len(c), len |-> Len(c), oldpos |-> x.l.oldpos,
          oldrows |-> x.l.oldrows, history_index |-> x.l.history_index,
          in_completion |-> x.l.in_completion, completion_idx |-> x.l.completion_idx]
    BY <2>3, <2>4 DEF States
  <2>6. Len(c) \in Nat /\ shown \in States({b})
    BY <2>4, <2>5 DEF States
  <2>7. PICK y : y = [x EXCEPT !.l = shown]
    OBVIOUS
  <2>8. PICK new : new = refreshLineWithFlags(y, clean, TRUE, settings.hints)
    OBVIOUS
  <2>9. y.l = shown
    BY <2>7
  <2>10. new.l \in States({b}) /\ SameLine(new.l, shown)
    BY <2>6, <2>8, <2>9, RefreshKeeps
  <2>11. new = [l |-> new.l, t |-> new.t]
    BY <2>8 DEF refreshLineWithFlags
  <2>12. refreshLineWithCompletion(x, clean, TRUE) =
           [new EXCEPT !.l.len = x.l.len, !.l.pos = x.l.pos, !.l.buf = x.l.buf]
    BY <1>2, <2>1, <2>2, <2>3, <2>7, <2>8 DEF refreshLineWithCompletion
  <2>13. PICK d : d = [new.l EXCEPT !.len = x.l.len, !.pos = x.l.pos, !.buf = x.l.buf]
    OBVIOUS
  <2>14. refreshLineWithCompletion(x, clean, TRUE).l = d
    <3>1. PICK n1 : n1 = [new EXCEPT !.l.len = x.l.len]
      OBVIOUS
    <3>2. PICK d1 : d1 = [new.l EXCEPT !.len = x.l.len]
      OBVIOUS
    <3>3. n1 = [l |-> d1, t |-> new.t]
      BY <2>11, <3>1, <3>2
    <3>4. PICK n2 : n2 = [n1 EXCEPT !.l.pos = x.l.pos]
      OBVIOUS
    <3>5. PICK d2 : d2 = [d1 EXCEPT !.pos = x.l.pos]
      OBVIOUS
    <3>6. n2 = [l |-> d2, t |-> new.t]
      BY <3>3, <3>4, <3>5
    <3>7. [n2 EXCEPT !.l.buf = x.l.buf].l = [d2 EXCEPT !.buf = x.l.buf]
      BY <3>6
    <3> QED
      BY <2>12, <2>13, <3>1, <3>2, <3>4, <3>5, <3>7
  <2>15. d = With(new.l, x.l.buf, x.l.pos, x.l.len)
    BY <2>10, <2>13 DEF With, States
  <2>16. d \in States(Buffers)
    BY <2>4, <2>10, <2>15 DEF With, States
  <2>17. SameLine(d, x.l)
    BY <2>5, <2>10, <2>15 DEF With, SameLine
  <2>18. Line(d)
    BY <2>16, <2>17 DEF Line, SameLine
  <2> QED
    BY <2>14, <2>17, <2>18
<1> QED
  BY <1>1, <1>2

LEMMA TabKeeps ==
  ASSUME LineInv, CompletionsFit, CompletionKey(CompleteTab)
  PROVE  /\ LineInv'
         /\ l'.buf = l.buf /\ l'.pos = l.pos /\ l'.len = l.len /\ l'.history_index = l.history_index
         /\ l'.in_completion
         /\ l'.completion_idx = IF l.in_completion THEN (l.completion_idx + 1) % (Len(Completions(CString(l))) + 1)
                                ELSE 0
<1>1. settings \in Settings /\ Line(l) /\ l \in States(Buffers)
  BY DEF LineInv, Line
<1>2. phase = "edit" /\ UNCHANGED <<history, history_max_len, settings, stdin, phase>>
  BY DEF CompletionKey
<1>3. PICK n \in Nat : n = Len(Completions(CString(l)))
  <2>1. CString(l) \in Seq(Chars)
    BY <1>1, TextIs
  <2>2. Completions(CString(l)) \in Seq(Seq(Chars))
    BY <2>1 DEF CompletionsFit
  <2> QED
    BY <2>2
<1>4. PICK next : next = IF l.in_completion THEN [l EXCEPT !.completion_idx = (@ + 1) % (n + 1)]
                                           ELSE [l EXCEPT !.in_completion = TRUE, !.completion_idx = 0]
  OBVIOUS
<1>5. PICK k \in Nat : k = IF l.in_completion THEN (l.completion_idx + 1) % (n + 1) ELSE 0
  <2>1. l.completion_idx + 1 \in Nat /\ n + 1 \in Nat /\ n + 1 > 0
    BY <1>1 DEF States
  <2>2. (l.completion_idx + 1) % (n + 1) \in 0..((n + 1) - 1)
    BY <2>1, Division
  <2> QED
    BY <2>2
<1>6. next = [buf |-> l.buf, pos |-> l.pos, len |-> l.len, oldpos |-> l.oldpos, oldrows |-> l.oldrows,
              history_index |-> l.history_index, in_completion |-> TRUE, completion_idx |-> k]
  <2>1. CASE l.in_completion
    <3>1. next = [l EXCEPT !.completion_idx = k]
      BY <1>4, <1>5, <2>1
    <3> QED
      BY <1>1, <2>1, <3>1 DEF States
  <2>2. CASE ~l.in_completion
    <3>1. next = [l EXCEPT !.in_completion = TRUE, !.completion_idx = k]
      BY <1>4, <1>5, <2>2
    <3> QED
      BY <1>1, <2>2, <3>1 DEF States
  <2> QED
    BY <2>1, <2>2
<1>7. Line(next)
  BY <1>1, <1>6 DEF Line, States
<1>8. PICK x : x = [Here EXCEPT !.l = next]
  OBVIOUS
<1>9. x = [l |-> next, t |-> term]
  BY <1>8 DEF Here
<1>10. l' = refreshLineWithCompletion(x, TRUE, TRUE).l
  BY <1>3, <1>4, <1>8 DEF CompletionKey, CompleteTab, Here
<1>11. Line(l') /\ SameLine(l', next)
  <2>1. x.l = next /\ x = [l |-> x.l, t |-> x.t]
    BY <1>9
  <2> QED
    BY <1>1, <1>7, <1>10, <2>1, ShowKeeps
<1>12. /\ l'.buf = l.buf /\ l'.pos = l.pos /\ l'.len = l.len /\ l'.history_index = l.history_index
       /\ l'.in_completion /\ l'.completion_idx = k
  BY <1>6, <1>11 DEF SameLine
<1> QED
  BY <1>2, <1>3, <1>5, <1>11, <1>12, EditKeeps

LEMMA EscapeKeeps ==
  ASSUME LineInv, CompletionsFit, CompletionKey(CompleteEscape)
  PROVE  /\ LineInv'
         /\ l'.buf = l.buf /\ l'.pos = l.pos /\ l'.len = l.len /\ l'.history_index = l.history_index
         /\ ~l'.in_completion
<1>1. settings \in Settings /\ Line(l) /\ l \in States(Buffers)
  BY DEF LineInv, Line
<1>2. phase = "edit" /\ UNCHANGED <<history, history_max_len, settings, stdin, phase>>
  BY DEF CompletionKey
<1>3. PICK x : x = IF Shows(l) THEN refreshLine(Here) ELSE Here
  OBVIOUS
<1>4. x = [l |-> x.l, t |-> x.t] /\ Line(x.l) /\ SameLine(x.l, l)
  <2>1. Here = [l |-> l, t |-> term] /\ SameLine(l, l)
    BY DEF Here, SameLine
  <2>2. PICK y : y = Here
    OBVIOUS
  <2>3. y.l = l
    BY <2>1, <2>2
  <2>4. Line(refreshLine(y).l) /\ SameLine(refreshLine(y).l, y.l)
    BY <1>1, <2>3, RefreshLineKeeps
  <2>5. refreshLine(y) = [l |-> refreshLine(y).l, t |-> refreshLine(y).t]
    BY DEF refreshLine, refreshLineWithFlags
  <2> QED
    BY <1>1, <1>3, <2>1, <2>2, <2>3, <2>4, <2>5
<1>5. PICK d : d = [x.l EXCEPT !.in_completion = FALSE]
  OBVIOUS
<1>6. d = [buf |-> x.l.buf, pos |-> x.l.pos, len |-> x.l.len, oldpos |-> x.l.oldpos,
           oldrows |-> x.l.oldrows, history_index |-> x.l.history_index, in_completion |-> FALSE,
           completion_idx |-> x.l.completion_idx]
  BY <1>4, <1>5 DEF Line, States
<1>7. Line(d)
  BY <1>4, <1>6 DEF Line, States
<1>8. l' = Redrawn(x, d).l
  <2>1. [IF Shows(l) THEN refreshLine(Here) ELSE Here EXCEPT !.l.in_completion = FALSE] = [x EXCEPT !.l = d]
    BY <1>3, <1>4, <1>5
  <2>2. CompleteEscape(Here) = refreshLine([IF Shows(l) THEN refreshLine(Here) ELSE Here EXCEPT !.l.in_completion = FALSE])
    BY DEF CompleteEscape, Here
  <2>3. l' = CompleteEscape(Here).l
    BY DEF CompletionKey
  <2> QED
    BY <2>1, <2>2, <2>3 DEF Redrawn
<1>9. Line(l') /\ SameLine(l', d)
  BY <1>1, <1>4, <1>7, <1>8, RedrawnIs
<1>10. /\ l'.buf = l.buf /\ l'.pos = l.pos /\ l'.len = l.len /\ l'.history_index = l.history_index
       /\ ~l'.in_completion
  BY <1>4, <1>6, <1>9 DEF SameLine
<1> QED
  BY <1>2, <1>9, <1>10, EditKeeps

LEMMA CompletionKeeps ==
  ASSUME LineInv, CompletionsFit, CompletionKey(CompleteTab) \/ CompletionKey(CompleteEscape)
  PROVE  /\ LineInv'
         /\ l'.buf = l.buf /\ l'.pos = l.pos /\ l'.len = l.len /\ l'.history_index = l.history_index
BY TabKeeps, EscapeKeeps

LEMMA ClearKeeps ==
  ASSUME LineInv, CompletionsFit, ClearScreen
  PROVE  LineInv' /\ SameLine(l', Now)
<1>1. PICK x : x = Completed(Here)
  OBVIOUS
<1>2. Line(x.l) /\ x.l.history_index = l.history_index /\ x = [l |-> x.l, t |-> x.t] /\ settings \in Settings
  BY <1>1, HereCompleted, CompletedShape DEF LineInv
<1>3. phase = "edit" /\ UNCHANGED <<history, history_max_len, settings, stdin, phase>>
  BY DEF ClearScreen
<1>4. PICK y : y = [x EXCEPT !.t = linenoiseClearScreen(@)]
  OBVIOUS
<1>5. y.l = x.l /\ l' = refreshLine(y).l
  BY <1>1, <1>2, <1>4 DEF ClearScreen
<1>6. Line(l') /\ SameLine(l', x.l)
  BY <1>2, <1>5, RefreshLineKeeps
<1>7. l'.history_index = l.history_index
  BY <1>2, <1>6 DEF SameLine
<1> QED
  BY <1>1, <1>3, <1>6, <1>7, EditKeeps DEF Now

(* The line goes to its place in the history, and another one comes.       *)
Stored == [history EXCEPT ![Place(Now)] = CString(Now)]

LEMMA ReplacedIs ==
  ASSUME NEW X, NEW s \in Seq(X), NEW k, NEW v \in X
  PROVE  [s EXCEPT ![k] = v] \in Seq(X) /\ Len([s EXCEPT ![k] = v]) = Len(s)
<1>1. PICK n \in Nat : n = Len(s) /\ DOMAIN s = 1..n
  OBVIOUS
<1>2. PICK r : r = [s EXCEPT ![k] = v]
  OBVIOUS
<1>3. r = [i \in 1..n |-> IF i = k THEN v ELSE s[i]]
  BY <1>1, <1>2
<1>4. \A i \in 1..n : r[i] \in X
  BY <1>1, <1>3
<1>5. r \in Seq(X) /\ Len(r) = n
  BY <1>3, <1>4
<1> QED
  BY <1>1, <1>2, <1>5

LEMMA StoredIs ==
  ASSUME LineInv, CompletionsFit
  PROVE  Stored \in Seq(Seq(Chars)) /\ Len(Stored) = Len(history) /\ CString(Now) \in Seq(Chars)
<1>1. CString(Now) \in Seq(Chars)
  BY NowIs, TextIs
<1>2. history \in Seq(Seq(Chars))
  BY DEF LineInv
<1> QED
  BY <1>1, <1>2, ReplacedIs DEF Stored

Recalls(step) ==
  Recalled([Now EXCEPT !.history_index = Now.history_index + step], Stored[Len(Stored) - (Now.history_index + step)])

LEMMA RecallKeeps ==
  ASSUME LineInv, CompletionsFit, NEW step \in {1, -1}, linenoiseEditHistoryNext(step)
  PROVE  /\ LineInv'
         /\ phase = "edit" /\ UNCHANGED <<history_max_len, settings, stdin, phase>>
         /\ Len(history) <= 1 => SameLine(l', Now) /\ UNCHANGED history
         /\ Len(history) > 1 => history' = Stored
         /\ Len(history) > 1 /\ Now.history_index + step \notin 0..(Len(Stored) - 1) => SameLine(l', Now)
         /\ Len(history) > 1 /\ Now.history_index + step \in 0..(Len(Stored) - 1) =>
              SameLine(l', Recalls(step)) /\ l'.history_index = Now.history_index + step
<1>1. PICK x : x = Completed(Here)
  OBVIOUS
<1>2. Line(x.l) /\ x.l.history_index = l.history_index /\ x = [l |-> x.l, t |-> x.t] /\ settings \in Settings
  BY <1>1, HereCompleted, CompletedShape DEF LineInv
<1>3. phase = "edit" /\ UNCHANGED <<history_max_len, settings, stdin, phase>>
  BY DEF linenoiseEditHistoryNext
<1>4. x.l = Now /\ SameLine(x.l, Now)
  BY <1>1 DEF Now, SameLine
<1>5. history \in Seq(Seq(Chars)) /\ Len(history) \in Nat /\ history # <<>>
      /\ l.history_index \in 0..(Len(history) - 1) /\ Len(history) <= history_max_len
  BY <1>3 DEF LineInv
<1>6. CASE Len(history) <= 1
  <2>1. l' = x.l /\ UNCHANGED history
    BY <1>1, <1>6 DEF linenoiseEditHistoryNext
  <2>2. LineInv'
    BY <1>2, <1>3, <2>1, EditKeeps
  <2> QED
    BY <1>3, <1>4, <1>5, <1>6, <2>1, <2>2
<1>7. CASE Len(history) > 1
  <2>1. PICK index \in Int : index = x.l.history_index + step
    BY <1>2, <1>5
  <2>2. Stored \in Seq(Seq(Chars)) /\ Len(Stored) = Len(history)
    BY StoredIs
  <2>3. PICK h : h = Stored
    OBVIOUS
  <2>4. [history EXCEPT ![Place(x.l)] = CString(x.l)] = h
    BY <1>4, <2>3 DEF Stored
  <2>5. /\ history' = h
        /\ l' = (IF index \notin 0..(Len(h) - 1) THEN x
                 ELSE refreshLine([x EXCEPT !.l = Recalled([x.l EXCEPT !.history_index = index], h[Len(h) - index])])).l
    <3>1. PICK g \in {[history EXCEPT ![Place(x.l)] = CString(x.l)]} :
            /\ history' = g
            /\ l' = (IF x.l.history_index + step \notin 0..(Len(g) - 1) THEN x
                     ELSE refreshLine([x EXCEPT !.l = Recalled([x.l EXCEPT !.history_index = x.l.history_index + step],
                                                               g[Len(g) - (x.l.history_index + step)])])).l
      BY <1>1, <1>5, <1>7 DEF linenoiseEditHistoryNext
    <3>2. g = h
      BY <2>4
    <3> QED
      BY <2>1, <3>1, <3>2
  <2>6. CASE index \notin 0..(Len(h) - 1)
    <3>1. l' = x.l
      BY <2>5, <2>6
    <3>2. LineInv'
      <4>0. Len(history') = Len(history) /\ l'.history_index = l.history_index
        BY <1>2, <2>2, <2>3, <2>5, <3>1
      <4>1. Line(l') /\ l'.history_index \in 0..(Len(history') - 1) /\ history' # <<>>
        BY <1>2, <1>5, <1>7, <3>1, <4>0
      <4>2. history' \in Seq(Seq(Chars)) /\ Len(history') <= history_max_len'
        BY <1>3, <1>5, <2>2, <2>3, <2>5
      <4> QED
        BY <1>3, <4>1, <4>2 DEF LineInv
    <3> QED
      BY <1>3, <1>4, <1>7, <2>1, <2>3, <2>5, <2>6, <3>1, <3>2
  <2>7. CASE index \in 0..(Len(h) - 1)
    <3>1. Len(h) - index \in 1..Len(h)
      BY <2>2, <2>3, <2>7
    <3>2. PICK line \in Seq(Chars) : line = h[Len(h) - index]
      BY <2>2, <2>3, <3>1
    <3>3. PICK e : e = [x.l EXCEPT !.history_index = index]
      OBVIOUS
    <3>4. e = [buf |-> x.l.buf, pos |-> x.l.pos, len |-> x.l.len, oldpos |-> x.l.oldpos,
               oldrows |-> x.l.oldrows, history_index |-> index, in_completion |-> x.l.in_completion,
               completion_idx |-> x.l.completion_idx]
      BY <1>2, <3>3 DEF Line, States
    <3>5. Line(e) /\ e.history_index = index
      BY <1>2, <3>4 DEF Line, States
    <3>6. PICK d : d = Recalled(e, line)
      OBVIOUS
    <3>7. Line(d) /\ d.history_index = index
      BY <3>5, <3>6, RecalledIs DEF Becomes
    <3>8. l' = Redrawn(x, d).l
      BY <2>5, <2>7, <3>2, <3>3, <3>6 DEF Redrawn
    <3>9. Line(l') /\ SameLine(l', d)
      BY <1>2, <3>7, <3>8, RedrawnIs
    <3>10. l'.history_index = index
      BY <3>7, <3>9 DEF SameLine
    <3>11. d = Recalls(step)
      BY <1>4, <2>1, <2>3, <3>2, <3>3, <3>6 DEF Recalls
    <3>12. LineInv'
      <4>1. l'.history_index \in 0..(Len(history') - 1) /\ history' # <<>>
        BY <1>5, <2>2, <2>3, <2>5, <2>7, <3>10, SMTT(30)
      <4>2. history' \in Seq(Seq(Chars)) /\ Len(history') <= history_max_len'
        BY <1>3, <1>5, <2>2, <2>3, <2>5
      <4> QED
        BY <1>3, <3>9, <4>1, <4>2 DEF LineInv
    <3> QED
      BY <1>3, <1>4, <1>7, <2>1, <2>3, <2>5, <2>7, <3>9, <3>10, <3>11, <3>12
  <2> QED
    BY <2>6, <2>7
<1> QED
  BY <1>5, <1>6, <1>7

(* ---- the steps of a call ---------------------------------------------------- *)
LEMMA StartKeeps ==
  ASSUME LineInv, linenoiseEditStart
  PROVE  LineInv'
<1>1. /\ phase' = "edit" /\ l' = Fresh /\ history' = Added(<<>>)
      /\ UNCHANGED <<history_max_len, settings, stdin>>
  BY DEF linenoiseEditStart
<1>2. history' \in Seq(Seq(Chars)) /\ Len(history') <= history_max_len /\ history' # <<>>
  <2>0. <<>> \in Seq(Chars)
    OBVIOUS
  <2>1. PICK line \in Seq(Chars) : line = <<>>
    BY <2>0
  <2> QED
    BY <1>1, <2>1, AddedIs
<1>3. Line(l') /\ l'.history_index = 0
  BY <1>1, FreshIs
<1>4. l'.history_index \in 0..(Len(history') - 1)
  BY <1>2, <1>3
<1> QED
  BY <1>1, <1>2, <1>3, <1>4 DEF LineInv

LEMMA EnterKeeps ==
  ASSUME LineInv, CompletionsFit, Enter
  PROVE  /\ LineInv'
         /\ l'.buf = Now.buf /\ l'.len = Now.len /\ ~l'.in_completion
<1>1. PICK x : x = Completed(Here)
  OBVIOUS
<1>2. Line(x.l) /\ ~x.l.in_completion /\ x.l.history_index = l.history_index /\ x = [l |-> x.l, t |-> x.t] /\ settings \in Settings
  BY <1>1, HereCompleted, CompletedShape DEF LineInv
<1>3. /\ phase = "edit" /\ phase' = "done" /\ history' = Front(history)
      /\ UNCHANGED <<history_max_len, settings, stdin>>
  BY DEF Enter
<1>4. PICK y : y = IF settings.ml /\ x.l.pos # x.l.len THEN refreshLine([x EXCEPT !.l.pos = x.l.len]) ELSE x
  OBVIOUS
<1>5. Line(y.l) /\ y.l.buf = x.l.buf /\ y.l.len = x.l.len /\ ~y.l.in_completion
  <2>1. CASE settings.ml /\ x.l.pos # x.l.len
    <3>1. PICK d : d = MovedEnd(x.l)
      OBVIOUS
    <3>2. Line(d) /\ d.buf = x.l.buf /\ d.len = x.l.len /\ ~d.in_completion
      BY <1>2, <3>1, MovesKeep DEF Becomes
    <3>3. [x EXCEPT !.l.pos = x.l.len] = [x EXCEPT !.l = d]
      BY <1>2, <3>1 DEF MovedEnd
    <3>4. y = Redrawn(x, d)
      BY <1>4, <2>1, <3>3 DEF Redrawn
    <3>5. Line(y.l) /\ SameLine(y.l, d)
      BY <1>2, <3>2, <3>4, RedrawnIs
    <3> QED
      BY <3>2, <3>5 DEF SameLine
  <2>2. CASE ~(settings.ml /\ x.l.pos # x.l.len)
    <3>1. y = x
      BY <1>4, <2>2
    <3> QED
      BY <1>2, <3>1
  <2> QED
    BY <2>1, <2>2
<1>6. PICK z : z = IF settings.hints THEN refreshLineWithFlags(y, TRUE, TRUE, FALSE) ELSE y
  OBVIOUS
<1>7. Line(z.l) /\ z.l.buf = y.l.buf /\ z.l.len = y.l.len /\ ~z.l.in_completion
  <2>1. y.l \in States(Buffers)
    BY <1>5 DEF Line
  <2>2. PICK w : w = refreshLineWithFlags(y, TRUE, TRUE, FALSE)
    OBVIOUS
  <2>3. w.l \in States(Buffers) /\ SameLine(w.l, y.l)
    BY <1>2, <2>1, <2>2, RefreshKeeps
  <2>4. Line(w.l) /\ w.l.buf = y.l.buf /\ w.l.len = y.l.len /\ ~w.l.in_completion
    BY <1>5, <2>3 DEF Line, SameLine
  <2> QED
    BY <1>5, <1>6, <2>2, <2>4
<1>8. l' = z.l
  BY <1>1, <1>4, <1>6 DEF Enter
<1>9. history \in Seq(Seq(Chars)) /\ Len(history) <= history_max_len /\ history_max_len \in Nat
  BY DEF LineInv
<1>10. history' \in Seq(Seq(Chars)) /\ Len(history') <= history_max_len'
  <2>1. Front(history) \in Seq(Seq(Chars)) /\ Len(Front(history)) <= Len(history)
    BY <1>9, FrontIs
  <2> QED
    BY <1>3, <1>9, <2>1
<1>11. LineInv'
  BY <1>3, <1>7, <1>8, <1>10 DEF LineInv
<1> QED
  BY <1>1, <1>5, <1>7, <1>8, <1>11 DEF Now

(* Between two calls there is no line.                                     *)
LEMMA IdleKeeps ==
  ASSUME LineInv, phase' = "idle", l' \in {l, Fresh}, settings' = settings, stdin' \in Seq(Seq(Chars)),
         history' \in Seq(Seq(Chars)), history_max_len' \in Nat \ {0}, Len(history') <= history_max_len'
  PROVE  LineInv'
<1>1. Line(l')
  BY FreshIs DEF LineInv
<1> QED
  BY <1>1 DEF LineInv

LEMMA FrontHistory ==
  ASSUME LineInv
  PROVE  Front(history) \in Seq(Seq(Chars)) /\ Len(Front(history)) <= history_max_len
<1>1. history \in Seq(Seq(Chars)) /\ Len(history) \in Nat /\ Len(history) <= history_max_len /\ history_max_len \in Nat
  BY DEF LineInv
<1>2. Front(history) \in Seq(Seq(Chars)) /\ Len(Front(history)) <= Len(history) /\ Len(Front(history)) \in Nat
  BY <1>1, FrontIs
<1> QED
  BY <1>1, <1>2

LEMMA LeavesKeep ==
  ASSUME LineInv, read \/ CtrlC \/ EndOfFile
  PROVE  LineInv'
<1>1. phase' = "idle" /\ l' = Fresh /\ UNCHANGED <<history_max_len, settings, stdin>>
  BY DEF read, CtrlC, EndOfFile, Left
<1>2. history' \in Seq(Seq(Chars)) /\ Len(history') <= history_max_len
  <2>1. CASE read
    <3>1. CString(l) \in Seq(Chars)
      BY TextIs DEF LineInv
    <3> QED
      BY <2>1, <3>1, AddedIs DEF read
  <2>2. CASE CtrlC
    BY <2>2 DEF CtrlC, LineInv
  <2>3. CASE EndOfFile
    BY <2>3, FrontHistory DEF EndOfFile
  <2> QED
    BY <2>1, <2>2, <2>3
<1> QED
  BY <1>1, <1>2, IdleKeeps DEF LineInv

LEMMA MaxIs2 ==
  ASSUME NEW a \in Int, NEW b \in Int
  PROVE  Max({a, b}) = IF a >= b THEN a ELSE b
<1>1. \E m \in {a, b} : \A y \in {a, b} : m >= y
  OBVIOUS
<1>2. Max({a, b}) \in {a, b} /\ \A y \in {a, b} : Max({a, b}) >= y
  BY <1>1 DEF Max
<1> QED
  BY <1>2

LEMMA LengthsKeep ==
  ASSUME LineInv, NEW n \in settings.lens, linenoiseHistorySetMaxLen(n) \/ linenoiseHistoryLoad(n)
  PROVE  LineInv'
<1>1. n \in Nat \ {0} /\ history \in Seq(Seq(Chars)) /\ Len(history) \in Nat
  BY SettingsNumbers DEF LineInv
<1>2. phase' = "idle" /\ history_max_len' = n /\ l' = l /\ UNCHANGED <<settings, stdin>>
  BY DEF linenoiseHistorySetMaxLen, linenoiseHistoryLoad
<1>3. history' \in Seq(Seq(Chars)) /\ Len(history') <= n
  <2>1. CASE linenoiseHistorySetMaxLen(n)
    <3>1. PICK k \in Nat : k = Max({0, Len(history) - n})
      BY <1>1, MaxIs2
    <3>2. k <= Len(history) /\ Len(history) - k <= n
      <4>1. PICK m \in Int : m = Len(history) - n
        BY <1>1
      <4>2. k = IF 0 >= m THEN 0 ELSE m
        BY <3>1, <4>1, MaxIs2
      <4> QED
        BY <1>1, <4>1, <4>2
    <3>3. PICK s : s = SubSeq(history, k + 1, Len(history))
      OBVIOUS
    <3>4. s = [i \in 1..(Len(history) - k) |-> history[i + k]]
      BY <1>1, <3>2, <3>3
    <3>5. \A i \in 1..(Len(history) - k) : history[i + k] \in Seq(Chars)
      BY <1>1, <3>2
    <3>6. s \in Seq(Seq(Chars)) /\ Len(s) = Len(history) - k
      <4>1. PICK q \in Nat : q = Len(history) - k
        BY <1>1, <3>2
      <4>2. s = [i \in 1..q |-> history[i + k]] /\ \A i \in 1..q : history[i + k] \in Seq(Chars)
        BY <3>4, <3>5, <4>1
      <4>3. s \in Seq(Seq(Chars)) /\ Len(s) = q
        BY <4>2
      <4> QED
        BY <4>1, <4>3
    <3> QED
      BY <1>1, <2>1, <3>1, <3>2, <3>3, <3>6 DEF linenoiseHistorySetMaxLen
  <2>2. CASE linenoiseHistoryLoad(n)
    BY <1>1, <2>2, LoadedIs DEF linenoiseHistoryLoad
  <2> QED
    BY <2>1, <2>2
<1>4. stdin' \in Seq(Seq(Chars))
  BY <1>2 DEF LineInv
<1> QED
  BY <1>1, <1>2, <1>3, <1>4, IdleKeeps

LEMMA NotEditedKeeps ==
  ASSUME LineInv, phase = "idle", linenoiseNoTTY \/ UnsupportedTerm
  PROVE  LineInv' /\ \E line \in Seq(Chars) : history' = Added(line)
<1>1. settings.typed \subseteq Chars
  BY SettingsNumbers DEF LineInv
<1>2. \A line \in Lines : line \in Seq(Chars)
  BY <1>1 DEF Lines, BoundedSeq, SeqOf
<1>3. l' = l /\ phase' = "idle" /\ UNCHANGED <<history_max_len, settings>>
  BY DEF linenoiseNoTTY, UnsupportedTerm
<1>4. history_max_len \in Nat \ {0}
  BY DEF LineInv
<1>5. CASE linenoiseNoTTY
  <2>1. PICK line \in Lines : history' = Added(line)
    BY <1>5 DEF linenoiseNoTTY
  <2>2. stdin' = stdin /\ stdin \in Seq(Seq(Chars))
    BY <1>5 DEF linenoiseNoTTY, LineInv
  <2>3. history' \in Seq(Seq(Chars)) /\ Len(history') <= history_max_len
    BY <1>2, <2>1, AddedIs
  <2>4. LineInv'
    BY <1>3, <1>4, <2>2, <2>3, IdleKeeps
  <2> QED
    BY <1>2, <2>1, <2>4
<1>6. CASE UnsupportedTerm
  <2>1. PICK r \in (IF stdin = <<>> THEN {fgets(Append(line, Eol)) : line \in Lines} ELSE {stdin}) :
          stdin' = Tail(r) /\ history' = Added(Head(r))
    BY <1>6 DEF UnsupportedTerm
  <2>2. r \in Seq(Seq(Chars)) /\ r # <<>>
    <3>1. CASE stdin = <<>>
      <4>1. PICK line \in Lines : r = fgets(Append(line, Eol))
        BY <2>1, <3>1
      <4> QED
        BY <1>2, <4>1, FgetsIs
    <3>2. CASE stdin # <<>>
      BY <2>1, <3>2 DEF LineInv
    <3> QED
      BY <3>1, <3>2
  <2>3. Tail(r) \in Seq(Seq(Chars)) /\ Head(r) \in Seq(Chars)
    BY <2>2
  <2>4. history' \in Seq(Seq(Chars)) /\ Len(history') <= history_max_len
    BY <2>1, <2>3, AddedIs
  <2>5. LineInv'
    BY <1>3, <1>4, <2>1, <2>3, <2>4, IdleKeeps
  <2> QED
    BY <2>1, <2>3, <2>5
<1> QED
  BY <1>5, <1>6

LEMMA HideShowKeep ==
  ASSUME LineInv, CompletionsFit, linenoiseHide \/ linenoiseShow
  PROVE  /\ LineInv'
         /\ l'.buf = l.buf /\ l'.pos = l.pos /\ l'.len = l.len /\ l'.history_index = l.history_index
         /\ l'.in_completion = l.in_completion /\ l'.completion_idx = l.completion_idx
<1>1. settings \in Settings /\ Line(l) /\ l \in States(Buffers)
  BY DEF LineInv, Line
<1>2. /\ phase \in {"edit", "hidden"} /\ phase' \in {"edit", "hidden"}
      /\ UNCHANGED <<history, history_max_len, settings, stdin>>
  BY DEF linenoiseHide, linenoiseShow
<1>3. Line(l') /\ SameLine(l', l)
  <2>1. CASE linenoiseHide
    <3>1. PICK x : x = Here
      OBVIOUS
    <3>2. x.l = l
      BY <3>1 DEF Here
    <3>3. PICK y : y = refreshLineWithFlags(x, TRUE, FALSE, FALSE)
      OBVIOUS
    <3>4. y.l \in States(Buffers) /\ SameLine(y.l, l)
      BY <1>1, <3>2, <3>3, RefreshKeeps
    <3>5. l' = y.l
      BY <2>1, <3>1, <3>3 DEF linenoiseHide
    <3> QED
      BY <1>1, <3>4, <3>5 DEF Line, SameLine
  <2>2. CASE linenoiseShow
    <3>1. PICK x : x = [Here EXCEPT !.t = Blank]
      OBVIOUS
    <3>2. x = [l |-> x.l, t |-> x.t] /\ x.l = l
      BY <3>1 DEF Here
    <3>3. l' = refreshLineWithCompletion(x, FALSE, TRUE).l
      BY <2>2, <3>1 DEF linenoiseShow
    <3> QED
      BY <1>1, <3>2, <3>3, ShowKeeps
  <2> QED
    BY <2>1, <2>2
<1>4. /\ l'.buf = l.buf /\ l'.pos = l.pos /\ l'.len = l.len /\ l'.history_index = l.history_index
      /\ l'.in_completion = l.in_completion /\ l'.completion_idx = l.completion_idx
  BY <1>3 DEF SameLine
<1>5. l.history_index \in 0..(Len(history) - 1) /\ history # <<>>
  BY <1>2 DEF LineInv
<1>6. l'.history_index \in 0..(Len(history') - 1) /\ history' # <<>>
  BY <1>2, <1>4, <1>5
<1>7. LineInv'
  BY <1>2, <1>3, <1>6 DEF LineInv
<1> QED
  BY <1>4, <1>7

(* ---- the theorems ------------------------------------------------------------ *)
LEMMA LineInit ==
  ASSUME Init
  PROVE  LineInv
<1>1. settings \in Settings /\ history_max_len \in Nat \ {0}
  BY SettingsNumbers DEF Init
<1> QED
  BY <1>1, FreshIs DEF Init, LineInv

(* What reading a key can do.                                              *)
LEMMA FeedDoes ==
  ASSUME linenoiseEditFeed
  PROVE  \/ \E c \in settings.typed : linenoiseEditInsert(c)
         \/ CompletionKey(CompleteTab) \/ CompletionKey(CompleteEscape)
         \/ linenoiseEditMoveLeft \/ linenoiseEditMoveRight \/ linenoiseEditMoveHome \/ linenoiseEditMoveEnd
         \/ linenoiseEditDelete \/ linenoiseEditBackspace \/ linenoiseEditDeletePrevWord
         \/ Transpose \/ DeleteLine \/ DeleteToEnd
         \/ ClearScreen
         \/ \E step \in {1, -1} : linenoiseEditHistoryNext(step)
         \/ Enter \/ CtrlC \/ EndOfFile \/ Forgotten
BY DEF linenoiseEditFeed, EscapeSequence

LEMMA LineStep ==
  ASSUME LineInv, CompletionsFit, [Next]_vars
  PROVE  LineInv'
<1>1. CASE UNCHANGED <<l, history, history_max_len, term, settings, stdin, phase>>
  BY <1>1 DEF LineInv, Line, States, Ends
<1>2. CASE settings.input = "tty" /\ linenoiseEditStart
  BY <1>2, StartKeeps
<1>3. CASE linenoiseEditFeed
  <2>1. CASE \E c \in settings.typed : linenoiseEditInsert(c)
    BY <2>1, InsertKeeps
  <2>2. CASE CompletionKey(CompleteTab) \/ CompletionKey(CompleteEscape)
    BY <2>2, CompletionKeeps
  <2>3. CASE \/ linenoiseEditMoveLeft \/ linenoiseEditMoveRight \/ linenoiseEditMoveHome \/ linenoiseEditMoveEnd
             \/ linenoiseEditDelete \/ linenoiseEditBackspace \/ linenoiseEditDeletePrevWord
             \/ Transpose \/ DeleteLine \/ DeleteToEnd
    <3>1. PICK moved, d : IsKey(moved, d)
      BY <2>3, KeysMakeLines
    <3> QED
      BY <3>1, KeyKeeps
  <2>4. CASE ClearScreen
    BY <2>4, ClearKeeps
  <2>5. CASE \E step \in {1, -1} : linenoiseEditHistoryNext(step)
    BY <2>5, RecallKeeps
  <2>6. CASE Enter
    BY <2>6, EnterKeeps
  <2>7. CASE CtrlC \/ EndOfFile
    BY <2>7, LeavesKeep
  <2>8. CASE Forgotten
    BY <1>1, <2>8 DEF Forgotten
  <2> QED
    BY <1>3, <2>1, <2>2, <2>3, <2>4, <2>5, <2>6, <2>7, <2>8, FeedDoes
<1>4. CASE phase = "idle" /\ (linenoiseNoTTY \/ UnsupportedTerm)
  BY <1>4, NotEditedKeeps
<1>5. CASE read
  BY <1>5, LeavesKeep
<1>6. CASE \E n \in settings.lens : linenoiseHistorySetMaxLen(n) \/ linenoiseHistoryLoad(n)
  BY <1>6, LengthsKeep
<1>7. CASE linenoiseHide \/ linenoiseShow
  BY <1>7, HideShowKeep
<1> QED
  BY <1>1, <1>2, <1>3, <1>4, <1>5, <1>6, <1>7 DEF Next, linenoise, linenoiseBlockingEdit, vars

(* Whatever is typed, the buffer holds the line and its end, with the      *)
(* cursor in it, the history its length, and the line has its place there: *)
(* no key makes l->len, l->pos and the bytes disagree or leaves            *)
(* l->history_index outside the history.                                   *)
THEOREM EditorTypes == CompletionsFit => (Spec => []TypeOK)
<1> SUFFICES ASSUME CompletionsFit PROVE Spec => []TypeOK
  OBVIOUS
<1>1. Init => LineInv
  BY LineInit
<1>2. LineInv /\ [Next]_vars => LineInv'
  BY LineStep
<1>3. LineInv => TypeOK
  <2> SUFFICES ASSUME LineInv PROVE TypeOK
    OBVIOUS
  <2>1. Line(l) /\ Strlen(l) = l.len
    BY TextIs DEF LineInv
  <2>2. /\ l.len \in 0..BufLen /\ l.pos \in 0..l.len
        /\ l.buf \in [0..BufLen -> Chars \cup {Nul}]
    BY <2>1, LineNumbers DEF Buffers
  <2> QED
    BY <2>1, <2>2 DEF LineInv, TypeOK
<1> QED
  BY <1>1, <1>2, <1>3, PTL DEF Spec

(* ---- the line on both sides of the cursor ------------------------------------ *)
LEMMA SameSeq ==
  ASSUME NEW X, NEW s \in Seq(X), NEW t \in Seq(X), Len(s) = Len(t), \A i \in 1..Len(s) : s[i] = t[i]
  PROVE  s = t
OBVIOUS

LEMMA SubSeqIs ==
  ASSUME NEW X, NEW s \in Seq(X), NEW m \in 1..(Len(s) + 1), NEW n \in (m - 1)..Len(s)
  PROVE  /\ SubSeq(s, m, n) \in Seq(X) /\ Len(SubSeq(s, m, n)) = n - m + 1
         /\ \A i \in 1..(n - m + 1) : SubSeq(s, m, n)[i] = s[m + i - 1]
OBVIOUS

LEMMA ConcatIs ==
  ASSUME NEW X, NEW s \in Seq(X), NEW t \in Seq(X)
  PROVE  /\ s \o t \in Seq(X) /\ Len(s \o t) = Len(s) + Len(t)
         /\ \A i \in 1..(Len(s) + Len(t)) : (s \o t)[i] = IF i <= Len(s) THEN s[i] ELSE t[i - Len(s)]
OBVIOUS

LEMMA EndsAre ==
  ASSUME NEW X, NEW s \in Seq(X), s # <<>>
  PROVE  /\ Len(s) \in Nat /\ Len(s) > 0
         /\ Front(s) \in Seq(X) /\ Len(Front(s)) = Len(s) - 1 /\ \A i \in 1..(Len(s) - 1) : Front(s)[i] = s[i]
         /\ Tail(s) \in Seq(X) /\ Len(Tail(s)) = Len(s) - 1 /\ \A i \in 1..(Len(s) - 1) : Tail(s)[i] = s[i + 1]
         /\ Last(s) \in X /\ Last(s) = s[Len(s)] /\ Head(s) \in X /\ Head(s) = s[1]
         /\ Editor!Front(s) = Front(s) /\ Editor!Last(s) = Last(s)
<1>1. Len(s) \in Nat /\ Len(s) > 0
  OBVIOUS
<1>2. /\ SubSeq(s, 1, Len(s) - 1) \in Seq(X) /\ Len(SubSeq(s, 1, Len(s) - 1)) = Len(s) - 1
      /\ \A i \in 1..(Len(s) - 1) : SubSeq(s, 1, Len(s) - 1)[i] = s[i]
  <2>1. PICK n \in Nat : n = Len(s) - 1
    BY <1>1
  <2>2. n \in (1 - 1)..Len(s) /\ n - 1 + 1 = n /\ \A i \in 1..n : 1 + i - 1 = i
    BY <1>1, <2>1
  <2> QED
    BY <1>1, <2>1, <2>2, SubSeqIs
<1>3. Tail(s) \in Seq(X) /\ Len(Tail(s)) = Len(s) - 1 /\ \A i \in 1..(Len(s) - 1) : Tail(s)[i] = s[i + 1]
  OBVIOUS
<1>4. s[Len(s)] \in X /\ Head(s) \in X /\ Head(s) = s[1]
  OBVIOUS
<1> QED
  BY <1>1, <1>2, <1>3, <1>4 DEF Front, Last, Editor!Front, Editor!Last

LEMMA AppendedIs ==
  ASSUME NEW X, NEW s \in Seq(X), NEW c \in X
  PROVE  /\ Append(s, c) \in Seq(X) /\ Len(Append(s, c)) = Len(s) + 1 /\ Append(s, c)[Len(s) + 1] = c
         /\ \A i \in 1..Len(s) : Append(s, c)[i] = s[i]
OBVIOUS

(* What is before the cursor and what is after it.                         *)
Sides(e, left, right) ==
  /\ left \in Seq(Chars) /\ Len(left) = e.pos /\ \A i \in 1..e.pos : left[i] = e.buf[i - 1]
  /\ right \in Seq(Chars) /\ Len(right) = e.len - e.pos
  /\ \A i \in 1..(e.len - e.pos) : right[i] = e.buf[e.pos + i - 1]

LeftOf(e) == SubSeq(Text(e), 1, e.pos)
RightOf(e) == SubSeq(Text(e), e.pos + 1, e.len)

LEMMA SidesAre ==
  ASSUME NEW e, Line(e)
  PROVE  Sides(e, LeftOf(e), RightOf(e)) /\ LeftOf(e) \o RightOf(e) = Text(e)
<1>1. PICK s \in Seq(Chars), k \in Nat, n \in Nat : s = Text(e) /\ k = e.pos /\ n = e.len /\ k <= n /\ Len(s) = n
  BY TextIs, LineNumbers
<1>2. \A i \in 1..n : s[i] = e.buf[i - 1]
  BY <1>1, TextIs
<1>3. PICK a : a = SubSeq(s, 1, k)
  OBVIOUS
<1>4. PICK b : b = SubSeq(s, k + 1, n)
  OBVIOUS
<1>5. a \in Seq(Chars) /\ Len(a) = k /\ \A i \in 1..k : a[i] = s[i]
  <2>1. 1 \in 1..(Len(s) + 1) /\ k \in (1 - 1)..Len(s) /\ k - 1 + 1 = k /\ \A i \in 1..k : 1 + i - 1 = i
    BY <1>1
  <2> QED
    BY <1>3, <2>1, SubSeqIs
<1>6. b \in Seq(Chars) /\ Len(b) = n - k /\ \A i \in 1..(n - k) : b[i] = s[k + i]
  <2>1. PICK m \in 1..(Len(s) + 1) : m = k + 1
    BY <1>1
  <2>2. n \in (m - 1)..Len(s) /\ n - m + 1 = n - k
    BY <1>1, <2>1
  <2>3. ASSUME NEW i \in 1..(n - k) PROVE m + i - 1 = k + i
    BY <1>1, <2>1
  <2>4. /\ SubSeq(s, m, n) \in Seq(Chars) /\ Len(SubSeq(s, m, n)) = n - m + 1
        /\ \A i \in 1..(n - m + 1) : SubSeq(s, m, n)[i] = s[m + i - 1]
    BY <2>2, SubSeqIs
  <2> QED
    BY <1>4, <2>1, <2>2, <2>3, <2>4
<1>7. Sides(e, a, b)
  <2>1. \A i \in 1..k : a[i] = e.buf[i - 1]
    BY <1>1, <1>2, <1>5
  <2>2. \A i \in 1..(n - k) : b[i] = e.buf[k + i - 1]
    <3>1. \A i \in 1..(n - k) : k + i \in 1..n
      BY <1>1
    <3> QED
      BY <1>2, <1>6, <3>1
  <2> QED
    BY <1>1, <1>5, <1>6, <2>1, <2>2 DEF Sides
<1>8. a \o b = s
  <2>1. /\ a \o b \in Seq(Chars) /\ Len(a \o b) = k + (n - k)
        /\ \A i \in 1..(k + (n - k)) : (a \o b)[i] = IF i <= k THEN a[i] ELSE b[i - k]
    BY <1>5, <1>6, ConcatIs
  <2>2. k + (n - k) = n
    BY <1>1
  <2>3. ASSUME NEW i \in 1..n PROVE (a \o b)[i] = s[i]
    <3>1. CASE i <= k
      BY <1>1, <1>5, <2>1, <2>2, <3>1, SMTT(30)
    <3>2. CASE i > k
      <4>1. i - k \in 1..(n - k) /\ k + (i - k) = i /\ ~(i <= k)
        BY <1>1, <3>2
      <4>2. (a \o b)[i] = b[i - k]
        BY <2>1, <2>2, <4>1
      <4> QED
        BY <1>6, <4>1, <4>2
    <3>3. i <= k \/ i > k
      BY <1>1
    <3> QED
      BY <3>1, <3>2, <3>3
  <2> QED
    BY <1>1, <2>1, <2>2, <2>3, SameSeq
<1> QED
  BY <1>1, <1>3, <1>4, <1>7, <1>8 DEF LeftOf, RightOf

LEMMA SidesUnique ==
  ASSUME NEW e, Line(e), NEW s, NEW t, Sides(e, s, t)
  PROVE  LeftOf(e) = s /\ RightOf(e) = t
<1>1. PICK k \in Nat, n \in Nat : k = e.pos /\ n = e.len - e.pos
  BY LineNumbers
<1>2. Sides(e, LeftOf(e), RightOf(e))
  BY SidesAre
<1>3. LeftOf(e) = s
  BY <1>1, <1>2, SameSeq DEF Sides
<1>4. RightOf(e) = t
  <2>1. PICK u : u = RightOf(e)
    OBVIOUS
  <2>2. /\ u \in Seq(Chars) /\ Len(u) = n /\ \A i \in 1..n : u[i] = e.buf[e.pos + i - 1]
        /\ t \in Seq(Chars) /\ Len(t) = n /\ \A i \in 1..n : t[i] = e.buf[e.pos + i - 1]
    BY <1>1, <1>2, <2>1 DEF Sides
  <2>3. \A i \in 1..n : u[i] = t[i]
    BY <2>2
  <2> QED
    BY <2>1, <2>2, <2>3, SameSeq
<1> QED
  BY <1>3, <1>4

(* Drawing does not change the sides.                                      *)
LEMMA SameSides ==
  ASSUME NEW d, NEW e, d.buf = e.buf, d.pos = e.pos, d.len = e.len
  PROVE  LeftOf(d) = LeftOf(e) /\ RightOf(d) = RightOf(e) /\ Text(d) = Text(e)
BY DEF LeftOf, RightOf, Text, Bytes

LEMMA TypedSides ==
  ASSUME NEW e, Line(e), e.len < BufLen, NEW c \in Chars
  PROVE  <<LeftOf(Inserted(e, c)), RightOf(Inserted(e, c))>> \in Editor!Typed(c, LeftOf(e), RightOf(e))
<1>1. PICK s, t : s = LeftOf(e) /\ t = RightOf(e)
  OBVIOUS
<1>2. Sides(e, s, t)
  BY <1>1, SidesAre
<1>3. PICK new : new = Inserted(e, c)
  OBVIOUS
<1>4. PICK k \in Nat, n \in Nat : k = e.pos /\ n = e.len /\ k <= n
  BY LineNumbers
<1>5. Line(new) /\ new.pos = k + 1 /\ new.len = n + 1
  BY <1>3, <1>4, InsertedIs DEF Becomes
<1>6. \A i \in 0..n : new.buf[i] = IF i < k THEN e.buf[i] ELSE IF i = k THEN c ELSE e.buf[i - 1]
  BY <1>3, <1>4, InsertedIs
<1>7. PICK v : v = Append(s, c)
  OBVIOUS
<1>8. v \in Seq(Chars) /\ Len(v) = k + 1 /\ v[k + 1] = c /\ \A i \in 1..k : v[i] = s[i]
  BY <1>2, <1>4, <1>7, AppendedIs DEF Sides
<1>9. \A i \in 1..(k + 1) : v[i] = new.buf[i - 1]
  <2> SUFFICES ASSUME NEW i \in 1..(k + 1) PROVE v[i] = new.buf[i - 1]
    OBVIOUS
  <2>1. CASE i <= k
    <3>1. i \in 1..k /\ i - 1 \in 0..n /\ i - 1 < k
      BY <1>4, <2>1
    <3>2. s[i] = e.buf[i - 1]
      BY <1>2, <1>4, <3>1 DEF Sides
    <3> QED
      BY <1>6, <1>8, <3>1, <3>2
  <2>2. CASE i > k
    <3>1. i = k + 1 /\ i - 1 = k /\ k \in 0..n /\ ~(k < k)
      BY <1>4, <2>2
    <3> QED
      BY <1>6, <1>8, <3>1
  <2> QED
    BY <1>4, <2>1, <2>2
<1>10. \A i \in 1..(n - k) : t[i] = new.buf[(k + 1) + i - 1]
  <2> SUFFICES ASSUME NEW i \in 1..(n - k) PROVE t[i] = new.buf[(k + 1) + i - 1]
    OBVIOUS
  <2>1. k + i \in 0..n /\ (k + 1) + i - 1 = k + i /\ ~(k + i < k) /\ k + i # k
    BY <1>4
  <2>2. t[i] = e.buf[k + i - 1]
    BY <1>2, <1>4 DEF Sides
  <2> QED
    BY <1>6, <2>1, <2>2
<1>11. Sides(new, v, t)
  <2>1. (n + 1) - (k + 1) = n - k
    BY <1>4
  <2> QED
    BY <1>2, <1>4, <1>5, <1>8, <1>9, <1>10, <2>1 DEF Sides
<1>12. LeftOf(new) = v /\ RightOf(new) = t
  BY <1>5, <1>11, SidesUnique
<1>13. Len(s) + Len(t) < BufLen
  <2>1. Len(s) + Len(t) = n
    BY <1>2, <1>4 DEF Sides
  <2> QED
    BY <1>4, <2>1
<1> QED
  BY <1>1, <1>3, <1>7, <1>12, <1>13 DEF Editor!Typed

(* The sides of a line, by their lengths.                                  *)
Split(e, s, t, k, m) ==
  /\ s = LeftOf(e) /\ t = RightOf(e) /\ s \o t = Text(e) /\ Len(s) = k /\ Len(t) = m
  /\ e.pos = k /\ e.len = k + m /\ k + m <= BufLen
  /\ \A i \in 1..k : s[i] = e.buf[i - 1]
  /\ \A i \in 1..m : t[i] = e.buf[k + i - 1]

LEMMA SidesOf ==
  ASSUME NEW e, Line(e)
  PROVE  \E s \in Seq(Chars), t \in Seq(Chars), k \in Nat, m \in Nat : Split(e, s, t, k, m)
<1>1. PICK k \in Nat, m \in Nat : k = e.pos /\ m = e.len - e.pos /\ e.len = k + m
  BY LineNumbers
<1>2. PICK s \in Seq(Chars), t \in Seq(Chars) : s = LeftOf(e) /\ t = RightOf(e)
  BY SidesAre DEF Sides
<1>3. Len(s) = k /\ Len(t) = m /\ s \o t = Text(e)
  BY <1>1, <1>2, SidesAre DEF Sides
<1>4. /\ \A i \in 1..k : s[i] = e.buf[i - 1]
      /\ \A i \in 1..m : t[i] = e.buf[k + i - 1]
  BY <1>1, <1>2, SidesAre DEF Sides
<1>5. k + m <= BufLen
  BY <1>1, LineNumbers
<1>6. Split(e, s, t, k, m)
  BY <1>1, <1>2, <1>3, <1>4, <1>5 DEF Split
<1> QED
  BY <1>6

(* The sides of a line are what has their lengths and characters.          *)
Joined(new, v, w, k, m) ==
  /\ Line(new) /\ new.pos = k /\ new.len = k + m /\ Len(v) = k /\ Len(w) = m
  /\ \A i \in 1..k : v[i] = new.buf[i - 1]
  /\ \A i \in 1..m : w[i] = new.buf[k + i - 1]

LEMMA SidesFrom ==
  ASSUME NEW new, NEW k \in Nat, NEW m \in Nat, NEW v \in Seq(Chars), NEW w \in Seq(Chars), Joined(new, v, w, k, m)
  PROVE  LeftOf(new) = v /\ RightOf(new) = w
<1>1. new.len - new.pos = m /\ new.pos = k
  BY DEF Joined
<1>2. Sides(new, v, w)
  BY <1>1 DEF Joined, Sides
<1> QED
  BY <1>2, SidesUnique DEF Joined

LEMMA LeftOneSides ==
  ASSUME NEW e, Line(e), e.pos > 0
  PROVE  <<LeftOf(MovedLeft(e)), RightOf(MovedLeft(e))>> \in Editor!LeftOne(LeftOf(e), RightOf(e))
<1>1. PICK s \in Seq(Chars), t \in Seq(Chars), k \in Nat, m \in Nat : Split(e, s, t, k, m)
  BY SidesOf
<1>2. /\ s = LeftOf(e) /\ t = RightOf(e) /\ s \o t = Text(e) /\ Len(s) = k /\ Len(t) = m
      /\ e.pos = k /\ e.len = k + m /\ s # <<>> /\ k > 0
      /\ \A i \in 1..k : s[i] = e.buf[i - 1]
      /\ \A i \in 1..m : t[i] = e.buf[k + i - 1]
  BY <1>1 DEF Split
<1>3. PICK new : new = MovedLeft(e) /\ Line(new) /\ new.pos = k - 1 /\ new.len = k + m /\ new.buf = e.buf
  BY <1>2, MovesKeep DEF Becomes
<1>4. PICK v \in Seq(Chars) : v = Front(s)
  BY <1>2, EndsAre
<1>5. Len(v) = k - 1 /\ \A i \in 1..(k - 1) : v[i] = s[i]
  <2>1. Len(s) = k /\ s # <<>>
    BY <1>2
  <2>2. Len(Front(s)) = Len(s) - 1 /\ \A i \in 1..(Len(s) - 1) : Front(s)[i] = s[i]
    BY <2>1, EndsAre, ZenonT(30)
  <2> QED
    BY <1>4, <2>1, <2>2
<1>6. PICK c \in Chars : c = Last(s)
  BY <1>2, EndsAre
<1>7. c = s[k]
  BY <1>2, <1>6, EndsAre
<1>8. <<c>> \in Seq(Chars)
  OBVIOUS
<1>9. PICK w \in Seq(Chars) : w = <<c>> \o t
  BY <1>8, ConcatIs
<1>10. Len(w) = 1 + m /\ \A i \in 1..(1 + m) : w[i] = IF i = 1 THEN c ELSE t[i - 1]
  <2>1. PICK u \in Seq(Chars) : u = <<c>>
    BY <1>8
  <2>2. Len(u) = 1 /\ u[1] = c
    BY <2>1
  <2>3. Len(w) = 1 + m /\ \A i \in 1..(1 + m) : w[i] = IF i <= 1 THEN u[i] ELSE t[i - 1]
    BY <1>2, <1>9, <2>1, <2>2, ConcatIs
  <2> QED
    BY <1>2, <2>2, <2>3
<1>11. LeftOf(new) = v /\ RightOf(new) = w
  <2>1. PICK j \in Nat, o \in Nat : j = k - 1 /\ o = 1 + m /\ j + o = k + m
    <3>1. k > 0
      BY <1>2
    <3>2. k - 1 \in Nat /\ 1 + m \in Nat /\ (k - 1) + (1 + m) = k + m
      BY <3>1
    <3> QED
      BY <3>2
  <2>2. \A i \in 1..j : v[i] = new.buf[i - 1]
    <3>1. \A i \in 1..j : i \in 1..k /\ i \in 1..(k - 1)
      BY <2>1
    <3> QED
      BY <1>2, <1>3, <1>5, <3>1
  <2>3. \A i \in 1..o : w[i] = new.buf[j + i - 1]
    <3> SUFFICES ASSUME NEW i \in 1..o PROVE w[i] = new.buf[j + i - 1]
      OBVIOUS
    <3>1. CASE i = 1
      <4>1. j + i - 1 = k - 1 /\ k \in 1..k
        BY <1>2, <2>1, <3>1
      <4>2. s[k] = e.buf[k - 1]
        BY <1>2, <4>1
      <4> QED
        BY <1>3, <1>7, <1>10, <2>1, <3>1, <4>1, <4>2
    <3>2. CASE i # 1
      <4>1. j + i - 1 = k + (i - 1) - 1 /\ i - 1 \in 1..m
        BY <1>2, <2>1, <3>2
      <4>2. t[i - 1] = e.buf[k + (i - 1) - 1]
        BY <1>2, <4>1
      <4> QED
        BY <1>3, <1>10, <2>1, <3>2, <4>1, <4>2
    <3> QED
      BY <3>1, <3>2
  <2>4. Joined(new, v, w, j, o)
    BY <1>3, <1>5, <1>10, <2>1, <2>2, <2>3 DEF Joined
  <2> QED
    BY <2>4, SidesFrom
<1>12. Editor!Front(s) = v /\ Editor!Last(s) = c
  BY <1>2, <1>4, <1>6, EndsAre
<1> QED
  BY <1>2, <1>3, <1>9, <1>11, <1>12 DEF Editor!LeftOne

LEMMA RightOneSides ==
  ASSUME NEW e, Line(e), e.pos # e.len
  PROVE  <<LeftOf(MovedRight(e)), RightOf(MovedRight(e))>> \in Editor!RightOne(LeftOf(e), RightOf(e))
<1>1. PICK s \in Seq(Chars), t \in Seq(Chars), k \in Nat, m \in Nat : Split(e, s, t, k, m)
  BY SidesOf
<1>2. /\ s = LeftOf(e) /\ t = RightOf(e) /\ s \o t = Text(e) /\ Len(s) = k /\ Len(t) = m
      /\ e.pos = k /\ e.len = k + m /\ t # <<>> /\ m > 0
      /\ \A i \in 1..k : s[i] = e.buf[i - 1]
      /\ \A i \in 1..m : t[i] = e.buf[k + i - 1]
  BY <1>1 DEF Split
<1>3. PICK new : new = MovedRight(e) /\ Line(new) /\ new.pos = k + 1 /\ new.len = k + m /\ new.buf = e.buf
  BY <1>2, MovesKeep DEF Becomes
<1>4. PICK w \in Seq(Chars) : w = Tail(t)
  BY <1>2, EndsAre
<1>5. Len(w) = m - 1 /\ \A i \in 1..(m - 1) : w[i] = t[i + 1]
  BY <1>2, <1>4, EndsAre
<1>6. PICK c \in Chars : c = Head(t)
  BY <1>2, EndsAre
<1>7. c = t[1]
  BY <1>2, <1>6, EndsAre
<1>8. PICK v \in Seq(Chars) : v = Append(s, c)
  BY AppendedIs
<1>9. Len(v) = k + 1 /\ v[k + 1] = c /\ \A i \in 1..k : v[i] = s[i]
  BY <1>2, <1>8, AppendedIs
<1>10. LeftOf(new) = v /\ RightOf(new) = w
  <2>1. PICK j \in Nat, o \in Nat : j = k + 1 /\ o = m - 1 /\ j + o = k + m
    BY <1>2
  <2>2. \A i \in 1..j : v[i] = new.buf[i - 1]
    <3> SUFFICES ASSUME NEW i \in 1..j PROVE v[i] = new.buf[i - 1]
      OBVIOUS
    <3>1. CASE i = j
      <4>1. i - 1 = k + 1 - 1 /\ 1 \in 1..m
        BY <1>2, <2>1, <3>1
      <4>2. t[1] = e.buf[k + 1 - 1]
        BY <1>2, <4>1
      <4> QED
        BY <1>3, <1>7, <1>9, <2>1, <3>1, <4>1, <4>2
    <3>2. CASE i # j
      <4>1. i \in 1..k
        BY <2>1, <3>2
      <4> QED
        BY <1>2, <1>3, <1>9, <4>1
    <3> QED
      BY <3>1, <3>2
  <2>3. \A i \in 1..o : w[i] = new.buf[j + i - 1]
    <3> SUFFICES ASSUME NEW i \in 1..o PROVE w[i] = new.buf[j + i - 1]
      OBVIOUS
    <3>1. i + 1 \in 1..m /\ j + i - 1 = k + (i + 1) - 1 /\ i \in 1..(m - 1)
      BY <2>1
    <3>2. t[i + 1] = e.buf[k + (i + 1) - 1]
      BY <1>2, <3>1
    <3> QED
      BY <1>3, <1>5, <3>1, <3>2
  <2>4. Joined(new, v, w, j, o)
    BY <1>3, <1>5, <1>9, <2>1, <2>2, <2>3 DEF Joined
  <2> QED
    BY <2>4, SidesFrom
<1> QED
  BY <1>2, <1>3, <1>4, <1>6, <1>8, <1>10 DEF Editor!RightOne

(* A line all of which is before the cursor, or after it.                  *)
LEMMA OneSide ==
  ASSUME NEW e, Line(e)
  PROVE  /\ e.pos = e.len => LeftOf(e) = Text(e) /\ RightOf(e) = <<>>
         /\ e.pos = 0 => LeftOf(e) = <<>> /\ RightOf(e) = Text(e)
<1>1. PICK s \in Seq(Chars), t \in Seq(Chars), k \in Nat, m \in Nat : Split(e, s, t, k, m)
  BY SidesOf
<1>2. /\ s = LeftOf(e) /\ t = RightOf(e) /\ s \o t = Text(e) /\ Len(s) = k /\ Len(t) = m
      /\ e.pos = k /\ e.len = k + m
      /\ \A i \in 1..k : s[i] = e.buf[i - 1]
      /\ \A i \in 1..m : t[i] = e.buf[k + i - 1]
  BY <1>1 DEF Split
<1>3. s \o <<>> = s /\ <<>> \o t = t
  OBVIOUS
<1>4. CASE e.pos = e.len
  <2>1. m = 0
    BY <1>2, <1>4
  <2>2. t = <<>>
    BY <1>2, <2>1
  <2>3. e.pos = 0 => s = <<>>
    BY <1>2
  <2> QED
    BY <1>2, <1>3, <2>2, <2>3
<1>5. CASE e.pos # e.len
  <2>1. e.pos = 0 => s = <<>>
    BY <1>2
  <2> QED
    BY <1>2, <1>3, <1>5, <2>1
<1> QED
  BY <1>4, <1>5

LEMMA HomeSides ==
  ASSUME NEW e, Line(e)
  PROVE  /\ <<LeftOf(MovedHome(e)), RightOf(MovedHome(e))>> \in Editor!Home(LeftOf(e), RightOf(e))
         /\ <<LeftOf(MovedEnd(e)), RightOf(MovedEnd(e))>> \in Editor!AtEnd(LeftOf(e), RightOf(e))
<1>1. LeftOf(e) \o RightOf(e) = Text(e)
  BY SidesAre
<1>2. PICK h : h = MovedHome(e) /\ Line(h) /\ h.pos = 0 /\ h.len = e.len /\ h.buf = e.buf
  BY MovesKeep DEF Becomes
<1>3. PICK d : d = MovedEnd(e) /\ Line(d) /\ d.pos = e.len /\ d.len = e.len /\ d.buf = e.buf
  BY MovesKeep DEF Becomes
<1>4. Text(h) = Text(e) /\ Text(d) = Text(e)
  BY <1>2, <1>3 DEF Text, Bytes
<1>5. LeftOf(h) = <<>> /\ RightOf(h) = Text(e) /\ LeftOf(d) = Text(e) /\ RightOf(d) = <<>>
  BY <1>2, <1>3, <1>4, OneSide
<1> QED
  BY <1>1, <1>2, <1>3, <1>5 DEF Editor!Home, Editor!AtEnd

LEMMA CutSides ==
  ASSUME NEW e, Line(e)
  PROVE  /\ <<LeftOf(LineDeleted(e)), RightOf(LineDeleted(e))>> \in Editor!Cleared(LeftOf(e), RightOf(e))
         /\ <<LeftOf(EndDeleted(e)), RightOf(EndDeleted(e))>> \in Editor!CutOff(LeftOf(e), RightOf(e))
<1>1. PICK s \in Seq(Chars), t \in Seq(Chars), k \in Nat, m \in Nat : Split(e, s, t, k, m)
  BY SidesOf
<1>2. /\ s = LeftOf(e) /\ t = RightOf(e) /\ s \o t = Text(e) /\ Len(s) = k /\ Len(t) = m
      /\ e.pos = k /\ e.len = k + m
      /\ \A i \in 1..k : s[i] = e.buf[i - 1]
      /\ \A i \in 1..m : t[i] = e.buf[k + i - 1]
  BY <1>1 DEF Split
<1>3. PICK d : d = LineDeleted(e) /\ Line(d) /\ d.pos = 0 /\ d.len = 0
  BY LineDeletedIs DEF Becomes
<1>4. LeftOf(d) = <<>> /\ RightOf(d) = <<>>
  BY <1>3, OneSide
<1>5. PICK new : new = EndDeleted(e) /\ Line(new) /\ new.pos = k /\ new.len = k
  BY <1>2, EndDeletedIs DEF Becomes
<1>6. \A i \in 0..(k - 1) : new.buf[i] = e.buf[i]
  BY <1>2, <1>5, EndDeletedIs
<1>7. LeftOf(new) = s /\ RightOf(new) = <<>>
  <2>1. \A i \in 1..k : s[i] = new.buf[i - 1]
    <3>1. \A i \in 1..k : i - 1 \in 0..(k - 1)
      BY <1>2
    <3> QED
      BY <1>2, <1>6, <3>1
  <2>2. PICK z \in Nat : z = 0
    OBVIOUS
  <2>3. PICK w \in Seq(Chars) : w = <<>>
    <3>1. <<>> \in Seq(Chars)
      OBVIOUS
    <3> QED
      BY <3>1
  <2>4. Len(w) = z /\ k + z = k
    BY <2>2, <2>3
  <2>5. \A i \in 1..z : w[i] = new.buf[k + i - 1]
    BY <2>2
  <2>6. Joined(new, s, w, k, z)
    BY <1>2, <1>5, <2>1, <2>4, <2>5 DEF Joined
  <2> QED
    BY <2>3, <2>6, SidesFrom
<1> QED
  BY <1>2, <1>3, <1>4, <1>5, <1>7 DEF Editor!Cleared, Editor!CutOff

LEMMA BackspacedSides ==
  ASSUME NEW e, Line(e), e.pos > 0
  PROVE  <<LeftOf(Backspaced(e)), RightOf(Backspaced(e))>> \in Editor!Backspaced(LeftOf(e), RightOf(e))
<1>1. PICK s \in Seq(Chars), t \in Seq(Chars), k \in Nat, m \in Nat : Split(e, s, t, k, m)
  BY SidesOf
<1>2. /\ s = LeftOf(e) /\ t = RightOf(e) /\ Len(s) = k /\ Len(t) = m
      /\ e.pos = k /\ e.len = k + m /\ s # <<>> /\ k > 0
      /\ \A i \in 1..k : s[i] = e.buf[i - 1]
      /\ \A i \in 1..m : t[i] = e.buf[k + i - 1]
  BY <1>1, SMTT(30) DEF Split
<1>3. PICK new : new = Backspaced(e)
  OBVIOUS
<1>4. Line(new) /\ new.pos = k - 1 /\ new.len = k + m - 1
  BY <1>2, <1>3, BackspacedIs DEF Becomes
<1>5. \A i \in 0..(k + m - 2) : new.buf[i] = IF i < k - 1 THEN e.buf[i] ELSE e.buf[i + 1]
  <2>1. \A i \in 0..(e.len - 2) : new.buf[i] = IF i < e.pos - 1 THEN e.buf[i] ELSE e.buf[i + 1]
    BY <1>3, BackspacedIs, ZenonT(30)
  <2>2. e.len - 2 = k + m - 2
    BY <1>2
  <2> QED
    BY <1>2, <2>1, <2>2
<1>6. PICK v \in Seq(Chars) : v = Front(s) /\ v = Editor!Front(s)
  BY <1>2, EndsAre
<1>7. Len(v) = k - 1 /\ \A i \in 1..(k - 1) : v[i] = s[i]
  <2>1. Len(s) = k /\ s # <<>>
    BY <1>2
  <2>2. Len(Front(s)) = Len(s) - 1 /\ \A i \in 1..(Len(s) - 1) : Front(s)[i] = s[i]
    BY <2>1, EndsAre, ZenonT(30)
  <2> QED
    BY <1>6, <2>1, <2>2
<1>8. PICK j \in Nat : j = k - 1 /\ j + m = k + m - 1
  BY <1>2
<1>9. \A i \in 1..j : v[i] = new.buf[i - 1]
  <2> SUFFICES ASSUME NEW i \in 1..j PROVE v[i] = new.buf[i - 1]
    OBVIOUS
  <2>1. i \in 1..k /\ i \in 1..(k - 1) /\ i - 1 \in 0..(k + m - 2) /\ i - 1 < k - 1
    BY <1>8
  <2>2. v[i] = e.buf[i - 1]
    BY <1>2, <1>7, <2>1
  <2> QED
    BY <1>5, <2>1, <2>2
<1>10. \A i \in 1..m : t[i] = new.buf[j + i - 1]
  <2> SUFFICES ASSUME NEW i \in 1..m PROVE t[i] = new.buf[j + i - 1]
    OBVIOUS
  <2>1. PICK p \in 0..(k + m - 2) : p = j + i - 1 /\ ~(p < k - 1) /\ p + 1 = k + i - 1
    BY <1>2, <1>8
  <2>2. t[i] = e.buf[k + i - 1]
    BY <1>2
  <2> QED
    BY <1>5, <2>1, <2>2
<1>11. Joined(new, v, t, j, m)
  BY <1>2, <1>4, <1>7, <1>8, <1>9, <1>10 DEF Joined
<1>12. LeftOf(new) = v /\ RightOf(new) = t
  BY <1>11, SidesFrom
<1> QED
  BY <1>2, <1>3, <1>6, <1>12 DEF Editor!Backspaced

LEMMA DeletedSides ==
  ASSUME NEW e, Line(e), e.pos < e.len
  PROVE  <<LeftOf(Deleted(e)), RightOf(Deleted(e))>> \in Editor!Deleted(LeftOf(e), RightOf(e))
<1>1. PICK s \in Seq(Chars), t \in Seq(Chars), k \in Nat, m \in Nat : Split(e, s, t, k, m)
  BY SidesOf
<1>2. /\ s = LeftOf(e) /\ t = RightOf(e) /\ Len(s) = k /\ Len(t) = m
      /\ e.pos = k /\ e.len = k + m /\ t # <<>> /\ m > 0
      /\ \A i \in 1..k : s[i] = e.buf[i - 1]
      /\ \A i \in 1..m : t[i] = e.buf[k + i - 1]
  BY <1>1 DEF Split
<1>3. PICK new : new = Deleted(e)
  OBVIOUS
<1>4. Line(new) /\ new.pos = k /\ new.len = k + m - 1
  BY <1>2, <1>3, DeletedIs DEF Becomes
<1>5. \A i \in 0..(k + m - 2) : new.buf[i] = IF i < k THEN e.buf[i] ELSE e.buf[i + 1]
  <2>1. \A i \in 0..(e.len - 2) : new.buf[i] = IF i < e.pos THEN e.buf[i] ELSE e.buf[i + 1]
    BY <1>3, DeletedIs, ZenonT(30)
  <2>2. e.len - 2 = k + m - 2
    BY <1>2
  <2> QED
    BY <1>2, <2>1, <2>2
<1>6. PICK w \in Seq(Chars) : w = Tail(t)
  BY <1>2, EndsAre
<1>7. Len(w) = m - 1 /\ \A i \in 1..(m - 1) : w[i] = t[i + 1]
  <2>1. Len(t) = m /\ t # <<>>
    BY <1>2
  <2>2. Len(Tail(t)) = Len(t) - 1 /\ \A i \in 1..(Len(t) - 1) : Tail(t)[i] = t[i + 1]
    BY <2>1, EndsAre, ZenonT(30)
  <2> QED
    BY <1>6, <2>1, <2>2
<1>8. PICK o \in Nat : o = m - 1 /\ k + o = k + m - 1
  BY <1>2
<1>9. \A i \in 1..k : s[i] = new.buf[i - 1]
  <2> SUFFICES ASSUME NEW i \in 1..k PROVE s[i] = new.buf[i - 1]
    OBVIOUS
  <2>1. i - 1 \in 0..(k + m - 2) /\ i - 1 < k
    BY <1>8
  <2> QED
    BY <1>2, <1>5, <2>1
<1>10. \A i \in 1..o : w[i] = new.buf[k + i - 1]
  <2> SUFFICES ASSUME NEW i \in 1..o PROVE w[i] = new.buf[k + i - 1]
    OBVIOUS
  <2>1. PICK p \in 0..(k + m - 2) : p = k + i - 1 /\ ~(p < k) /\ p + 1 = k + (i + 1) - 1
    BY <1>8
  <2>2. i + 1 \in 1..m /\ i \in 1..(m - 1)
    BY <1>8
  <2>3. w[i] = e.buf[k + (i + 1) - 1]
    BY <1>2, <1>7, <2>2
  <2> QED
    BY <1>5, <2>1, <2>3
<1>11. Joined(new, s, w, k, o)
  BY <1>2, <1>4, <1>7, <1>8, <1>9, <1>10 DEF Joined
<1>12. LeftOf(new) = s /\ RightOf(new) = w
  BY <1>11, SidesFrom
<1> QED
  BY <1>2, <1>3, <1>6, <1>12 DEF Editor!Deleted

LEMMA WordSides ==
  ASSUME NEW e, Line(e)
  PROVE  <<LeftOf(DeletedWord(e)), RightOf(DeletedWord(e))>> \in Editor!WordOff(LeftOf(e), RightOf(e))
<1>1. PICK s \in Seq(Chars), t \in Seq(Chars), k \in Nat, m \in Nat : Split(e, s, t, k, m)
  BY SidesOf
<1>2. /\ s = LeftOf(e) /\ t = RightOf(e) /\ Len(s) = k /\ Len(t) = m
      /\ e.pos = k /\ e.len = k + m
      /\ \A i \in 1..k : s[i] = e.buf[i - 1]
      /\ \A i \in 1..m : t[i] = e.buf[k + i - 1]
  BY <1>1 DEF Split
<1>3. PICK new : new = DeletedWord(e)
  OBVIOUS
<1>4. PICK at \in 0..k : at = WordStart(e)
  BY <1>2, DeletedWordIs
<1>5. Line(new) /\ new.pos = at /\ new.len = k + m - (k - at)
  BY <1>2, <1>3, <1>4, DeletedWordIs DEF Becomes
<1>6. \A i \in 0..(k + m - (k - at) - 1) : new.buf[i] = IF i < at THEN e.buf[i] ELSE e.buf[i + (k - at)]
  <2>1. \A i \in 0..(e.len - (e.pos - at) - 1) : new.buf[i] = IF i < at THEN e.buf[i] ELSE e.buf[i + (e.pos - at)]
    BY <1>3, <1>4, DeletedWordIs, ZenonT(30)
  <2>2. e.len - (e.pos - at) - 1 = k + m - (k - at) - 1 /\ e.pos - at = k - at
    BY <1>2
  <2> QED
    BY <2>1, <2>2
<1>7. k + m - (k - at) = at + m /\ at \in Nat
  OBVIOUS
<1>8. PICK v : v = SubSeq(s, 1, at)
  OBVIOUS
<1>9. v \in Seq(Chars) /\ Len(v) = at /\ \A i \in 1..at : v[i] = s[i]
  <2>1. 1 \in 1..(Len(s) + 1) /\ at \in (1 - 1)..Len(s) /\ at - 1 + 1 = at /\ \A i \in 1..at : 1 + i - 1 = i
    BY <1>2
  <2> QED
    BY <1>8, <2>1, SubSeqIs
<1>10. \A i \in 1..at : v[i] = new.buf[i - 1]
  <2> SUFFICES ASSUME NEW i \in 1..at PROVE v[i] = new.buf[i - 1]
    OBVIOUS
  <2>1. i \in 1..k /\ i - 1 \in 0..(at + m - 1) /\ i - 1 < at
    OBVIOUS
  <2>2. v[i] = e.buf[i - 1]
    BY <1>2, <1>9, <2>1
  <2> QED
    BY <1>6, <1>7, <2>1, <2>2
<1>11. \A i \in 1..m : t[i] = new.buf[at + i - 1]
  <2> SUFFICES ASSUME NEW i \in 1..m PROVE t[i] = new.buf[at + i - 1]
    OBVIOUS
  <2>1. PICK p \in 0..(at + m - 1) : p = at + i - 1 /\ ~(p < at) /\ p + (k - at) = k + i - 1
    OBVIOUS
  <2>2. t[i] = e.buf[k + i - 1]
    BY <1>2
  <2> QED
    BY <1>6, <1>7, <2>1, <2>2
<1>12. Joined(new, v, t, at, m)
  BY <1>2, <1>5, <1>7, <1>9, <1>10, <1>11 DEF Joined
<1>13. LeftOf(new) = v /\ RightOf(new) = t
  BY <1>7, <1>9, <1>12, SidesFrom
<1>14. PICK last \in 0..k :
         /\ at \in 0..last
         /\ last > 0 => e.buf[last - 1] # Space
         /\ \A i \in (last + 1)..k : e.buf[i - 1] = Space
         /\ at > 0 => e.buf[at - 1] = Space
         /\ \A i \in (at + 1)..last : e.buf[i - 1] # Space
  <2>1. e.pos = k
    BY <1>2
  <2> QED
    BY <1>4, <2>1, WordStartIs, ZenonT(30)
<1>15. Editor!IsWord(SubSeq(s, at + 1, k))
  <2>1. PICK u : u = SubSeq(s, at + 1, k)
    OBVIOUS
  <2>2. u \in Seq(Chars) /\ Len(u) = k - at /\ \A i \in 1..(k - at) : u[i] = s[at + i]
    <3>1. PICK n \in 1..(Len(s) + 1) : n = at + 1
      BY <1>2
    <3>2. k \in (n - 1)..Len(s) /\ k - n + 1 = k - at
      BY <1>2, <3>1
    <3>3. ASSUME NEW i \in 1..(k - at) PROVE n + i - 1 = at + i
      BY <3>1
    <3>4. /\ SubSeq(s, n, k) \in Seq(Chars) /\ Len(SubSeq(s, n, k)) = k - n + 1
          /\ \A i \in 1..(k - n + 1) : SubSeq(s, n, k)[i] = s[n + i - 1]
      BY <3>2, SubSeqIs
    <3> QED
      BY <2>1, <3>1, <3>2, <3>3, <3>4
  <2>3. PICK x \in 0..(k - at) : x = last - at
    BY <1>14
  <2>4. \A i \in 1..(k - at) : (u[i] = Space) = (i > x)
    <3> SUFFICES ASSUME NEW i \in 1..(k - at) PROVE (u[i] = Space) = (i > x)
      OBVIOUS
    <3>1. PICK p \in 1..k : p = at + i
      OBVIOUS
    <3>2. u[i] = e.buf[p - 1]
      BY <1>2, <2>2, <3>1
    <3>3. CASE i > x
      <4>1. p \in (last + 1)..k
        BY <2>3, <3>1, <3>3
      <4> QED
        BY <1>14, <3>2, <3>3, <4>1
    <3>4. CASE ~(i > x)
      <4>1. p \in (at + 1)..last
        BY <1>14, <2>3, <3>1, <3>4
      <4> QED
        BY <1>14, <3>2, <3>4, <4>1
    <3> QED
      BY <3>3, <3>4
  <2>5. \E y \in 0..Len(u) : \A i \in 1..Len(u) : (u[i] = Space) = (i > y)
    BY <2>2, <2>4
  <2> QED
    BY <2>1, <2>5 DEF Editor!IsWord
<1>16. at > 0 => s[at] = Space /\ at < k /\ s[at + 1] # Space
  <2> SUFFICES ASSUME at > 0 PROVE s[at] = Space /\ at < k /\ s[at + 1] # Space
    OBVIOUS
  <2>1. last > 0 /\ at # last
    BY <1>14
  <2>2. at \in 1..k /\ at < last
    BY <1>14, <2>1
  <2>3. at + 1 \in 1..k /\ at + 1 \in (at + 1)..last /\ at < k
    BY <1>14, <2>2
  <2> QED
    BY <1>2, <1>14, <2>2, <2>3
<1>17. at \in {n \in 0..Len(s) : /\ Editor!IsWord(SubSeq(s, n + 1, Len(s)))
                                 /\ n > 0 => s[n] = Space /\ n < Len(s) /\ s[n + 1] # Space}
  BY <1>2, <1>15, <1>16
<1> QED
  BY <1>2, <1>3, <1>8, <1>13, <1>17 DEF Editor!WordOff

LEMMA SwappedSides ==
  ASSUME NEW e, Line(e), e.pos > 0, e.pos < e.len
  PROVE  <<LeftOf(Transposed(e)), RightOf(Transposed(e))>> \in Editor!Swapped(LeftOf(e), RightOf(e))
<1>1. PICK s \in Seq(Chars), t \in Seq(Chars), k \in Nat, m \in Nat : Split(e, s, t, k, m)
  BY SidesOf
<1>2. /\ s = LeftOf(e) /\ t = RightOf(e) /\ Len(s) = k /\ Len(t) = m
      /\ e.pos = k /\ e.len = k + m /\ s # <<>> /\ t # <<>> /\ k > 0 /\ m > 0
      /\ \A i \in 1..k : s[i] = e.buf[i - 1]
      /\ \A i \in 1..m : t[i] = e.buf[k + i - 1]
  BY <1>1 DEF Split
<1>3. PICK new : new = Transposed(e)
  OBVIOUS
<1>4. Line(new) /\ new.pos = (IF m = 1 THEN k ELSE k + 1) /\ new.len = k + m
  <2>1. k # k + m - 1 <=> m # 1
    OBVIOUS
  <2>2. Becomes(e, new, IF e.pos # e.len - 1 THEN e.pos + 1 ELSE e.pos, e.len)
    BY <1>3, TransposedIs
  <2> QED
    BY <1>2, <2>1, <2>2 DEF Becomes
<1>5. \A i \in 0..(k + m - 1) : new.buf[i] = IF i = k - 1 THEN e.buf[k] ELSE IF i = k THEN e.buf[k - 1] ELSE e.buf[i]
  <2>1. \A i \in 0..(e.len - 1) : new.buf[i] =
          IF i = e.pos - 1 THEN e.buf[e.pos] ELSE IF i = e.pos THEN e.buf[e.pos - 1] ELSE e.buf[i]
    BY <1>3, TransposedIs, ZenonT(30)
  <2>2. e.len - 1 = k + m - 1
    BY <1>2
  <2> QED
    BY <1>2, <2>1, <2>2
<1>6. PICK f \in Seq(Chars), c \in Chars, d \in Chars : f = Front(s) /\ c = Last(s) /\ d = Head(t)
  BY <1>2, EndsAre
<1>7. Editor!Front(s) = f /\ Editor!Last(s) = c
  BY <1>2, <1>6, EndsAre
<1>8. c = e.buf[k - 1] /\ d = e.buf[k]
  <2>1. c = s[k] /\ d = t[1]
    BY <1>2, <1>6, EndsAre
  <2>2. k \in 1..k /\ 1 \in 1..m /\ k + 1 - 1 = k
    BY <1>2
  <2> QED
    BY <1>2, <2>1, <2>2
<1>9. Len(f) = k - 1 /\ \A i \in 1..(k - 1) : f[i] = s[i]
  <2>1. Len(s) = k /\ s # <<>>
    BY <1>2
  <2>2. Len(Front(s)) = Len(s) - 1 /\ \A i \in 1..(Len(s) - 1) : Front(s)[i] = s[i]
    BY <2>1, EndsAre, ZenonT(30)
  <2> QED
    BY <1>6, <2>1, <2>2
<1>10. PICK w \in Seq(Chars) : w = Tail(t)
  BY <1>2, EndsAre
<1>11. Len(w) = m - 1 /\ \A i \in 1..(m - 1) : w[i] = t[i + 1]
  <2>1. Len(t) = m /\ t # <<>>
    BY <1>2
  <2>2. Len(Tail(t)) = Len(t) - 1 /\ \A i \in 1..(Len(t) - 1) : Tail(t)[i] = t[i + 1]
    BY <2>1, EndsAre, ZenonT(30)
  <2> QED
    BY <1>10, <2>1, <2>2
<1>12. \A i \in 1..(k - 1) : f[i] = new.buf[i - 1]
  <2> SUFFICES ASSUME NEW i \in 1..(k - 1) PROVE f[i] = new.buf[i - 1]
    OBVIOUS
  <2>1. i \in 1..k /\ i - 1 \in 0..(k + m - 1) /\ i - 1 # k - 1 /\ i - 1 # k
    BY <1>2
  <2> QED
    BY <1>2, <1>5, <1>9, <2>1
<1>13. new.buf[k - 1] = d /\ new.buf[k] = c
  <2>1. k - 1 \in 0..(k + m - 1) /\ k \in 0..(k + m - 1) /\ k # k - 1
    BY <1>2
  <2> QED
    BY <1>5, <1>8, <2>1
<1>14. CASE m = 1
  <2>1. PICK v \in Seq(Chars) : v = Append(f, d)
    BY AppendedIs
  <2>2. Len(v) = k /\ v[k] = d /\ \A i \in 1..(k - 1) : v[i] = f[i]
    <3>1. Len(f) + 1 = k
      BY <1>2, <1>9
    <3>2. Len(v) = Len(f) + 1 /\ v[Len(f) + 1] = d /\ \A i \in 1..Len(f) : v[i] = f[i]
      BY <2>1, AppendedIs
    <3> QED
      BY <1>9, <3>1, <3>2
  <2>3. \A i \in 1..k : v[i] = new.buf[i - 1]
    <3> SUFFICES ASSUME NEW i \in 1..k PROVE v[i] = new.buf[i - 1]
      OBVIOUS
    <3>1. CASE i = k
      BY <1>13, <2>2, <3>1
    <3>2. CASE i # k
      <4>1. i \in 1..(k - 1)
        BY <3>2
      <4> QED
        BY <1>12, <2>2, <4>1
    <3> QED
      BY <3>1, <3>2
  <2>4. PICK u \in Seq(Chars) : u = <<c>>
    <3>1. <<c>> \in Seq(Chars)
      OBVIOUS
    <3> QED
      BY <3>1
  <2>5. Len(u) = 1 /\ u[1] = c
    BY <2>4
  <2>6. \A i \in 1..m : u[i] = new.buf[k + i - 1]
    <3> SUFFICES ASSUME NEW i \in 1..m PROVE u[i] = new.buf[k + i - 1]
      OBVIOUS
    <3>1. i = 1 /\ k + i - 1 = k
      BY <1>14
    <3> QED
      BY <1>13, <2>5, <3>1
  <2>7. Joined(new, v, u, k, m)
    BY <1>4, <1>14, <2>2, <2>3, <2>5, <2>6 DEF Joined
  <2>8. LeftOf(new) = v /\ RightOf(new) = u
    BY <2>7, SidesFrom
  <2>9. Len(t) = 1
    BY <1>2, <1>14
  <2> QED
    BY <1>2, <1>3, <1>6, <1>7, <2>1, <2>4, <2>8, <2>9 DEF Editor!Swapped
<1>15. CASE m # 1
  <2>1. PICK p \in Seq(Chars) : p = <<d, c>>
    <3>1. <<d, c>> \in Seq(Chars)
      OBVIOUS
    <3> QED
      BY <3>1
  <2>2. Len(p) = 2 /\ p[1] = d /\ p[2] = c
    BY <2>1
  <2>3. PICK v \in Seq(Chars) : v = f \o p
    BY ConcatIs
  <2>4. Len(v) = k + 1 /\ \A i \in 1..(k + 1) : v[i] = IF i <= k - 1 THEN f[i] ELSE p[i - (k - 1)]
    <3>1. Len(f) + Len(p) = k + 1
      BY <1>2, <1>9, <2>2
    <3>2. Len(v) = Len(f) + Len(p) /\ \A i \in 1..(Len(f) + Len(p)) : v[i] = IF i <= Len(f) THEN f[i] ELSE p[i - Len(f)]
      BY <2>3, ConcatIs
    <3> QED
      BY <1>9, <3>1, <3>2
  <2>5. PICK j \in Nat, o \in Nat : j = k + 1 /\ o = m - 1 /\ j + o = k + m
    BY <1>2
  <2>6. \A i \in 1..j : v[i] = new.buf[i - 1]
    <3> SUFFICES ASSUME NEW i \in 1..j PROVE v[i] = new.buf[i - 1]
      OBVIOUS
    <3>1. CASE i = k
      <4>1. ~(k <= k - 1) /\ k - (k - 1) = 1 /\ k \in 1..(k + 1)
        BY <1>2
      <4> QED
        BY <1>13, <2>2, <2>4, <3>1, <4>1
    <3>2. CASE i = k + 1
      <4>1. ~(k + 1 <= k - 1) /\ (k + 1) - (k - 1) = 2 /\ k + 1 \in 1..(k + 1) /\ k + 1 - 1 = k
        BY <1>2
      <4> QED
        BY <1>13, <2>2, <2>4, <3>2, <4>1
    <3>3. CASE i # k /\ i # k + 1
      <4>1. i \in 1..(k - 1) /\ i <= k - 1 /\ i \in 1..(k + 1)
        BY <2>5, <3>3
      <4> QED
        BY <1>12, <2>4, <4>1
    <3> QED
      BY <3>1, <3>2, <3>3
  <2>7. \A i \in 1..o : w[i] = new.buf[j + i - 1]
    <3> SUFFICES ASSUME NEW i \in 1..o PROVE w[i] = new.buf[j + i - 1]
      OBVIOUS
    <3>1. i + 1 \in 1..m /\ i \in 1..(m - 1)
      BY <2>5
    <3>2. PICK q \in 0..(k + m - 1) : q = j + i - 1 /\ q = k + (i + 1) - 1 /\ q # k /\ q # k - 1
      BY <2>5
    <3>3. w[i] = e.buf[q]
      BY <1>2, <1>11, <3>1, <3>2
    <3> QED
      BY <1>5, <3>2, <3>3
  <2>8. Joined(new, v, w, j, o)
    BY <1>4, <1>11, <1>15, <2>4, <2>5, <2>6, <2>7 DEF Joined
  <2>9. LeftOf(new) = v /\ RightOf(new) = w
    BY <2>8, SidesFrom
  <2>10. Len(t) # 1
    BY <1>2, <1>15
  <2> QED
    BY <1>2, <1>3, <1>6, <1>7, <1>10, <2>1, <2>3, <2>9, <2>10 DEF Editor!Swapped
<1> QED
  BY <1>14, <1>15

(* ---- steps that edit ---------------------------------------------------------- *)
LineOf(e) == <<LeftOf(e), RightOf(e)>>

(* Which completion is shown instead of the line, 0 for none.              *)
Choice(e) == IF Shows(e) THEN e.completion_idx + 1 ELSE 0

LEMMA NoChoice ==
  ASSUME ~l'.in_completion
  PROVE  (IF Shows(l) THEN l.completion_idx + 1 ELSE 0)' = 0
BY DEF Shows

(* What completion leaves is the line, or the candidate that was shown.    *)
LEMMA NowIsLine ==
  ASSUME LineInv, CompletionsFit
  PROVE  LeftOf(Now) = Editor!Before /\ RightOf(Now) = Editor!Behind
<1>1. Line(l) /\ l \in States(Buffers) /\ l.completion_idx \in Nat
  BY DEF LineInv, Line, States
<1>2. SameLine(Now, IF l.in_completion THEN Chosen(l) ELSE l)
  BY HereCompleted DEF Now
<1>3. /\ Editor!Before = IF Choice(l) = 0 THEN LeftOf(l) ELSE Completions(LeftOf(l) \o RightOf(l))[Choice(l)]
      /\ Editor!Behind = IF Choice(l) = 0 THEN RightOf(l) ELSE <<>>
  BY DEF Editor!Before, Editor!Behind, Choice, LeftOf, RightOf
<1>4. CASE Shows(l)
  <2>1. l.in_completion
    BY <1>4 DEF Shows
  <2>2. Choice(l) = l.completion_idx + 1 /\ Choice(l) # 0
    BY <1>1, <1>4 DEF Choice
  <2>3. CString(l) = LeftOf(l) \o RightOf(l)
    BY <1>1, TextIs, SidesAre
  <2>4. PICK c : c = Candidate(l) /\ c = Completions(LeftOf(l) \o RightOf(l))[Choice(l)]
    BY <2>2, <2>3 DEF Candidate
  <2>5. PICK d : d = Chosen(l)
    OBVIOUS
  <2>6. Line(d) /\ Text(d) = c /\ d.pos = d.len
    BY <1>1, <1>4, <2>4, <2>5, ChosenLine
  <2>7. LeftOf(d) = c /\ RightOf(d) = <<>>
    BY <2>6, OneSide
  <2>8. Now.buf = d.buf /\ Now.pos = d.pos /\ Now.len = d.len
    BY <1>2, <2>1, <2>5 DEF SameLine
  <2>9. LeftOf(Now) = c /\ RightOf(Now) = <<>>
    BY <2>7, <2>8, SameSides
  <2> QED
    BY <1>3, <2>2, <2>4, <2>9
<1>5. CASE ~Shows(l)
  <2>1. Now.buf = l.buf /\ Now.pos = l.pos /\ Now.len = l.len
    BY <1>1, <1>2, <1>5, ChosenLine DEF SameLine
  <2>2. LeftOf(Now) = LeftOf(l) /\ RightOf(Now) = RightOf(l)
    BY <2>1, SameSides
  <2> QED
    BY <1>3, <1>5, <2>2 DEF Choice
<1> QED
  BY <1>4, <1>5

(* A key that makes of the line what is in K, or nothing.                  *)
Edited(K) ==
  /\ phase = "edit" /\ UNCHANGED <<history, history_max_len, settings, stdin, phase>>
  /\ l'.history_index = l.history_index /\ ~l'.in_completion
  /\ LineOf(l') \in IF K = {} THEN {LineOf(Now)} ELSE K

LEMMA EditedEdits ==
  ASSUME LineInv, CompletionsFit, NEW K, Edited(K)
  PROVE  Editor!Edit(K)
<1>1. /\ phase = "edit" /\ UNCHANGED <<history, history_max_len, phase>> /\ l'.history_index = l.history_index
      /\ ~l'.in_completion
  BY DEF Edited
<1>2. LineOf(Now) = <<Editor!Before, Editor!Behind>>
  BY NowIsLine DEF LineOf
<1>3. <<SubSeq(Text(l), 1, l.pos)', SubSeq(Text(l), l.pos + 1, l.len)'>> \in IF K = {} THEN {LineOf(Now)} ELSE K
  BY DEF Edited, LineOf, LeftOf, RightOf, Text, Bytes
<1> QED
  BY <1>1, <1>2, <1>3, NoChoice DEF Editor!Edit

LEMMA PressedEdits ==
  ASSUME LineInv, CompletionsFit, NEW moved \in BOOLEAN, NEW d, Pressed(moved, d), NEW K,
         moved => Line(d) /\ d.history_index = Now.history_index /\ ~d.in_completion /\ LineOf(d) \in K,
         ~moved => K = {} \/ LineOf(Now) \in K
  PROVE  Editor!Edit(K)
<1>1. settings \in Settings /\ Completed(Here) = [l |-> Completed(Here).l, t |-> Completed(Here).t]
  BY CompletedShape DEF LineInv
<1>2. Now.history_index = l.history_index /\ ~Now.in_completion
  BY NowIs
<1>3. phase = "edit" /\ UNCHANGED <<history, history_max_len, settings, stdin, phase>>
  BY DEF Pressed
<1>4. CASE moved
  <2>1. PICK x : x = Completed(Here)
    OBVIOUS
  <2>2. l' = Redrawn(x, d).l
    BY <1>4, <2>1 DEF Pressed
  <2>3. SameLine(l', d)
    BY <1>1, <1>4, <2>1, <2>2, RedrawnIs
  <2>4. LineOf(l') = LineOf(d) /\ l'.history_index = d.history_index /\ ~l'.in_completion
    BY <1>4, <2>3, SameSides DEF SameLine, LineOf
  <2> QED
    BY <1>2, <1>3, <1>4, <2>4, EditedEdits DEF Edited
<1>5. CASE ~moved
  <2>1. l' = Now
    BY <1>5 DEF Pressed, Now
  <2>2. LineOf(l') \in IF K = {} THEN {LineOf(Now)} ELSE K
    BY <1>5, <2>1
  <2> QED
    BY <1>2, <1>3, <2>1, <2>2, EditedEdits DEF Edited
<1> QED
  BY <1>4, <1>5

(* A key that moves or takes away nothing has nothing to move or take.     *)
LEMMA NothingThere ==
  ASSUME NEW e, Line(e)
  PROVE  /\ e.pos = 0 => /\ Editor!LeftOne(LeftOf(e), RightOf(e)) = {} /\ Editor!Backspaced(LeftOf(e), RightOf(e)) = {}
                         /\ Editor!Swapped(LeftOf(e), RightOf(e)) = {}
                         /\ LineOf(e) \in Editor!Home(LeftOf(e), RightOf(e))
         /\ e.pos = e.len => /\ Editor!RightOne(LeftOf(e), RightOf(e)) = {} /\ Editor!Deleted(LeftOf(e), RightOf(e)) = {}
                             /\ Editor!Swapped(LeftOf(e), RightOf(e)) = {}
                             /\ LineOf(e) \in Editor!AtEnd(LeftOf(e), RightOf(e))
<1>1. PICK s, t : s = LeftOf(e) /\ t = RightOf(e)
  OBVIOUS
<1>2. s \o t = Text(e)
  BY <1>1, SidesAre
<1>3. ASSUME e.pos = 0 PROVE s = <<>> /\ t = Text(e)
  BY <1>1, <1>3, OneSide
<1>4. ASSUME e.pos = e.len PROVE s = Text(e) /\ t = <<>>
  BY <1>1, <1>4, OneSide
<1>5. ASSUME e.pos = 0 PROVE <<s, t>> \in Editor!Home(s, t)
  BY <1>2, <1>3, <1>5 DEF Editor!Home
<1>6. ASSUME e.pos = e.len PROVE <<s, t>> \in Editor!AtEnd(s, t)
  BY <1>2, <1>4, <1>6 DEF Editor!AtEnd
<1>7. ASSUME s = <<>> PROVE Editor!LeftOne(s, t) = {} /\ Editor!Backspaced(s, t) = {} /\ Editor!Swapped(s, t) = {}
  BY <1>7 DEF Editor!LeftOne, Editor!Backspaced, Editor!Swapped
<1>8. ASSUME t = <<>> PROVE Editor!RightOne(s, t) = {} /\ Editor!Deleted(s, t) = {} /\ Editor!Swapped(s, t) = {}
  BY <1>8 DEF Editor!RightOne, Editor!Deleted, Editor!Swapped
<1> QED
  BY <1>1, <1>3, <1>4, <1>5, <1>6, <1>7, <1>8 DEF LineOf

(* The keys that edit.                                                     *)
LEMMA KeysEdit ==
  ASSUME LineInv, CompletionsFit
  PROVE  /\ linenoiseEditMoveLeft => Editor!Edit(Editor!LeftOne(LeftOf(Now), RightOf(Now)))
         /\ linenoiseEditMoveRight => Editor!Edit(Editor!RightOne(LeftOf(Now), RightOf(Now)))
         /\ linenoiseEditMoveHome => Editor!Edit(Editor!Home(LeftOf(Now), RightOf(Now)))
         /\ linenoiseEditMoveEnd => Editor!Edit(Editor!AtEnd(LeftOf(Now), RightOf(Now)))
         /\ linenoiseEditDelete => Editor!Edit(Editor!Deleted(LeftOf(Now), RightOf(Now)))
         /\ linenoiseEditBackspace => Editor!Edit(Editor!Backspaced(LeftOf(Now), RightOf(Now)))
         /\ linenoiseEditDeletePrevWord => Editor!Edit(Editor!WordOff(LeftOf(Now), RightOf(Now)))
         /\ Transpose => Editor!Edit(Editor!Swapped(LeftOf(Now), RightOf(Now)))
         /\ DeleteLine => Editor!Edit(Editor!Cleared(LeftOf(Now), RightOf(Now)))
         /\ DeleteToEnd => Editor!Edit(Editor!CutOff(LeftOf(Now), RightOf(Now)))
<1>1. PICK e : e = Now
  OBVIOUS
<1>2. Line(e) /\ ~e.in_completion /\ e.pos \in Nat /\ e.len \in Nat /\ e.pos <= e.len
  BY <1>1, NowIs, LineNumbers
<1>3. ASSUME linenoiseEditMoveLeft PROVE Editor!Edit(Editor!LeftOne(LeftOf(e), RightOf(e)))
  <2>1. e.pos > 0 => /\ Line(MovedLeft(e)) /\ MovedLeft(e).history_index = e.history_index /\ ~MovedLeft(e).in_completion
                     /\ LineOf(MovedLeft(e)) \in Editor!LeftOne(LeftOf(e), RightOf(e))
    BY <1>2, MovesKeep, LeftOneSides DEF Becomes, LineOf
  <2>2. Pressed(e.pos > 0, MovedLeft(e)) /\ (e.pos > 0) \in BOOLEAN
    BY <1>1, <1>3, KeysAre
  <2>3. ~(e.pos > 0) => Editor!LeftOne(LeftOf(e), RightOf(e)) = {}
    <3>1. ~(e.pos > 0) => e.pos = 0 \/ e.pos = e.len
      BY <1>2
    <3> QED
      BY <1>2, <3>1, NothingThere
  <2> QED
    BY <1>1, <1>2, <2>1, <2>2, <2>3, PressedEdits
<1>4. ASSUME linenoiseEditMoveRight PROVE Editor!Edit(Editor!RightOne(LeftOf(e), RightOf(e)))
  <2>1. e.pos # e.len => /\ Line(MovedRight(e)) /\ MovedRight(e).history_index = e.history_index /\ ~MovedRight(e).in_completion
                         /\ LineOf(MovedRight(e)) \in Editor!RightOne(LeftOf(e), RightOf(e))
    BY <1>2, MovesKeep, RightOneSides DEF Becomes, LineOf
  <2>2. Pressed(e.pos # e.len, MovedRight(e)) /\ (e.pos # e.len) \in BOOLEAN
    BY <1>1, <1>4, KeysAre
  <2> QED
    BY <1>1, <1>2, <2>1, <2>2, PressedEdits, NothingThere
<1>5. ASSUME linenoiseEditMoveHome PROVE Editor!Edit(Editor!Home(LeftOf(e), RightOf(e)))
  <2>1. /\ Line(MovedHome(e)) /\ MovedHome(e).history_index = e.history_index /\ ~MovedHome(e).in_completion
        /\ LineOf(MovedHome(e)) \in Editor!Home(LeftOf(e), RightOf(e))
    BY <1>2, MovesKeep, HomeSides DEF Becomes, LineOf
  <2>2. Pressed(e.pos # 0, MovedHome(e)) /\ (e.pos # 0) \in BOOLEAN
    BY <1>1, <1>5, KeysAre
  <2> QED
    BY <1>1, <1>2, <2>1, <2>2, PressedEdits, NothingThere
<1>6. ASSUME linenoiseEditMoveEnd PROVE Editor!Edit(Editor!AtEnd(LeftOf(e), RightOf(e)))
  <2>1. /\ Line(MovedEnd(e)) /\ MovedEnd(e).history_index = e.history_index /\ ~MovedEnd(e).in_completion
        /\ LineOf(MovedEnd(e)) \in Editor!AtEnd(LeftOf(e), RightOf(e))
    BY <1>2, MovesKeep, HomeSides DEF Becomes, LineOf
  <2>2. Pressed(e.pos # e.len, MovedEnd(e)) /\ (e.pos # e.len) \in BOOLEAN
    BY <1>1, <1>6, KeysAre
  <2> QED
    BY <1>1, <1>2, <2>1, <2>2, PressedEdits, NothingThere
<1>7. ASSUME linenoiseEditDelete PROVE Editor!Edit(Editor!Deleted(LeftOf(e), RightOf(e)))
  <2>1. e.pos < e.len => /\ Line(Deleted(e)) /\ Deleted(e).history_index = e.history_index /\ ~Deleted(e).in_completion
                         /\ LineOf(Deleted(e)) \in Editor!Deleted(LeftOf(e), RightOf(e))
    BY <1>2, DeletedIs, DeletedSides DEF Becomes, LineOf
  <2>2. Pressed(e.pos < e.len, Deleted(e)) /\ (e.pos < e.len) \in BOOLEAN
    BY <1>1, <1>7, KeysAre
  <2>3. ~(e.pos < e.len) => Editor!Deleted(LeftOf(e), RightOf(e)) = {}
    <3>1. ~(e.pos < e.len) => e.pos = 0 \/ e.pos = e.len
      BY <1>2
    <3> QED
      BY <1>2, <3>1, NothingThere
  <2> QED
    BY <1>1, <1>2, <2>1, <2>2, <2>3, PressedEdits
<1>8. ASSUME linenoiseEditBackspace PROVE Editor!Edit(Editor!Backspaced(LeftOf(e), RightOf(e)))
  <2>1. e.pos > 0 => /\ Line(Backspaced(e)) /\ Backspaced(e).history_index = e.history_index /\ ~Backspaced(e).in_completion
                     /\ LineOf(Backspaced(e)) \in Editor!Backspaced(LeftOf(e), RightOf(e))
    BY <1>2, BackspacedIs, BackspacedSides DEF Becomes, LineOf
  <2>2. Pressed(e.pos > 0, Backspaced(e)) /\ (e.pos > 0) \in BOOLEAN
    BY <1>1, <1>8, KeysAre
  <2>3. ~(e.pos > 0) => Editor!Backspaced(LeftOf(e), RightOf(e)) = {}
    <3>1. ~(e.pos > 0) => e.pos = 0 \/ e.pos = e.len
      BY <1>2
    <3> QED
      BY <1>2, <3>1, NothingThere
  <2> QED
    BY <1>1, <1>2, <2>1, <2>2, <2>3, PressedEdits
<1>9. ASSUME linenoiseEditDeletePrevWord PROVE Editor!Edit(Editor!WordOff(LeftOf(e), RightOf(e)))
  <2>1. /\ Line(DeletedWord(e)) /\ DeletedWord(e).history_index = e.history_index /\ ~DeletedWord(e).in_completion
        /\ LineOf(DeletedWord(e)) \in Editor!WordOff(LeftOf(e), RightOf(e))
    BY <1>2, DeletedWordIs, WordSides DEF Becomes, LineOf
  <2>2. Pressed(TRUE, DeletedWord(e))
    BY <1>1, <1>9, KeysAre
  <2> QED
    BY <1>1, <1>2, <2>1, <2>2, PressedEdits, NothingThere
<1>10. ASSUME Transpose PROVE Editor!Edit(Editor!Swapped(LeftOf(e), RightOf(e)))
  <2>1. e.pos > 0 /\ e.pos < e.len => /\ Line(Transposed(e)) /\ Transposed(e).history_index = e.history_index /\ ~Transposed(e).in_completion
                                      /\ LineOf(Transposed(e)) \in Editor!Swapped(LeftOf(e), RightOf(e))
    BY <1>2, TransposedIs, SwappedSides DEF Becomes, LineOf
  <2>2. Pressed(e.pos > 0 /\ e.pos < e.len, Transposed(e)) /\ (e.pos > 0 /\ e.pos < e.len) \in BOOLEAN
    BY <1>1, <1>10, KeysAre
  <2>3. ~(e.pos > 0 /\ e.pos < e.len) => Editor!Swapped(LeftOf(e), RightOf(e)) = {}
    <3>1. ~(e.pos > 0 /\ e.pos < e.len) => e.pos = 0 \/ e.pos = e.len
      BY <1>2
    <3> QED
      BY <1>2, <3>1, NothingThere
  <2> QED
    BY <1>1, <1>2, <2>1, <2>2, <2>3, PressedEdits
<1>11. ASSUME DeleteLine PROVE Editor!Edit(Editor!Cleared(LeftOf(e), RightOf(e)))
  <2>1. /\ Line(LineDeleted(e)) /\ LineDeleted(e).history_index = e.history_index /\ ~LineDeleted(e).in_completion
        /\ LineOf(LineDeleted(e)) \in Editor!Cleared(LeftOf(e), RightOf(e))
    BY <1>2, LineDeletedIs, CutSides DEF Becomes, LineOf
  <2>2. Pressed(TRUE, LineDeleted(e))
    BY <1>1, <1>11, KeysAre
  <2> QED
    BY <1>1, <1>2, <2>1, <2>2, PressedEdits, NothingThere
<1>12. ASSUME DeleteToEnd PROVE Editor!Edit(Editor!CutOff(LeftOf(e), RightOf(e)))
  <2>1. /\ Line(EndDeleted(e)) /\ EndDeleted(e).history_index = e.history_index /\ ~EndDeleted(e).in_completion
        /\ LineOf(EndDeleted(e)) \in Editor!CutOff(LeftOf(e), RightOf(e))
    BY <1>2, EndDeletedIs, CutSides DEF Becomes, LineOf
  <2>2. Pressed(TRUE, EndDeleted(e))
    BY <1>1, <1>12, KeysAre
  <2> QED
    BY <1>1, <1>2, <2>1, <2>2, PressedEdits, NothingThere
<1> QED
  BY <1>1, <1>3, <1>4, <1>5, <1>6, <1>7, <1>8, <1>9, <1>10, <1>11, <1>12

LEMMA InsertEdits ==
  ASSUME LineInv, CompletionsFit, NEW c \in settings.typed, linenoiseEditInsert(c)
  PROVE  Editor!Edit(Editor!Typed(c, LeftOf(Now), RightOf(Now)))
<1>1. PICK e : e = Now
  OBVIOUS
<1>2. Line(e) /\ e.history_index = l.history_index /\ ~e.in_completion /\ c \in Chars
  BY <1>1, NowIs, SettingsNumbers DEF LineInv
<1>3. SameLine(l', IF e.len < BufLen THEN Inserted(e, c) ELSE e)
  BY <1>1, InsertKeeps
<1>4. phase = "edit" /\ UNCHANGED <<history, history_max_len, settings, stdin, phase>>
  BY DEF linenoiseEditInsert
<1>5. PICK K : K = Editor!Typed(c, LeftOf(e), RightOf(e))
  OBVIOUS
<1>6. CASE e.len < BufLen
  <2>1. /\ LineOf(Inserted(e, c)) \in K
        /\ Inserted(e, c).history_index = e.history_index /\ ~Inserted(e, c).in_completion
    BY <1>2, <1>5, <1>6, TypedSides, InsertedIs DEF LineOf, Becomes
  <2>2. LineOf(l') = LineOf(Inserted(e, c)) /\ l'.history_index = l.history_index /\ ~l'.in_completion
    BY <1>2, <1>3, <1>6, <2>1, SameSides DEF SameLine, LineOf
  <2>3. Edited(K)
    BY <1>4, <2>1, <2>2 DEF Edited
  <2> QED
    BY <1>1, <1>5, <2>3, EditedEdits
<1>7. CASE ~(e.len < BufLen)
  <2>1. LineOf(l') = LineOf(e) /\ l'.history_index = l.history_index /\ ~l'.in_completion
    BY <1>2, <1>3, <1>7, SameSides DEF SameLine, LineOf
  <2>2. K = {}
    <3>1. PICK s \in Seq(Chars), t \in Seq(Chars), k \in Nat, m \in Nat : Split(e, s, t, k, m)
      BY <1>2, SidesOf
    <3>2. s = LeftOf(e) /\ t = RightOf(e) /\ Len(s) + Len(t) = e.len
      BY <3>1 DEF Split
    <3> QED
      BY <1>5, <1>7, <3>2 DEF Editor!Typed
  <2>3. Edited(K)
    BY <1>1, <1>4, <2>1, <2>2 DEF Edited
  <2> QED
    BY <1>1, <1>5, <2>3, EditedEdits
<1> QED
  BY <1>6, <1>7

(* A clear screen has the line that was there.                             *)
LEMMA ClearEdits ==
  ASSUME LineInv, CompletionsFit, ClearScreen
  PROVE  Editor!Edit({})
<1>1. SameLine(l', Now) /\ phase = "edit" /\ UNCHANGED <<history, history_max_len, settings, stdin, phase>>
  BY ClearKeeps DEF ClearScreen
<1>2. LineOf(l') = LineOf(Now) /\ l'.history_index = l.history_index /\ ~l'.in_completion
  BY <1>1, NowIs, SameSides DEF SameLine, LineOf
<1>3. Edited({})
  BY <1>1, <1>2 DEF Edited
<1> QED
  BY <1>3, EditedEdits

(* ---- the history -------------------------------------------------------- *)
LEMMA NowConcat ==
  ASSUME LineInv, CompletionsFit
  PROVE  Editor!Before \o Editor!Behind = CString(Now) /\ CString(Now) = Text(Now)
<1>1. CString(Now) = Text(Now) /\ LeftOf(Now) \o RightOf(Now) = Text(Now)
  BY NowIs, TextIs, SidesAre
<1> QED
  BY <1>1, NowIsLine

(* What is recalled is the line of the history, or what the buffer takes.  *)
LEMMA RecalledSides ==
  ASSUME NEW e, Line(e), NEW line \in Seq(Chars)
  PROVE  /\ LeftOf(Recalled(e, line)) = SubSeq(line, 1, IF Len(line) < BufLen - 1 THEN Len(line) ELSE BufLen - 1)
         /\ RightOf(Recalled(e, line)) = <<>>
<1>1. PICK d : d = Recalled(e, line)
  OBVIOUS
<1>2. PICK n \in Nat : /\ n = Min2(Len(line), BufLen - 1) /\ Becomes(e, d, n, n)
                       /\ \A i \in 0..(n - 1) : d.buf[i] = line[i + 1]
  BY <1>1, RecalledIs
<1>3. Line(d) /\ d.pos = n /\ d.len = n
  BY <1>2 DEF Becomes
<1>4. LeftOf(d) = Text(d) /\ RightOf(d) = <<>>
  BY <1>3, OneSide
<1>5. Text(d) \in Seq(Chars) /\ Len(Text(d)) = n /\ \A i \in 1..n : Text(d)[i] = d.buf[i - 1]
  BY <1>3, TextIs
<1>6. n <= Len(line) /\ Len(line) \in Nat /\ n = IF Len(line) < BufLen - 1 THEN Len(line) ELSE BufLen - 1
  <2>1. Len(line) \in Nat /\ BufLen - 1 \in Nat
    BY LineEditAssumption
  <2> QED
    BY <1>2, <2>1 DEF Min2
<1>7. PICK s : s = SubSeq(line, 1, n)
  OBVIOUS
<1>8. s \in Seq(Chars) /\ Len(s) = n /\ \A i \in 1..n : s[i] = line[i]
  <2>1. 1 \in 1..(Len(line) + 1) /\ n \in (1 - 1)..Len(line) /\ n - 1 + 1 = n /\ \A i \in 1..n : 1 + i - 1 = i
    BY <1>6
  <2> QED
    BY <1>7, <2>1, SubSeqIs
<1>9. \A i \in 1..n : s[i] = Text(d)[i]
  <2> SUFFICES ASSUME NEW i \in 1..n PROVE s[i] = Text(d)[i]
    OBVIOUS
  <2>1. i - 1 \in 0..(n - 1) /\ (i - 1) + 1 = i
    OBVIOUS
  <2>2. d.buf[i - 1] = line[i]
    BY <1>2, <2>1
  <2> QED
    BY <1>5, <1>8, <2>2
<1>10. s = Text(d)
  BY <1>5, <1>8, <1>9, SameSeq
<1> QED
  BY <1>1, <1>4, <1>6, <1>7, <1>10

LEMMA TextLength ==
  ASSUME LineInv, CompletionsFit
  PROVE  Now.len \in Nat /\ (Now.len = 0 <=> Editor!Before \o Editor!Behind = <<>>)
<1>1. Text(Now) \in Seq(Chars) /\ Len(Text(Now)) = Now.len /\ Now.len \in Nat
  BY NowIs, TextIs, LineNumbers
<1>2. Now.len = 0 <=> Text(Now) = <<>>
  BY <1>1
<1> QED
  BY <1>1, <1>2, NowConcat

(* Up and down go through the history as the person who types expects.     *)
LEMMA RecallEdits ==
  ASSUME LineInv, CompletionsFit, NEW step \in {1, -1}, linenoiseEditHistoryNext(step)
  PROVE  Editor!Recall(step) /\ ~l'.in_completion
<1>1. PICK b, c : b = Editor!Before /\ c = Editor!Behind /\ b = LeftOf(Now) /\ c = RightOf(Now) /\ b \o c = CString(Now)
  BY NowIsLine, NowConcat
<1>2. /\ phase = "edit" /\ UNCHANGED <<history_max_len, settings, stdin, phase>>
      /\ Len(history) <= 1 => SameLine(l', Now) /\ UNCHANGED history
      /\ Len(history) > 1 => history' = Stored
      /\ Len(history) > 1 /\ Now.history_index + step \notin 0..(Len(Stored) - 1) => SameLine(l', Now)
      /\ Len(history) > 1 /\ Now.history_index + step \in 0..(Len(Stored) - 1) =>
              SameLine(l', Recalls(step)) /\ l'.history_index = Now.history_index + step
  BY RecallKeeps
<1>3. Line(Now) /\ Now.history_index = l.history_index /\ ~Now.in_completion
  BY NowIs
<1>4. Stored \in Seq(Seq(Chars)) /\ Len(Stored) = Len(history)
  BY StoredIs
<1>5. PICK new : new = Stored /\ new = [history EXCEPT ![Len(history) - l.history_index] = b \o c]
  BY <1>1, <1>3 DEF Stored, Place
<1>6. PICK index \in Int, n \in Nat : index = l.history_index + step /\ n = Len(history)
  BY <1>2 DEF LineInv
<1>7. ASSUME SameLine(l', Now), history' = IF n <= 1 THEN history ELSE new, ~(n > 1 /\ index \in 0..(n - 1))
      PROVE  Editor!Recall(step) /\ ~l'.in_completion
  <2>1. LineOf(l') = LineOf(Now) /\ l'.history_index = l.history_index /\ ~l'.in_completion
    BY <1>3, <1>7, SameSides DEF SameLine, LineOf
  <2>2. SubSeq(Text(l), 1, l.pos)' = b /\ SubSeq(Text(l), l.pos + 1, l.len)' = c
    BY <1>1, <2>1 DEF LineOf, LeftOf, RightOf, Text, Bytes
  <2> QED
    BY <1>1, <1>2, <1>5, <1>6, <1>7, <2>1, <2>2, NoChoice DEF Editor!Recall
<1>8. CASE n > 1 /\ index \in 0..(n - 1)
  <2>1. SameLine(l', Recalls(step)) /\ l'.history_index = index
    BY <1>2, <1>3, <1>4, <1>6, <1>8
  <2>2. n - index \in 1..n
    BY <1>6, <1>8
  <2>3. PICK line \in Seq(Chars) : line = new[n - index]
    <3>1. new \in Seq(Seq(Chars)) /\ Len(new) = n
      BY <1>4, <1>5, <1>6
    <3>2. new[n - index] \in Seq(Chars)
      BY <2>2, <3>1
    <3> QED
      BY <3>2
  <2>4. PICK e : e = [Now EXCEPT !.history_index = index]
    OBVIOUS
  <2>5. Line(e)
    <3>1. e = [buf |-> Now.buf, pos |-> Now.pos, len |-> Now.len, oldpos |-> Now.oldpos,
               oldrows |-> Now.oldrows, history_index |-> index, in_completion |-> Now.in_completion,
               completion_idx |-> Now.completion_idx]
      BY <1>3, <2>4 DEF Line, States
    <3> QED
      BY <1>3, <3>1 DEF Line, States
  <2>6. Recalls(step) = Recalled(e, line)
    BY <1>3, <1>4, <1>5, <1>6, <2>3, <2>4 DEF Recalls
  <2>7. /\ LeftOf(l') = SubSeq(line, 1, IF Len(line) < BufLen - 1 THEN Len(line) ELSE BufLen - 1)
        /\ RightOf(l') = <<>>
    <3>1. LeftOf(l') = LeftOf(Recalled(e, line)) /\ RightOf(l') = RightOf(Recalled(e, line))
      BY <2>1, <2>6, SameSides DEF SameLine
    <3> QED
      BY <2>5, <3>1, RecalledSides
  <2>8. /\ SubSeq(Text(l), 1, l.pos)' = SubSeq(line, 1, IF Len(line) < BufLen - 1 THEN Len(line) ELSE BufLen - 1)
        /\ SubSeq(Text(l), l.pos + 1, l.len)' = <<>>
    BY <2>7 DEF LeftOf, RightOf, Text, Bytes
  <2>9. n - l.history_index - step = n - index
    BY <1>2, <1>6, SMTT(30) DEF LineInv
  <2>10. ~l'.in_completion
    <3>1. PICK k \in Nat : Becomes(e, Recalled(e, line), k, k)
      BY <2>5, RecalledIs
    <3>2. Recalled(e, line).in_completion = Now.in_completion
      <4>1. e.in_completion = Now.in_completion
        BY <1>3, <2>4
      <4> QED
        BY <3>1, <4>1 DEF Becomes
    <3> QED
      BY <1>3, <2>1, <2>6, <3>2 DEF SameLine
  <2>11. history' = new /\ n > 1 /\ ~(n <= 1) /\ Len(history) = n /\ l.history_index + step = index
    BY <1>2, <1>5, <1>6, <1>8
  <2> QED
    BY <1>1, <1>2, <1>5, <1>8, <2>1, <2>3, <2>8, <2>9, <2>10, <2>11, NoChoice DEF Editor!Recall
<1>9. CASE ~(n > 1 /\ index \in 0..(n - 1))
  <2>1. SameLine(l', Now) /\ history' = IF n <= 1 THEN history ELSE new
    BY <1>2, <1>3, <1>4, <1>5, <1>6, <1>9
  <2> QED
    BY <1>7, <1>9, <2>1
<1> QED
  BY <1>8, <1>9
LEMMA KeptIs ==
  ASSUME LineInv, NEW line \in Seq(Chars)
  PROVE  Added(line) = Editor!Kept(line) /\ Added(line) # <<>> /\ Editor!Last(Added(line)) = line
<1>1. history \in Seq(Seq(Chars)) /\ Len(history) \in Nat /\ history_max_len \in Nat /\ Len(history) <= history_max_len
  BY DEF LineInv
<1>2. Added(line) \in Seq(Seq(Chars)) /\ Added(line) # <<>>
  BY AddedIs
<1>3. CASE history # <<>> /\ Last(history) = line
  BY <1>1, <1>2, <1>3 DEF Added, linenoiseHistoryAdd, Last, Editor!Kept, Editor!Last
<1>4. CASE ~(history # <<>> /\ Last(history) = line)
  <2>1. PICK h \in Seq(Seq(Chars)) : h = IF Len(history) = history_max_len THEN Tail(history) ELSE history
    <3>1. history # <<>> => Tail(history) \in Seq(Seq(Chars))
      BY <1>1
    <3>2. Len(history) = history_max_len => history # <<>>
      <4>1. history_max_len # 0
        BY DEF LineInv
      <4> QED
        BY <4>1
    <3> QED
      BY <1>1, <3>1, <3>2
  <2>2. Added(line) = Append(h, line)
    BY <1>4, <2>1 DEF Added, linenoiseHistoryAdd
  <2>3. Len(history) < history_max_len <=> Len(history) # history_max_len
    BY <1>1
  <2>4. Editor!Kept(line) = Append(h, line)
    BY <1>4, <2>1, <2>3 DEF Editor!Kept, Editor!Last, Last
  <2>5. Append(h, line)[Len(Append(h, line))] = line
    OBVIOUS
  <2> QED
    BY <1>2, <2>2, <2>4, <2>5 DEF Editor!Last
<1> QED
  BY <1>3, <1>4

LEMMA FreshSides ==
  LeftOf(Fresh) = <<>> /\ RightOf(Fresh) = <<>> /\ Fresh.history_index = 0 /\ ~Fresh.in_completion
<1>1. Line(Fresh) /\ Fresh.pos = 0 /\ Fresh.len = 0 /\ Fresh.history_index = 0 /\ ~Fresh.in_completion
  BY FreshIs
<1>2. LeftOf(Fresh) = <<>> /\ RightOf(Fresh) = Text(Fresh) /\ LeftOf(Fresh) = Text(Fresh)
  BY <1>1, OneSide
<1> QED
  BY <1>1, <1>2

(* A line that is left is empty for the one who types.                     *)
LEMMA LeftSides ==
  ASSUME l' = Fresh
  PROVE  /\ SubSeq(Text(l), 1, l.pos)' = <<>> /\ SubSeq(Text(l), l.pos + 1, l.len)' = <<>>
         /\ (IF Shows(l) THEN l.completion_idx + 1 ELSE 0)' = 0 /\ l'.history_index = 0
<1>1. SubSeq(Text(l), 1, l.pos)' = <<>> /\ SubSeq(Text(l), l.pos + 1, l.len)' = <<>> /\ l'.history_index = 0
  BY FreshSides DEF LeftOf, RightOf, Text, Bytes
<1>2. ~l'.in_completion
  BY FreshSides
<1> QED
  BY <1>1, <1>2, NoChoice

LEMMA StartEdits ==
  ASSUME LineInv, linenoiseEditStart
  PROVE  Editor!Start
<1>1. phase = "idle" /\ phase' = "edit" /\ l' = Fresh /\ history' = Added(<<>>) /\ history_max_len' = history_max_len
  BY DEF linenoiseEditStart
<1>2. history' = Editor!Kept(<<>>)
  <2>1. <<>> \in Seq(Chars)
    OBVIOUS
  <2> QED
    BY <1>1, <2>1, KeptIs
<1> QED
  BY <1>1, <1>2, LeftSides DEF Editor!Start, Editor!Empty

LEMMA EnterEdits ==
  ASSUME LineInv, CompletionsFit, Enter
  PROVE  Editor!Enter
<1>1. phase = "edit" /\ phase' = "done" /\ history' = Front(history) /\ history_max_len' = history_max_len
  BY DEF Enter
<1>2. LineInv' /\ l'.buf = Now.buf /\ l'.len = Now.len /\ ~l'.in_completion
  BY EnterKeeps
<1>3. Line(l')
  BY <1>2 DEF LineInv
<1>4. LeftOf(l') \o RightOf(l') = Text(l') /\ Text(l') = Text(Now)
  BY <1>2, <1>3, SidesAre DEF Text, Bytes
<1>5. Editor!Before \o Editor!Behind = Text(Now)
  BY NowConcat
<1>6. SubSeq(Text(l), 1, l.pos)' \o SubSeq(Text(l), l.pos + 1, l.len)' = Editor!Before \o Editor!Behind
  BY <1>4, <1>5 DEF LeftOf, RightOf, Text, Bytes
<1>7. Front(history) = Editor!Front(history)
  BY DEF Front, Editor!Front
<1> QED
  BY <1>1, <1>2, <1>6, <1>7, NoChoice DEF Editor!Enter

LEMMA KeepEdits ==
  ASSUME LineInv, read
  PROVE  Editor!Keep
<1>1. phase = "done" /\ phase' = "idle" /\ l' = Fresh /\ history' = Added(CString(l)) /\ history_max_len' = history_max_len
  BY DEF read, Left
<1>2. CString(l) = Text(l) /\ CString(l) \in Seq(Chars) /\ LeftOf(l) \o RightOf(l) = Text(l)
  BY TextIs, SidesAre DEF LineInv
<1>3. history' = Editor!Kept(SubSeq(Text(l), 1, l.pos) \o SubSeq(Text(l), l.pos + 1, l.len))
  BY <1>1, <1>2, KeptIs DEF LeftOf, RightOf
<1> QED
  BY <1>1, <1>3, LeftSides DEF Editor!Keep, Editor!Empty

LEMMA LeaveEdits ==
  ASSUME LineInv, CompletionsFit
  PROVE  /\ CtrlC => Editor!Leave(history)
         /\ EndOfFile => Editor!Before \o Editor!Behind = <<>> /\ Editor!Leave(Editor!Front(history))
<1>1. CtrlC \/ EndOfFile => phase = "edit" /\ phase' = "idle" /\ l' = Fresh /\ history_max_len' = history_max_len
  BY DEF CtrlC, EndOfFile, Left
<1>2. ASSUME CtrlC PROVE Editor!Leave(history)
  BY <1>1, <1>2, LeftSides DEF CtrlC, Editor!Leave, Editor!Empty
<1>3. ASSUME EndOfFile PROVE Editor!Before \o Editor!Behind = <<>> /\ Editor!Leave(Editor!Front(history))
  <2>1. Now.len = 0 /\ history' = Front(history)
    BY <1>3 DEF EndOfFile, Now
  <2>2. Editor!Before \o Editor!Behind = <<>>
    BY <2>1, TextLength
  <2>3. history' = Editor!Front(history)
    BY <2>1 DEF Front, Editor!Front
  <2> QED
    BY <1>1, <1>3, <2>2, <2>3, LeftSides DEF Editor!Leave, Editor!Empty
<1> QED
  BY <1>2, <1>3

(* A program that is between two lines leaves the line as it is.           *)
LEMMA SameLeft ==
  ASSUME l' = l, phase' = phase
  PROVE  /\ SubSeq(Text(l), 1, l.pos)' = SubSeq(Text(l), 1, l.pos)
         /\ SubSeq(Text(l), l.pos + 1, l.len)' = SubSeq(Text(l), l.pos + 1, l.len)
         /\ (IF Shows(l) THEN l.completion_idx + 1 ELSE 0)' = IF Shows(l) THEN l.completion_idx + 1 ELSE 0
BY DEF Text, Bytes, Shows, CString, Strlen

LEMMA SetMaxEdits ==
  ASSUME LineInv, NEW n \in settings.lens, linenoiseHistorySetMaxLen(n)
  PROVE  Editor!SetMax
<1>1. /\ phase = "idle" /\ history_max_len' = n /\ l' = l /\ phase' = phase
      /\ history' = SubSeq(history, Max({0, Len(history) - n}) + 1, Len(history))
  BY DEF linenoiseHistorySetMaxLen
<1>2. n \in Nat \ {0} /\ n \in UNION {s.lens : s \in Settings}
  BY SettingsNumbers DEF LineInv
<1>3. history \in Seq(Seq(Chars)) /\ Len(history) \in Nat
  BY DEF LineInv
<1>4. history' = IF Len(history) <= n THEN history ELSE Editor!Latest(history, n)
  <2>1. PICK m \in Int : m = Len(history) - n
    BY <1>2, <1>3
  <2>2. Max({0, Len(history) - n}) = IF 0 >= m THEN 0 ELSE m
    BY <2>1, MaxIs2
  <2>3. CASE Len(history) <= n
    <3>1. 0 >= m
      BY <1>2, <1>3, <2>1, <2>3
    <3>2. history' = SubSeq(history, 0 + 1, Len(history))
      BY <1>1, <2>2, <3>1
    <3>3. SubSeq(history, 0 + 1, Len(history)) = history
      BY <1>3
    <3> QED
      BY <2>3, <3>2, <3>3
  <2>4. CASE ~(Len(history) <= n)
    <3>1. ~(0 >= m)
      BY <1>2, <1>3, <2>1, <2>4
    <3>2. history' = SubSeq(history, m + 1, Len(history))
      BY <1>1, <2>2, <3>1
    <3> QED
      BY <2>1, <2>4, <3>2 DEF Editor!Latest
  <2> QED
    BY <2>3, <2>4
<1> QED
  BY <1>1, <1>2, <1>4, SameLeft DEF Editor!SetMax

LEMMA ReceiveEdits ==
  ASSUME LineInv, phase = "idle", linenoiseNoTTY \/ UnsupportedTerm
  PROVE  Editor!Receive
<1>1. l' = l /\ phase' = phase /\ history_max_len' = history_max_len
  BY DEF linenoiseNoTTY, UnsupportedTerm
<1>2. PICK line \in Seq(Chars) : history' = Added(line)
  BY NotEditedKeeps
<1>3. history' # <<>> /\ history' = Editor!Kept(Editor!Last(history'))
  BY <1>2, KeptIs
<1> QED
  BY <1>1, <1>3, SameLeft DEF Editor!Receive

(* ---- the file of the history ---------------------------------------------- *)
(* With its end a line is read back in the pieces that were meant.         *)
LEMMA PiecesAre ==
  ASSUME NEW line \in Seq(Chars)
  PROVE  /\ fgets(Append(line, Eol)) = Editor!Pieces(line)
         /\ Editor!Pieces(line) \in Seq(Seq(Chars))
<1>1. PICK s : s = Append(line, Eol)
  OBVIOUS
<1>2. PICK n \in Nat, B \in Nat \ {0} : n = Len(line) /\ B = BufLen
  BY LineEditAssumption
<1>3. Len(s) = n + 1
  BY <1>1, <1>2
<1>4. PICK q \in Nat, r \in 0..(B - 1) : q = n \div B /\ n = B * q + r
  <2>1. n \div B \in Nat /\ n % B \in 0..(B - 1) /\ n = B * (n \div B) + (n % B)
    BY Division
  <2> QED
    BY <2>1
<1>5. (Len(s) + BufLen - 1) \div BufLen = q + 1
  <2>1. PICK a \in Nat : a = n + B /\ a = Len(s) + BufLen - 1
    BY <1>2, <1>3
  <2>2. B * (q + 1) = B * q + B /\ B * (q + 1) \in Int /\ B * q \in Int
    OBVIOUS
  <2>3. a = B * (q + 1) + r
    BY <1>4, <2>1, <2>2
  <2>4. PICK p \in Nat, t \in 0..(B - 1) : p = a \div B /\ a = B * p + t
    BY <2>1, Division
  <2>5. p = q + 1
    <3>1. CASE p < q + 1
      <4>1. B * p <= B * q /\ B * p \in Int
        <5>1. p <= q /\ q - p \in Nat
          BY <3>1
        <5>2. B * (q - p) \in Nat /\ B * (q - p) = B * q - B * p
          BY <5>1
        <5> QED
          BY <2>2, <5>2
      <4> QED
        BY <2>2, <2>3, <2>4, <4>1
    <3>2. CASE p > q + 1
      <4>1. B * p >= B * (q + 1) + B /\ B * p \in Int
        <5>1. p - (q + 1) - 1 \in Nat
          BY <3>2
        <5>2. B * (p - (q + 1) - 1) \in Nat /\ B * (p - (q + 1) - 1) = B * p - B * (q + 1) - B /\ B * p \in Int
          BY <5>1
        <5> QED
          BY <2>2, <5>2
      <4> QED
        BY <2>2, <2>3, <2>4, <4>1
    <3> QED
      BY <3>1, <3>2
  <2> QED
    BY <1>2, <2>1, <2>4, <2>5
<1>6. ASSUME NEW i \in 1..(q + 1)
      PROVE  Cut(SubSeq(s, (i - 1) * BufLen + 1, Min2(i * BufLen, Len(s))))
               = SubSeq(line, (i - 1) * BufLen + 1, IF i * BufLen < Len(line) THEN i * BufLen ELSE Len(line))
  <2>1. /\ (i - 1) * B \in Nat /\ (i - 1) * B + 1 <= Len(s)
        /\ i * B = (i - 1) * B + B /\ i * B \in Nat
    BY <1>2, <1>3, <1>5, PieceBounds
  <2>2. PICK m \in 1..Len(s) : m = (i - 1) * BufLen + 1
    BY <1>2, <1>3, <2>1
  <2>3. PICK e \in Nat : e = i * BufLen /\ m <= e
    BY <1>2, <2>1, <2>2
  <2>4. CASE e <= n
    <3>1. Min2(e, Len(s)) = e /\ e \in m..Len(s) /\ e < Len(s) /\ e \in 1..Len(line)
      BY <1>2, <1>3, <2>3, <2>4 DEF Min2
    <3>2. line[e] # Eol
      BY <3>1, LineEditAssumption
    <3>3. Cut(SubSeq(s, m, e)) = SubSeq(line, m, e)
      <4>1. PICK k \in m..Len(s) : k = e
        BY <3>1
      <4>2. k < Len(s) => (line[k] = Eol \/ Cut(SubSeq(s, m, k)) = SubSeq(line, m, k))
        BY <1>1, CutIs, ZenonT(60)
      <4> QED
        BY <3>1, <3>2, <4>1, <4>2
    <3>4. (IF e < Len(line) THEN e ELSE Len(line)) = e
      BY <1>2, <2>4
    <3> QED
      BY <2>2, <2>3, <3>1, <3>3, <3>4
  <2>5. CASE e > n
    <3>1. Min2(e, Len(s)) = Len(s) /\ Len(s) \in m..Len(s) /\ Len(s) - 1 = n
      BY <1>3, <2>3, <2>5 DEF Min2
    <3>2. Cut(SubSeq(s, m, Len(s))) = SubSeq(line, m, n)
      <4>1. PICK k \in m..Len(s) : k = Len(s)
        BY <3>1
      <4>2. Cut(SubSeq(s, m, k)) = SubSeq(line, m, Len(line))
        BY <1>1, <4>1, CutIs
      <4> QED
        BY <1>2, <4>1, <4>2
    <3>3. (IF e < Len(line) THEN e ELSE Len(line)) = n
      BY <1>2, <2>5
    <3> QED
      BY <2>2, <2>3, <3>1, <3>2, <3>3
  <2> QED
    BY <2>3, <2>4, <2>5
<1>7. fgets(s) = [i \in 1..(q + 1) |-> Cut(SubSeq(s, (i - 1) * BufLen + 1, Min2(i * BufLen, Len(s))))]
  BY <1>5 DEF fgets
<1>8. Editor!Pieces(line) = [i \in 1..(q + 1) |->
         SubSeq(line, (i - 1) * BufLen + 1, IF i * BufLen < Len(line) THEN i * BufLen ELSE Len(line))]
  BY <1>2, <1>4 DEF Editor!Pieces
<1>9. fgets(s) = Editor!Pieces(line)
  BY <1>6, <1>7, <1>8
<1> QED
  BY <1>1, <1>9, FgetsIs

(* The parts of a sequence, one after the other.                           *)
FlatUpTo(P, flat) ==
  /\ flat[0] = <<>> /\ Editor!FlattenSeq(P) = flat[Len(P)]
  /\ \A i \in 1..Len(P) : flat[i] = flat[i - 1] \o P[i]

LEMMA FlatIs ==
  ASSUME NEW X, NEW P \in Seq(Seq(X))
  PROVE  \E flat : FlatUpTo(P, flat) /\ \A i \in 0..Len(P) : flat[i] \in Seq(X)
<1> DEFINE D == 0..Len(P)
           S == Seq(X)
<1>1. PICK F : F = [p \in Nat \X S |-> IF p[1] \in 1..Len(P) THEN p[2] \o P[p[1]] ELSE p[2]]
  OBVIOUS
<1>2. F \in [Nat \X S -> S] /\ \A i \in 1..Len(P), s \in S : F[<<i, s>>] = s \o P[i]
  <2>1. \A i \in 1..Len(P), s \in S : s \o P[i] \in S /\ i \in Nat
    OBVIOUS
  <2> HIDE DEF S
  <2> QED
    BY <1>1, <2>1
<1>3. D \in SUBSET Nat /\ \A n \in D : n # 0 => n - 1 \in D /\ n \in 1..Len(P)
  OBVIOUS
<1>4. <<>> \in S
  OBVIOUS
<1>5. PICK g \in [D -> S] : Recursive(g, D, <<>>, F)
  <2> HIDE DEF D, S
  <2> QED
    BY <1>2, <1>3, <1>4, Recursion
<1>6. \A n \in D : g[n] = IF n = 0 THEN <<>> ELSE g[n - 1] \o P[n]
  <2>1. \A n \in D : g[n] = IF n = 0 THEN <<>> ELSE F[<<n, g[n - 1]>>]
    BY <1>5 DEF Recursive
  <2> HIDE DEF D, S
  <2> QED
    BY <1>2, <1>3, <1>5, <2>1
<1>7. 0 \in D /\ Len(P) \in D /\ 1..Len(P) \subseteq D
  OBVIOUS
<1>8. g[0] = <<>> /\ \A i \in 1..Len(P) : g[i] = g[i - 1] \o P[i]
  <2>1. \A i \in 1..Len(P) : i \in D /\ i # 0
    OBVIOUS
  <2> HIDE DEF D
  <2> QED
    BY <1>6, <1>7, <2>1
<1>9. Editor!FlattenSeq(P) = g[Len(P)]
  <2>1. CASE Len(P) = 0
    BY <1>8, <2>1 DEF Editor!FlattenSeq
  <2>2. CASE Len(P) # 0
    <3> DEFINE Follows(h) == h = [i \in 1..Len(P) |-> IF i = 1 THEN P[i] ELSE h[i - 1] \o P[i]]
    <3>1. PICK f : f = [i \in 1..Len(P) |-> g[i]]
      OBVIOUS
    <3>2. Follows(f)
      <4>1. ASSUME NEW i \in 1..Len(P) PROVE f[i] = IF i = 1 THEN P[i] ELSE f[i - 1] \o P[i]
        <5>1. CASE i = 1
          <6>1. <<>> \o P[i] = P[i]
            OBVIOUS
          <6>2. g[i] = g[i - 1] \o P[i]
            BY <1>8
          <6>3. i - 1 = 0
            BY <5>1
          <6>4. g[i] = P[i]
            BY <1>8, <6>1, <6>2, <6>3
          <6> QED
            BY <3>1, <5>1, <6>4
        <5>2. CASE i # 1
          <6>1. i - 1 \in 1..Len(P)
            BY <5>2
          <6> QED
            BY <1>8, <3>1, <5>2, <6>1
        <5> QED
          BY <5>1, <5>2
      <4> QED
        BY <3>1, <4>1
    <3>3. PICK flatten : flatten = CHOOSE h : Follows(h)
      OBVIOUS
    <3>4. Editor!FlattenSeq(P) = flatten[Len(P)]
      BY <2>2, <3>3 DEF Editor!FlattenSeq
    <3>5. Follows(flatten)
      <4> HIDE DEF Follows
      <4> QED
        BY <3>2, <3>3
    <3>6. \A i \in 1..Len(P) : flatten[i] = IF i = 1 THEN P[i] ELSE flatten[i - 1] \o P[i]
      BY <3>5
    <3>7. \A i \in D : i = 0 \/ flatten[i] = g[i]
      <4> DEFINE A == {i \in D : i = 0 \/ flatten[i] = g[i]}
      <4>1. \A n \in D : n = 0 \/ n - 1 \in A => n \in A
        <5> SUFFICES ASSUME NEW n \in D, n # 0, n - 1 \in A PROVE flatten[n] = g[n]
          OBVIOUS
        <5>1. n \in 1..Len(P)
          OBVIOUS
        <5>2. CASE n = 1
          <6>1. <<>> \o P[n] = P[n]
            BY <5>1
          <6>2. g[n] = g[n - 1] \o P[n]
            BY <1>8, <5>1
          <6>3. n - 1 = 0
            BY <5>2
          <6>4. flatten[n] = P[n]
            BY <3>6, <5>1, <5>2
          <6> QED
            BY <1>8, <6>1, <6>2, <6>3, <6>4
        <5>3. CASE n # 1
          <6>1. n - 1 # 0 /\ flatten[n - 1] = g[n - 1]
            BY <5>3
          <6> QED
            BY <1>8, <3>6, <5>1, <5>3, <6>1
        <5> QED
          BY <5>2, <5>3
      <4> HIDE DEF A
      <4>2. D \subseteq A
        BY <1>3, <4>1, Induction
      <4> QED
        BY <4>2 DEF A
    <3> QED
      BY <1>7, <2>2, <3>4, <3>7
  <2> QED
    BY <2>1, <2>2
<1>10. FlatUpTo(P, g)
  BY <1>8, <1>9 DEF FlatUpTo
<1> QED
  BY <1>5, <1>10

(* Lines that follow themselves once.                                      *)
OnceUpTo(s, once) ==
  /\ once[0] = <<>> /\ Editor!Once(s) = once[Len(s)]
  /\ \A i \in 1..Len(s) : once[i] = IF i > 1 /\ s[i] = s[i - 1] THEN once[i - 1] ELSE Append(once[i - 1], s[i])

LEMMA OnceIs ==
  ASSUME NEW X, NEW s \in Seq(X)
  PROVE  \E once : OnceUpTo(s, once) /\ \A i \in 0..Len(s) : once[i] \in Seq(X)
<1> DEFINE D == 0..Len(s)
           S == Seq(X)
           Step(i, t) == IF i > 1 /\ s[i] = s[i - 1] THEN t ELSE Append(t, s[i])
<1>1. PICK F : F = [p \in Nat \X S |-> IF p[1] \in 1..Len(s) THEN Step(p[1], p[2]) ELSE p[2]]
  OBVIOUS
<1>2. F \in [Nat \X S -> S] /\ \A i \in 1..Len(s), t \in S : F[<<i, t>>] = Step(i, t)
  <2>1. \A i \in 1..Len(s), t \in S : Step(i, t) \in S /\ i \in Nat
    OBVIOUS
  <2> HIDE DEF S, Step
  <2> QED
    BY <1>1, <2>1
<1>3. D \in SUBSET Nat /\ \A n \in D : n # 0 => n - 1 \in D /\ n \in 1..Len(s)
  OBVIOUS
<1>4. <<>> \in S
  OBVIOUS
<1>5. PICK f \in [D -> S] : Recursive(f, D, <<>>, F)
  <2> HIDE DEF D, S
  <2> QED
    BY <1>2, <1>3, <1>4, Recursion
<1> DEFINE Follows(g) == g = [i \in D |-> IF i = 0 THEN <<>> ELSE IF i > 1 /\ s[i] = s[i - 1] THEN g[i - 1]
                                          ELSE Append(g[i - 1], s[i])]
<1>6. Follows(f)
  <2>1. \A n \in D : f[n] = IF n = 0 THEN <<>> ELSE F[<<n, f[n - 1]>>]
    BY <1>5 DEF Recursive
  <2> HIDE DEF D, S, Step
  <2>2. \A n \in D : f[n] = IF n = 0 THEN <<>> ELSE Step(n, f[n - 1])
    BY <1>2, <1>3, <1>5, <2>1
  <2> QED
    BY <2>2 DEF Step
<1>7. PICK once : once = CHOOSE g : Follows(g)
  OBVIOUS
<1>8. Editor!Once(s) = once[Len(s)]
  BY <1>7 DEF Editor!Once
<1>9. Follows(once)
  <2> HIDE DEF Follows
  <2> QED
    BY <1>6, <1>7
<1>10. \A i \in D : once[i] = IF i = 0 THEN <<>> ELSE Step(i, once[i - 1])
  BY <1>9
<1>11. \A i \in D : once[i] \in S
  <2> DEFINE A == {i \in D : once[i] \in S}
  <2>1. \A n \in D : n = 0 \/ n - 1 \in A => n \in A
    <3> SUFFICES ASSUME NEW n \in D, n = 0 \/ n - 1 \in A PROVE once[n] \in S
      OBVIOUS
    <3>1. n # 0 => n \in 1..Len(s) /\ once[n - 1] \in S
      OBVIOUS
    <3>2. \A i \in 1..Len(s), t \in S : Step(i, t) \in S
      OBVIOUS
    <3> HIDE DEF D, S, Step
    <3> QED
      BY <1>4, <1>10, <3>1, <3>2
  <2> HIDE DEF A
  <2>2. D \subseteq A
    BY <1>3, <2>1, Induction
  <2> QED
    BY <2>2 DEF A
<1>12. once[0] = <<>> /\ \A i \in 1..Len(s) : once[i] = Step(i, once[i - 1])
  <2>1. \A i \in 1..Len(s) : i \in D /\ i # 0
    OBVIOUS
  <2>2. 0 \in D
    OBVIOUS
  <2> HIDE DEF D, Step
  <2> QED
    BY <1>10, <2>1, <2>2
<1>13. OnceUpTo(s, once)
  BY <1>8, <1>12 DEF OnceUpTo
<1> QED
  BY <1>11, <1>13

LEMMA OnceAppended ==
  ASSUME NEW X, NEW s \in Seq(X), NEW x \in X
  PROVE  /\ Editor!Once(s) \in Seq(X)
         /\ Editor!Once(s) = <<>> <=> s = <<>>
         /\ s # <<>> => Editor!Once(s)[Len(Editor!Once(s))] = s[Len(s)]
         /\ Editor!Once(Append(s, x)) = IF s # <<>> /\ s[Len(s)] = x THEN Editor!Once(s) ELSE Append(Editor!Once(s), x)
<1>1. PICK n \in Nat : n = Len(s)
  OBVIOUS
<1>2. PICK f : OnceUpTo(s, f) /\ \A i \in 0..n : f[i] \in Seq(X)
  BY <1>1, OnceIs
<1>3. PICK t \in Seq(X) : t = Append(s, x)
  BY AppendedIs
<1>4. Len(t) = n + 1 /\ t[n + 1] = x /\ \A i \in 1..n : t[i] = s[i]
  BY <1>1, <1>3, AppendedIs
<1>5. PICK g : OnceUpTo(t, g)
  BY OnceIs
<1>6. /\ f[0] = <<>> /\ Editor!Once(s) = f[n]
      /\ \A i \in 1..n : f[i] = IF i > 1 /\ s[i] = s[i - 1] THEN f[i - 1] ELSE Append(f[i - 1], s[i])
  BY <1>1, <1>2 DEF OnceUpTo
<1>7. /\ g[0] = <<>> /\ Editor!Once(t) = g[n + 1]
      /\ \A i \in 1..(n + 1) : g[i] = IF i > 1 /\ t[i] = t[i - 1] THEN g[i - 1] ELSE Append(g[i - 1], t[i])
  BY <1>4, <1>5 DEF OnceUpTo
<1>8. 0..n \in SUBSET Nat /\ \A i \in 0..n : i # 0 => i - 1 \in 0..n
  OBVIOUS
<1>9. \A i \in 0..n : g[i] = f[i]
  <2> DEFINE A == {i \in 0..n : g[i] = f[i]}
  <2>1. \A i \in 0..n : i = 0 \/ i - 1 \in A => i \in A
    <3> SUFFICES ASSUME NEW i \in 0..n, i = 0 \/ i - 1 \in A PROVE g[i] = f[i]
      OBVIOUS
    <3>1. CASE i = 0
      BY <1>6, <1>7, <3>1
    <3>2. CASE i # 0
      <4>1. i \in 1..n /\ i \in 1..(n + 1) /\ g[i - 1] = f[i - 1] /\ (i > 1 => i - 1 \in 1..n)
        BY <3>2
      <4>2. t[i] = s[i] /\ (i > 1 => t[i - 1] = s[i - 1])
        BY <1>4, <4>1
      <4>3. f[i] = IF i > 1 /\ s[i] = s[i - 1] THEN f[i - 1] ELSE Append(f[i - 1], s[i])
        BY <1>6, <4>1
      <4>4. g[i] = IF i > 1 /\ t[i] = t[i - 1] THEN g[i - 1] ELSE Append(g[i - 1], t[i])
        BY <1>7, <4>1
      <4> QED
        BY <4>1, <4>2, <4>3, <4>4
    <3> QED
      BY <3>1, <3>2
  <2> HIDE DEF A
  <2>2. 0..n \subseteq A
    BY <1>8, <2>1, Induction
  <2> QED
    BY <2>2 DEF A
<1>10. \A i \in 0..n : i # 0 => f[i] # <<>> /\ f[i][Len(f[i])] = s[i]
  <2> DEFINE A == {i \in 0..n : i # 0 => f[i] # <<>> /\ f[i][Len(f[i])] = s[i]}
  <2>1. \A i \in 0..n : i = 0 \/ i - 1 \in A => i \in A
    <3> SUFFICES ASSUME NEW i \in 0..n, i # 0, i - 1 \in A PROVE f[i] # <<>> /\ f[i][Len(f[i])] = s[i]
      OBVIOUS
    <3>1. i \in 1..n /\ i - 1 \in 0..n
      OBVIOUS
    <3>2. f[i] = IF i > 1 /\ s[i] = s[i - 1] THEN f[i - 1] ELSE Append(f[i - 1], s[i])
      BY <1>6, <3>1
    <3>3. CASE i > 1 /\ s[i] = s[i - 1]
      <4>1. i - 1 # 0
        BY <3>1, <3>3
      <4> QED
        BY <3>2, <3>3, <4>1
    <3>4. CASE ~(i > 1 /\ s[i] = s[i - 1])
      <4>1. PICK h \in Seq(X), y \in X : h = f[i - 1] /\ y = s[i]
        BY <1>1, <1>2, <3>1
      <4>2. Append(h, y) # <<>> /\ Append(h, y)[Len(Append(h, y))] = y
        OBVIOUS
      <4> QED
        BY <3>2, <3>4, <4>1, <4>2
    <3> QED
      BY <3>3, <3>4
  <2> HIDE DEF A
  <2>2. 0..n \subseteq A
    BY <1>8, <2>1, Induction
  <2> QED
    BY <2>2 DEF A
<1>11. n \in 0..n /\ (s = <<>> <=> n = 0)
  BY <1>1
<1>12. g[n] = f[n] /\ f[n] \in Seq(X)
  BY <1>2, <1>9, <1>11
<1>13. g[n + 1] = IF n + 1 > 1 /\ t[n + 1] = t[n] THEN g[n] ELSE Append(g[n], x)
  <2>1. n + 1 \in 1..(n + 1) /\ (n + 1) - 1 = n
    OBVIOUS
  <2> QED
    BY <1>4, <1>7, <2>1
<1>14. n + 1 > 1 => n \in 1..n /\ t[n] = s[n]
  BY <1>4
<1>15. Editor!Once(t) = IF s # <<>> /\ s[n] = x THEN Editor!Once(s) ELSE Append(Editor!Once(s), x)
  <2>1. n + 1 > 1 <=> s # <<>>
    BY <1>11
  <2> QED
    BY <1>4, <1>6, <1>7, <1>12, <1>13, <1>14, <2>1
<1>16. s # <<>> => Editor!Once(s) # <<>> /\ Editor!Once(s)[Len(Editor!Once(s))] = s[n]
  BY <1>6, <1>10, <1>11
<1> QED
  BY <1>1, <1>3, <1>6, <1>11, <1>12, <1>15, <1>16

LEMMA LatestIs ==
  ASSUME NEW X, NEW s \in Seq(X), NEW k \in 0..Len(s)
  PROVE  /\ Editor!Latest(s, k) \in Seq(X) /\ Len(Editor!Latest(s, k)) = k
         /\ \A i \in 1..k : Editor!Latest(s, k)[i] = s[Len(s) - k + i]
<1>1. PICK n \in Nat, m \in 1..(Len(s) + 1) : n = Len(s) /\ m = n - k + 1
  <2>1. Len(s) - k + 1 \in 1..(Len(s) + 1)
    OBVIOUS
  <2> QED
    BY <2>1
<1>2. n \in (m - 1)..Len(s) /\ n - m + 1 = k
  BY <1>1
<1>3. PICK r : r = SubSeq(s, m, n)
  OBVIOUS
<1>4. r \in Seq(X) /\ Len(r) = n - m + 1 /\ \A i \in 1..(n - m + 1) : r[i] = s[m + i - 1]
  BY <1>2, <1>3, SubSeqIs
<1>5. \A i \in 1..k : m + i - 1 = n - k + i
  BY <1>1
<1>6. Editor!Latest(s, k) = r
  BY <1>1, <1>3 DEF Editor!Latest
<1> QED
  BY <1>1, <1>2, <1>4, <1>5, <1>6

(* h is what a history of max lines keeps of s.                            *)
KeepsOf(max, s, h) ==
  h = Editor!Latest(Editor!Once(s), IF Len(Editor!Once(s)) <= max THEN Len(Editor!Once(s)) ELSE max)

LEMMA KeepsAdded ==
  ASSUME NEW X, NEW max \in Nat \ {0}, NEW s \in Seq(X), NEW x \in X, NEW h, KeepsOf(max, s, h)
  PROVE  KeepsOf(max, Append(s, x), linenoiseHistoryAdd(h, max, x)) /\ h \in Seq(X) /\ Len(h) <= max
<1>1. PICK o \in Seq(X), c \in Nat : o = Editor!Once(s) /\ c = Len(o)
  BY OnceAppended
<1>2. PICK k \in 0..c : k = IF c <= max THEN c ELSE max
  OBVIOUS
<1>3. h = Editor!Latest(o, k)
  BY <1>1, <1>2 DEF KeepsOf
<1>4. h \in Seq(X) /\ Len(h) = k /\ \A i \in 1..k : h[i] = o[c - k + i]
  BY <1>1, <1>3, LatestIs
<1>5. k <= max
  BY <1>2
<1>6. /\ o = <<>> <=> s = <<>>
      /\ s # <<>> => o[c] = s[Len(s)]
      /\ Editor!Once(Append(s, x)) = IF s # <<>> /\ s[Len(s)] = x THEN o ELSE Append(o, x)
  BY <1>1, OnceAppended
<1>7. /\ h = <<>> <=> s = <<>>
      /\ h # <<>> => Last(h) = s[Len(s)]
  <2>1. h = <<>> <=> k = 0
    BY <1>4
  <2>2. o = <<>> <=> c = 0
    BY <1>1
  <2>3. c = 0 <=> k = 0
    BY <1>2
  <2>4. k # 0 => h[k] = o[c]
    <3>1. k # 0 => k \in 1..k /\ c - k + k = c
      OBVIOUS
    <3> QED
      BY <1>4, <3>1
  <2> QED
    BY <1>4, <1>6, <2>1, <2>2, <2>3, <2>4 DEF Last
<1>8. CASE s # <<>> /\ s[Len(s)] = x
  <2>1. linenoiseHistoryAdd(h, max, x) = h
    BY <1>7, <1>8 DEF linenoiseHistoryAdd
  <2>2. Editor!Once(Append(s, x)) = Editor!Once(s)
    BY <1>1, <1>6, <1>8
  <2> QED
    BY <1>4, <1>5, <2>1, <2>2 DEF KeepsOf
<1>9. CASE ~(s # <<>> /\ s[Len(s)] = x)
  <2>1. PICK p \in Seq(X) : p = Append(o, x)
    BY AppendedIs
  <2>2. Len(p) = c + 1 /\ p[c + 1] = x /\ \A i \in 1..c : p[i] = o[i]
    BY <1>1, <2>1, AppendedIs
  <2>3. Editor!Once(Append(s, x)) = p
    BY <1>6, <1>9, <2>1
  <2>4. PICK j \in 0..(c + 1) : j = IF c + 1 <= max THEN c + 1 ELSE max
    OBVIOUS
  <2>5. PICK r : r = Editor!Latest(p, j)
    OBVIOUS
  <2>6. r \in Seq(X) /\ Len(r) = j /\ \A i \in 1..j : r[i] = p[c + 1 - j + i]
    <3>1. PICK m \in 0..Len(p) : m = j
      BY <2>2
    <3>2. /\ Editor!Latest(p, m) \in Seq(X) /\ Len(Editor!Latest(p, m)) = m
          /\ \A i \in 1..m : Editor!Latest(p, m)[i] = p[Len(p) - m + i]
      BY LatestIs
    <3> QED
      BY <2>2, <2>5, <3>1, <3>2
  <2>7. PICK b \in Seq(X) : /\ b = IF Len(h) = max THEN Tail(h) ELSE h
                            /\ Len(b) = j - 1 /\ \A i \in 1..(j - 1) : b[i] = o[c + 1 - j + i]
    <3>1. CASE k = max
      <4>1. h # <<>> /\ j = max /\ j = k
        BY <1>2, <1>4, <2>4, <3>1
      <4>2. PICK b : b = Tail(h)
        OBVIOUS
      <4>3. b \in Seq(X) /\ Len(b) = k - 1 /\ \A i \in 1..(k - 1) : b[i] = h[i + 1]
        <5>1. h \in Seq(X) /\ h # <<>> /\ Len(h) = k
          BY <1>4, <4>1
        <5>2. b \in Seq(X) /\ Len(b) = Len(h) - 1 /\ \A i \in 1..(Len(h) - 1) : b[i] = h[i + 1]
          BY <4>2, <5>1, EndsAre
        <5> QED
          BY <5>1, <5>2
      <4>4. ASSUME NEW i \in 1..(j - 1) PROVE b[i] = o[c + 1 - j + i]
        <5>1. i + 1 \in 1..k /\ c - k + (i + 1) = c + 1 - j + i /\ i \in 1..(k - 1)
          BY <4>1
        <5> QED
          BY <1>4, <4>3, <5>1
      <4> QED
        BY <1>4, <3>1, <4>1, <4>2, <4>3, <4>4
    <3>2. CASE k # max
      <4>1. k = c /\ j = c + 1 /\ j - 1 = c
        BY <1>2, <2>4, <3>2
      <4>2. ASSUME NEW i \in 1..(j - 1) PROVE h[i] = o[c + 1 - j + i]
        <5>1. i \in 1..k /\ c - k + i = c + 1 - j + i
          BY <4>1
        <5> QED
          BY <1>4, <5>1
      <4> QED
        BY <1>4, <3>2, <4>1, <4>2
    <3> QED
      BY <3>1, <3>2
  <2>8. PICK a \in Seq(X) : a = Append(b, x)
    BY AppendedIs
  <2>9. Len(a) = j /\ a[j] = x /\ \A i \in 1..(j - 1) : a[i] = b[i]
    <3>1. Len(a) = (j - 1) + 1 /\ a[(j - 1) + 1] = x /\ \A i \in 1..(j - 1) : a[i] = b[i]
      BY <2>7, <2>8, AppendedIs
    <3>2. (j - 1) + 1 = j
      OBVIOUS
    <3> QED
      BY <3>1, <3>2
  <2>10. \A i \in 1..j : a[i] = r[i]
    <3> SUFFICES ASSUME NEW i \in 1..j PROVE a[i] = r[i]
      OBVIOUS
    <3>1. CASE i = j
      <4>1. c + 1 - j + i = c + 1
        BY <3>1
      <4> QED
        BY <2>2, <2>6, <2>9, <3>1, <4>1
    <3>2. CASE i # j
      <4>1. i \in 1..(j - 1) /\ c + 1 - j + i \in 1..c
        BY <2>4, <3>2
      <4> QED
        BY <2>2, <2>6, <2>7, <2>9, <4>1
    <3> QED
      BY <3>1, <3>2
  <2>11. a = r
    BY <2>6, <2>9, <2>10, SameSeq
  <2>12. linenoiseHistoryAdd(h, max, x) = a
    BY <1>7, <1>9, <2>7, <2>8 DEF linenoiseHistoryAdd
  <2> QED
    BY <1>4, <1>5, <2>2, <2>3, <2>4, <2>5, <2>11, <2>12 DEF KeepsOf
<1> QED
  BY <1>8, <1>9

(* Reading more and more of lines.                                         *)
Grows(X, s, lines) ==
  /\ s \o SubSeq(lines, 1, 0) = s /\ s \o SubSeq(lines, 1, Len(lines)) = s \o lines
  /\ \A i \in 0..Len(lines) : s \o SubSeq(lines, 1, i) \in Seq(X)
  /\ \A i \in 1..Len(lines) : s \o SubSeq(lines, 1, i) = Append(s \o SubSeq(lines, 1, i - 1), lines[i])

LEMMA OneMore ==
  ASSUME NEW X, NEW s \in Seq(X), NEW lines \in Seq(X)
  PROVE  Grows(X, s, lines)
<1>1. SubSeq(lines, 1, 0) = <<>> /\ SubSeq(lines, 1, Len(lines)) = lines
  OBVIOUS
<1>2. ASSUME NEW i \in 0..Len(lines)
      PROVE  /\ SubSeq(lines, 1, i) \in Seq(X) /\ Len(SubSeq(lines, 1, i)) = i
             /\ \A j \in 1..i : SubSeq(lines, 1, i)[j] = lines[j]
  <2>1. 1 \in 1..(Len(lines) + 1) /\ i \in (1 - 1)..Len(lines) /\ i - 1 + 1 = i /\ \A j \in 1..i : 1 + j - 1 = j
    OBVIOUS
  <2> QED
    BY <2>1, SubSeqIs
<1>3. ASSUME NEW i \in 1..Len(lines)
      PROVE  s \o SubSeq(lines, 1, i) = Append(s \o SubSeq(lines, 1, i - 1), lines[i])
  <2>1. PICK a : a = SubSeq(lines, 1, i)
    OBVIOUS
  <2>2. PICK b : b = SubSeq(lines, 1, i - 1)
    OBVIOUS
  <2>3. a \in Seq(X) /\ Len(a) = i /\ \A j \in 1..i : a[j] = lines[j]
    <3>1. i \in 0..Len(lines)
      OBVIOUS
    <3> QED
      BY <1>2, <2>1, <3>1
  <2>4. b \in Seq(X) /\ Len(b) = i - 1 /\ \A j \in 1..(i - 1) : b[j] = lines[j]
    <3>1. i - 1 \in 0..Len(lines)
      OBVIOUS
    <3> QED
      BY <1>2, <2>2, <3>1
  <2>5. PICK x \in X : x = lines[i]
    OBVIOUS
  <2>6. a = Append(b, x)
    <3>1. PICK d \in Seq(X) : d = Append(b, x)
      BY <2>4, AppendedIs
    <3>2. Len(d) = i - 1 + 1 /\ d[i - 1 + 1] = x /\ \A j \in 1..(i - 1) : d[j] = b[j]
      BY <2>4, <3>1, AppendedIs
    <3>3. \A j \in 1..i : a[j] = d[j]
      <4> SUFFICES ASSUME NEW j \in 1..i PROVE a[j] = d[j]
        OBVIOUS
      <4>1. j = i \/ j \in 1..(i - 1)
        OBVIOUS
      <4>2. i - 1 + 1 = i
        OBVIOUS
      <4> QED
        BY <2>3, <2>4, <2>5, <3>2, <4>1, <4>2
    <3>4. Len(d) = i
      BY <3>2
    <3>5. a = d
      BY <2>3, <3>3, <3>4, SameSeq
    <3> QED
      BY <3>1, <3>5
  <2>7. s \o Append(b, x) = Append(s \o b, x)
    BY <2>4
  <2> QED
    BY <2>1, <2>2, <2>5, <2>6, <2>7
<1>4. s \o <<>> = s
  OBVIOUS
<1>5. ASSUME NEW i \in 0..Len(lines)
      PROVE  s \o SubSeq(lines, 1, i) \in Seq(X)
  BY <1>2
<1>6. s \o SubSeq(lines, 1, 0) = s /\ s \o SubSeq(lines, 1, Len(lines)) = s \o lines
  BY <1>1, <1>4
<1> QED
  BY <1>3, <1>5, <1>6 DEF Grows

LEMMA KeepsAll ==
  ASSUME NEW X, NEW max \in Nat \ {0}, NEW s \in Seq(X), NEW h \in Seq(X), Len(h) <= max, KeepsOf(max, s, h),
         NEW lines \in Seq(X)
  PROVE  KeepsOf(max, s \o lines, AddedAll(h, max, lines))
<1>1. PICK add : AddedUpTo(h, max, lines, add)
  BY AddedAllIs
<1>2. PICK n \in Nat : n = Len(lines)
  OBVIOUS
<1>3. /\ add[0] = h /\ AddedAll(h, max, lines) = add[n]
      /\ \A i \in 1..n : add[i] = linenoiseHistoryAdd(add[i - 1], max, lines[i])
  BY <1>1, <1>2 DEF AddedUpTo
<1>4. /\ s \o SubSeq(lines, 1, 0) = s /\ s \o SubSeq(lines, 1, n) = s \o lines
      /\ \A i \in 0..n : s \o SubSeq(lines, 1, i) \in Seq(X)
      /\ \A i \in 1..n : s \o SubSeq(lines, 1, i) = Append(s \o SubSeq(lines, 1, i - 1), lines[i])
  <2>1. Grows(X, s, lines)
    BY OneMore
  <2> QED
    BY <1>2, <2>1, ZenonT(30) DEF Grows
<1>5. 0..n \in SUBSET Nat /\ n \in 0..n /\ \A i \in 0..n : i # 0 => i - 1 \in 0..n /\ i \in 1..n
  OBVIOUS
<1> DEFINE A == {i \in 0..n : KeepsOf(max, s \o SubSeq(lines, 1, i), add[i])}
<1>6. \A i \in 0..n : i = 0 \/ i - 1 \in A => i \in A
  <2> SUFFICES ASSUME NEW i \in 0..n, i = 0 \/ i - 1 \in A PROVE KeepsOf(max, s \o SubSeq(lines, 1, i), add[i])
    OBVIOUS
  <2>1. CASE i = 0
    BY <1>3, <1>4, <2>1
  <2>2. CASE i # 0
    <3>1. i \in 1..n /\ i - 1 \in 0..n /\ KeepsOf(max, s \o SubSeq(lines, 1, i - 1), add[i - 1])
      BY <2>2
    <3>2. PICK t \in Seq(X), x \in X : t = s \o SubSeq(lines, 1, i - 1) /\ x = lines[i]
      <4>1. s \o SubSeq(lines, 1, i - 1) \in Seq(X)
        BY <1>4, <3>1
      <4>2. lines[i] \in X
        BY <1>2, <3>1
      <4> QED
        BY <4>1, <4>2
    <3>3. KeepsOf(max, Append(t, x), linenoiseHistoryAdd(add[i - 1], max, x))
      BY <3>1, <3>2, KeepsAdded
    <3> QED
      BY <1>3, <1>4, <3>1, <3>2, <3>3
  <2> QED
    BY <2>1, <2>2
<1> HIDE DEF A
<1>7. 0..n \subseteq A
  BY <1>5, <1>6, Induction
<1>8. KeepsOf(max, s \o SubSeq(lines, 1, n), add[n])
  BY <1>5, <1>7 DEF A
<1> QED
  BY <1>3, <1>4, <1>8

(* What another program loads is what the lines of the file are for it.    *)
LEMMA ReloadEdits ==
  ASSUME LineInv, NEW max \in settings.lens, linenoiseHistoryLoad(max)
  PROVE  Editor!Reload
<1>1. /\ phase = "idle" /\ history_max_len' = max /\ l' = l /\ phase' = phase
      /\ history' = Loaded(max)
  BY DEF linenoiseHistoryLoad
<1>2. max \in Nat \ {0} /\ max \in UNION {s.lens : s \in Settings}
  BY SettingsNumbers DEF LineInv
<1>3. PICK X : X = Seq(Chars)
  OBVIOUS
<1>4. history \in Seq(X) /\ history \in Seq(Seq(Chars))
  BY <1>3 DEF LineInv
<1>5. PICK n \in Nat : n = Len(history) /\ DOMAIN history = 1..n
  BY <1>4
<1>6. PICK P : P = [i \in DOMAIN history |-> Editor!Pieces(history[i])]
  OBVIOUS
<1>7. \A i \in 1..n : P[i] \in Seq(X) /\ P[i] = fgets(linenoiseHistorySave[i])
  <2> SUFFICES ASSUME NEW i \in 1..n PROVE P[i] \in Seq(X) /\ P[i] = fgets(linenoiseHistorySave[i])
    OBVIOUS
  <2>1. PICK line \in Seq(Chars) : line = history[i]
    BY <1>4, <1>5
  <2>2. linenoiseHistorySave[i] = Append(line, Eol)
    BY <1>5, <2>1 DEF linenoiseHistorySave
  <2>3. P[i] = Editor!Pieces(line)
    BY <1>5, <1>6, <2>1
  <2> QED
    BY <1>3, <2>2, <2>3, PiecesAre
<1>8. P \in Seq(Seq(X)) /\ Len(P) = n
  <2>1. P = [i \in 1..n |-> P[i]]
    BY <1>5, <1>6
  <2> QED
    BY <1>7, <2>1, SMTT(30)
<1>9. PICK flat : FlatUpTo(P, flat) /\ \A i \in 0..n : flat[i] \in Seq(X)
  BY <1>8, FlatIs
<1>10. /\ flat[0] = <<>> /\ Editor!FlattenSeq(P) = flat[n]
       /\ \A i \in 1..n : flat[i] = flat[i - 1] \o P[i]
  BY <1>8, <1>9 DEF FlatUpTo
<1>11. PICK load : LoadedUpTo(max, load) /\ \A i \in 0..n : load[i] \in Seq(X) /\ Len(load[i]) <= max
  BY <1>2, <1>3, <1>4, <1>5, LoadedIs
<1>12. /\ load[0] = <<>> /\ Loaded(max) = load[n]
       /\ \A i \in 1..n : load[i] = AddedAll(load[i - 1], max, P[i])
  BY <1>5, <1>7, <1>11 DEF LoadedUpTo
<1>13. KeepsOf(max, flat[0], load[0])
  <2>1. PICK none \in Seq(X) : none = <<>>
    <3>1. <<>> \in Seq(X)
      OBVIOUS
    <3> QED
      BY <3>1
  <2>2. PICK x : x \in X
    <3>1. <<>> \in X
      BY <1>3
    <3> QED
      BY <3>1
  <2>3. PICK o \in Seq(X) : o = Editor!Once(none)
    BY <2>2, OnceAppended
  <2>4. o = <<>> /\ Len(o) = 0
    <3>1. Editor!Once(none) = <<>> <=> none = <<>>
      BY <2>2, OnceAppended
    <3> QED
      BY <2>1, <2>3, <3>1
  <2>5. PICK k \in 0..Len(o) : k = 0
    BY <2>4
  <2>6. Editor!Latest(o, k) \in Seq(X) /\ Len(Editor!Latest(o, k)) = k
    BY LatestIs
  <2>7. Editor!Latest(o, 0) = <<>>
    BY <2>5, <2>6
  <2>8. (IF Len(o) <= max THEN Len(o) ELSE max) = 0
    BY <1>2, <2>4
  <2> QED
    BY <1>10, <1>12, <2>1, <2>3, <2>7, <2>8 DEF KeepsOf
<1>14. 0..n \in SUBSET Nat /\ n \in 0..n /\ \A i \in 0..n : i # 0 => i - 1 \in 0..n /\ i \in 1..n
  OBVIOUS
<1> DEFINE A == {i \in 0..n : KeepsOf(max, flat[i], load[i])}
<1>15. \A i \in 0..n : i = 0 \/ i - 1 \in A => i \in A
  <2> SUFFICES ASSUME NEW i \in 0..n, i = 0 \/ i - 1 \in A PROVE KeepsOf(max, flat[i], load[i])
    OBVIOUS
  <2>1. CASE i = 0
    BY <1>13, <2>1
  <2>2. CASE i # 0
    <3>1. i \in 1..n /\ i - 1 \in 0..n /\ KeepsOf(max, flat[i - 1], load[i - 1])
      BY <2>2
    <3>2. PICK s \in Seq(X), h \in Seq(X) : s = flat[i - 1] /\ h = load[i - 1] /\ Len(h) <= max
      BY <1>9, <1>11, <3>1
    <3>3. PICK lines \in Seq(X) : lines = P[i]
      BY <1>7, <3>1
    <3>4. KeepsOf(max, s \o lines, AddedAll(h, max, lines))
      BY <1>2, <3>1, <3>2, <3>3, KeepsAll
    <3> QED
      BY <1>10, <1>12, <3>1, <3>2, <3>3, <3>4
  <2> QED
    BY <2>1, <2>2
<1> HIDE DEF A
<1>16. 0..n \subseteq A
  BY <1>14, <1>15, Induction
<1>17. KeepsOf(max, flat[n], load[n])
  BY <1>14, <1>16 DEF A
<1>18. PICK all : all = Editor!Once(Editor!FlattenSeq(P))
  OBVIOUS
<1>19. history' = Editor!Latest(all, IF Len(all) <= max THEN Len(all) ELSE max)
  BY <1>1, <1>10, <1>12, <1>17, <1>18 DEF KeepsOf
<1> QED
  BY <1>1, <1>2, <1>6, <1>18, <1>19, SameLeft DEF Editor!Reload

(* ---- every step --------------------------------------------------------- *)
(* Tab goes round the completions.                                         *)
Rounds(e) == e.in_completion => e.completion_idx <= Len(Completions(CString(e)))

(* A program between two lines has an empty one.                           *)
Between == LineInv /\ Rounds(l) /\ (phase = "idle" => l = Fresh)

LEMMA BetweenInit ==
  ASSUME Init
  PROVE  Between /\ Editor!Init
<1>1. LineInv /\ l = Fresh /\ history = <<>> /\ phase = "idle" /\ asked = "nothing"
  BY LineInit DEF Init
<1>2. history_max_len \in UNION {s.lens : s \in Settings}
  BY DEF Init
<1>3. /\ SubSeq(Text(l), 1, l.pos) = <<>> /\ SubSeq(Text(l), l.pos + 1, l.len) = <<>>
      /\ l.history_index = 0 /\ ~l.in_completion
  BY <1>1, FreshSides DEF LeftOf, RightOf
<1>4. (IF Shows(l) THEN l.completion_idx + 1 ELSE 0) = 0
  BY <1>3 DEF Shows
<1> QED
  BY <1>1, <1>2, <1>3, <1>4 DEF Between, Rounds, Editor!Init

(* Where the line stays so do its sides and its completions.               *)
LEMMA Stays ==
  ASSUME LineInv, l'.buf = l.buf, l'.pos = l.pos, l'.len = l.len
  PROVE  /\ SubSeq(Text(l), 1, l.pos)' = SubSeq(Text(l), 1, l.pos)
         /\ SubSeq(Text(l), l.pos + 1, l.len)' = SubSeq(Text(l), l.pos + 1, l.len)
         /\ CString(l') = CString(l)
BY DEF Text, Bytes, CString, Strlen

LEMMA TextIsLine ==
  ASSUME LineInv
  PROVE  CString(l) = SubSeq(Text(l), 1, l.pos) \o SubSeq(Text(l), l.pos + 1, l.len)
<1>1. Line(l)
  BY DEF LineInv
<1> QED
  BY <1>1, TextIs, SidesAre DEF LeftOf, RightOf

(* What a program hides is not in the line.                                *)
LEMMA HiddenStutters ==
  ASSUME LineInv, CompletionsFit, linenoiseHide \/ linenoiseShow, asked' = asked
  PROVE  UNCHANGED Editor!vars /\ (Rounds(l) => Rounds(l'))
<1>1. /\ l'.buf = l.buf /\ l'.pos = l.pos /\ l'.len = l.len /\ l'.history_index = l.history_index
      /\ l'.in_completion = l.in_completion /\ l'.completion_idx = l.completion_idx
  BY HideShowKeep
<1>2. UNCHANGED <<history, history_max_len>>
  BY DEF linenoiseHide, linenoiseShow
<1>3. /\ SubSeq(Text(l), 1, l.pos)' = SubSeq(Text(l), 1, l.pos)
      /\ SubSeq(Text(l), l.pos + 1, l.len)' = SubSeq(Text(l), l.pos + 1, l.len)
      /\ CString(l') = CString(l)
  BY <1>1, Stays
<1>4. (IF Shows(l) THEN l.completion_idx + 1 ELSE 0)' = IF Shows(l) THEN l.completion_idx + 1 ELSE 0
  BY <1>1, <1>3 DEF Shows
<1>5. Rounds(l) => Rounds(l')
  BY <1>1, <1>3 DEF Rounds
<1> QED
  BY <1>1, <1>2, <1>3, <1>4, <1>5 DEF linenoiseHide, linenoiseShow, Editor!vars

(* Tab shows the next completion, or the line again.                       *)
LEMMA TabEdits ==
  ASSUME LineInv, CompletionsFit, Rounds(l), CompletionKey(CompleteTab)
  PROVE  Editor!Complete /\ Rounds(l')
<1>1. PICK n \in Nat, k \in Nat : n = Len(Completions(CString(l))) /\ k = l.completion_idx
  <2>1. CString(l) \in Seq(Chars)
    BY TextIs DEF LineInv
  <2>2. Completions(CString(l)) \in Seq(Seq(Chars)) /\ l.completion_idx \in Nat
    BY <2>1 DEF CompletionsFit, LineInv, Line, States
  <2> QED
    BY <2>2
<1>2. n > 0
  <2>1. CString(l) \in Seq(Chars)
    BY TextIs DEF LineInv
  <2>2. Completions(CString(l)) \in Seq(Seq(Chars)) /\ Completions(CString(l)) # <<>>
    BY <2>1 DEF CompletionsFit, CompletionKey
  <2> QED
    BY <1>1, <2>2
<1>3. /\ l'.buf = l.buf /\ l'.pos = l.pos /\ l'.len = l.len /\ l'.history_index = l.history_index
      /\ l'.in_completion /\ l'.completion_idx = IF l.in_completion THEN (k + 1) % (n + 1) ELSE 0
  BY <1>1, TabKeeps
<1>4. /\ SubSeq(Text(l), 1, l.pos)' = SubSeq(Text(l), 1, l.pos)
      /\ SubSeq(Text(l), l.pos + 1, l.len)' = SubSeq(Text(l), l.pos + 1, l.len)
      /\ CString(l') = CString(l)
  BY <1>3, Stays
<1>5. phase = "edit" /\ UNCHANGED <<history, history_max_len, phase>>
  BY DEF CompletionKey
<1>6. l.in_completion => k \in 0..n
  BY <1>1 DEF Rounds
<1>7. l'.completion_idx = IF l.in_completion /\ k # n THEN k + 1 ELSE 0
  <2>1. k \in 0..n => (k + 1) % (n + 1) = IF k # n THEN k + 1 ELSE 0
    <3>1. ASSUME k = n PROVE (k + 1) % (n + 1) = 0
      <4>1. PICK m \in Nat : m = n + 1 /\ m > 0
        OBVIOUS
      <4>2. m % m = 0
        BY <4>1
      <4> QED
        BY <3>1, <4>1, <4>2
    <3>2. ASSUME k \in 0..n, k # n PROVE (k + 1) % (n + 1) = k + 1
      <4>1. k + 1 \in 0..n
        BY <3>2
      <4> QED
        BY <4>1
    <3> QED
      BY <3>1, <3>2
  <2> QED
    BY <1>3, <1>6, <2>1
<1>8. Rounds(l')
  BY <1>1, <1>4, <1>6, <1>7 DEF Rounds
<1>9. PICK c \in 0..n : c = (IF Shows(l) THEN l.completion_idx + 1 ELSE 0)
  BY <1>1, <1>2 DEF Shows
<1>10. (IF Shows(l) THEN l.completion_idx + 1 ELSE 0)' = IF c = n THEN 0 ELSE c + 1
  <2>1. Shows(l') <=> l'.completion_idx < n
    BY <1>1, <1>3, <1>4 DEF Shows
  <2>2. Shows(l) <=> l.in_completion /\ k < n
    BY <1>1 DEF Shows
  <2>3. (IF Shows(l) THEN l.completion_idx + 1 ELSE 0)' = IF l'.completion_idx < n THEN l'.completion_idx + 1 ELSE 0
    BY <2>1 DEF Shows, CString, Strlen
  <2> QED
    BY <1>1, <1>2, <1>6, <1>7, <1>9, <2>2, <2>3
<1>11. n = Len(Completions(SubSeq(Text(l), 1, l.pos) \o SubSeq(Text(l), l.pos + 1, l.len)))
  BY <1>1, TextIsLine
<1> QED
  BY <1>2, <1>3, <1>4, <1>5, <1>8, <1>9, <1>10, <1>11 DEF Editor!Complete

(* Escape gives the line back.                                             *)
LEMMA EscapeEdits ==
  ASSUME LineInv, CompletionsFit, CompletionKey(CompleteEscape) \/ (~l.in_completion /\ Forgotten)
  PROVE  Editor!Escape /\ ~l'.in_completion
<1>1. /\ l'.buf = l.buf /\ l'.pos = l.pos /\ l'.len = l.len /\ l'.history_index = l.history_index
      /\ ~l'.in_completion
  BY EscapeKeeps DEF Forgotten
<1>2. phase = "edit" /\ UNCHANGED <<history, history_max_len, phase>>
  BY DEF CompletionKey, Forgotten
<1>3. /\ SubSeq(Text(l), 1, l.pos)' = SubSeq(Text(l), 1, l.pos)
      /\ SubSeq(Text(l), l.pos + 1, l.len)' = SubSeq(Text(l), l.pos + 1, l.len)
  BY <1>1, Stays
<1> QED
  BY <1>1, <1>2, <1>3, NoChoice DEF Editor!Escape

(* Each key is answered by what Editing says of that key.                  *)
LEMMA FeedEdits ==
  ASSUME LineInv, CompletionsFit, Rounds(l), linenoiseEditFeed
  PROVE  Editor!Next
<1>1. PICK b, c : b = Editor!Before /\ c = Editor!Behind /\ LeftOf(Now) = b /\ RightOf(Now) = c
  BY NowIsLine
<1>2. ASSUME NEW k \in settings.typed, k = Tab => Completions(CString(l)) = <<>>, asked' = k, linenoiseEditInsert(k)
      PROVE  Editor!Next
  <2>1. Editor!Edit(Editor!Typed(k, Editor!Before, Editor!Behind))
    BY <1>1, <1>2, InsertEdits
  <2>2. k = Tab => Completions(SubSeq(Text(l), 1, l.pos) \o SubSeq(Text(l), l.pos + 1, l.len)) = <<>>
    BY <1>2, TextIsLine
  <2>3. k \in Chars
    BY SettingsNumbers DEF LineInv
  <2> QED
    BY <1>2, <2>1, <2>2, <2>3 DEF Editor!Next
<1>3. ASSUME asked' = Tab, CompletionKey(CompleteTab) PROVE Editor!Next
  BY <1>3, TabEdits DEF Editor!Next
<1>4. ASSUME asked' = "escape", CompletionKey(CompleteEscape) \/ (~l.in_completion /\ Forgotten) PROVE Editor!Next
  BY <1>4, EscapeEdits DEF Editor!Next
<1>5. ASSUME asked' \in {"ctrl_b", "left"}, linenoiseEditMoveLeft PROVE Editor!Next
  BY <1>1, <1>5, KeysEdit DEF Editor!Next
<1>6. ASSUME asked' \in {"ctrl_f", "right"}, linenoiseEditMoveRight PROVE Editor!Next
  BY <1>1, <1>6, KeysEdit DEF Editor!Next
<1>7. ASSUME asked' \in {"ctrl_a", "home"}, linenoiseEditMoveHome PROVE Editor!Next
  BY <1>1, <1>7, KeysEdit DEF Editor!Next
<1>8. ASSUME asked' \in {"ctrl_e", "end"}, linenoiseEditMoveEnd PROVE Editor!Next
  BY <1>1, <1>8, KeysEdit DEF Editor!Next
<1>9. ASSUME asked' = "backspace", linenoiseEditBackspace PROVE Editor!Next
  BY <1>1, <1>9, KeysEdit DEF Editor!Next
<1>10. ASSUME asked' = "delete", linenoiseEditDelete PROVE Editor!Next
  BY <1>1, <1>10, KeysEdit DEF Editor!Next
<1>11. ASSUME asked' = "ctrl_d", Completed(Here).l.len > 0, linenoiseEditDelete PROVE Editor!Next
  <2>1. Editor!Before \o Editor!Behind # <<>>
    BY <1>11, TextLength DEF Now
  <2> QED
    BY <1>1, <1>11, <2>1, KeysEdit DEF Editor!Next
<1>12. ASSUME asked' = "ctrl_d", EndOfFile PROVE Editor!Next
  BY <1>12, LeaveEdits DEF Editor!Next
<1>13. ASSUME asked' = "ctrl_w", linenoiseEditDeletePrevWord PROVE Editor!Next
  BY <1>1, <1>13, KeysEdit DEF Editor!Next
<1>14. ASSUME asked' = "ctrl_t", Transpose PROVE Editor!Next
  BY <1>1, <1>14, KeysEdit DEF Editor!Next
<1>15. ASSUME asked' = "ctrl_u", DeleteLine PROVE Editor!Next
  BY <1>1, <1>15, KeysEdit DEF Editor!Next
<1>16. ASSUME asked' = "ctrl_k", DeleteToEnd PROVE Editor!Next
  BY <1>1, <1>16, KeysEdit DEF Editor!Next
<1>17. ASSUME asked' = "ctrl_l", ClearScreen PROVE Editor!Next
  BY <1>17, ClearEdits DEF Editor!Next
<1>18. ASSUME asked' \in {"ctrl_p", "up"}, linenoiseEditHistoryNext(1) PROVE Editor!Next
  BY <1>18, RecallEdits DEF Editor!Next
<1>19. ASSUME asked' \in {"ctrl_n", "down"}, linenoiseEditHistoryNext(-1) PROVE Editor!Next
  BY <1>19, RecallEdits DEF Editor!Next
<1>20. ASSUME asked' = "enter", Enter PROVE Editor!Next
  BY <1>20, EnterEdits DEF Editor!Next
<1>21. ASSUME asked' = "ctrl_c", CtrlC PROVE Editor!Next
  BY <1>21, LeaveEdits DEF Editor!Next
<1>22. CASE EscapeSequence
  BY <1>4, <1>5, <1>6, <1>7, <1>8, <1>10, <1>18, <1>19, <1>22 DEF EscapeSequence
<1> QED
  BY <1>2, <1>3, <1>4, <1>5, <1>6, <1>7, <1>8, <1>9, <1>11, <1>12, <1>13, <1>14, <1>15, <1>16, <1>17, <1>18,
     <1>19, <1>20, <1>21, <1>22 DEF linenoiseEditFeed

(* Any other key ends the completion, and leaving leaves no line.          *)
LEMMA FeedKeeps ==
  ASSUME LineInv, CompletionsFit, Rounds(l), linenoiseEditFeed
  PROVE  Rounds(l') /\ (phase' = "idle" => l' = Fresh)
<1>1. ~l'.in_completion => Rounds(l')
  BY DEF Rounds
<1>2. ASSUME NEW c \in settings.typed, linenoiseEditInsert(c) PROVE ~l'.in_completion /\ phase' # "idle"
  <2>1. Line(Now) /\ ~Now.in_completion /\ c \in Chars
    BY NowIs, SettingsNumbers DEF LineInv
  <2>2. Now.len < BufLen => ~Inserted(Now, c).in_completion
    BY <2>1, InsertedIs DEF Becomes
  <2>3. SameLine(l', IF Now.len < BufLen THEN Inserted(Now, c) ELSE Now)
    BY <1>2, InsertKeeps
  <2> QED
    BY <1>2, <2>1, <2>2, <2>3 DEF SameLine, linenoiseEditInsert
<1>3. CASE CompletionKey(CompleteTab)
  BY <1>3, TabEdits DEF CompletionKey
<1>4. CASE CompletionKey(CompleteEscape)
  BY <1>1, <1>4, EscapeKeeps DEF CompletionKey
<1>5. CASE \/ linenoiseEditMoveLeft \/ linenoiseEditMoveRight \/ linenoiseEditMoveHome \/ linenoiseEditMoveEnd
           \/ linenoiseEditDelete \/ linenoiseEditBackspace \/ linenoiseEditDeletePrevWord
           \/ Transpose \/ DeleteLine \/ DeleteToEnd
  <2>1. PICK moved, d : IsKey(moved, d)
    BY <1>5, KeysMakeLines
  <2>2. moved => SameLine(l', d) /\ \E p, n : Becomes(Now, d, p, n)
    BY <2>1, KeyKeeps DEF IsKey
  <2>3. ~moved => l' = Now
    BY <2>1 DEF IsKey, Pressed, Now
  <2>4. ~l'.in_completion
    BY <2>2, <2>3, NowIs DEF SameLine, Becomes
  <2>5. phase' # "idle"
    BY <2>1 DEF IsKey, Pressed
  <2> QED
    BY <1>1, <2>4, <2>5
<1>6. CASE ClearScreen
  BY <1>1, <1>6, ClearKeeps, NowIs DEF SameLine, ClearScreen
<1>7. ASSUME NEW step \in {1, -1}, linenoiseEditHistoryNext(step) PROVE ~l'.in_completion /\ phase' # "idle"
  BY <1>7, RecallEdits DEF linenoiseEditHistoryNext
<1>8. CASE Enter
  BY <1>1, <1>8, EnterKeeps DEF Enter
<1>9. CASE CtrlC \/ EndOfFile
  BY <1>1, <1>9, FreshSides DEF CtrlC, EndOfFile, Left
<1>10. CASE Forgotten
  BY <1>10 DEF Forgotten, Rounds, CString, Bytes, Strlen
<1> QED
  BY <1>1, <1>2, <1>3, <1>4, <1>5, <1>6, <1>7, <1>8, <1>9, <1>10, FeedDoes

LEMMA StepEdits ==
  ASSUME Between, CompletionsFit, [Next]_vars
  PROVE  Between' /\ [Editor!Next]_(Editor!vars)
<1>1. LineInv /\ LineInv' /\ Rounds(l) /\ (phase = "idle" => l = Fresh)
  BY LineStep DEF Between
<1>2. Rounds(Fresh)
  BY FreshSides DEF Rounds
<1>3. Rounds(l') /\ (phase' = "idle" => l' = Fresh)
  <2>1. ASSUME l' = l PROVE Rounds(l')
    BY <1>1, <2>1
  <2>2. CASE UNCHANGED vars
    BY <1>1, <2>1, <2>2 DEF vars
  <2>3. CASE linenoiseEditStart
    BY <1>2, <2>3 DEF linenoiseEditStart
  <2>4. CASE linenoiseEditFeed
    BY <1>1, <2>4, FeedKeeps
  <2>5. CASE phase = "idle" /\ (linenoiseNoTTY \/ UnsupportedTerm)
    BY <1>1, <2>1, <2>5 DEF linenoiseNoTTY, UnsupportedTerm
  <2>6. CASE read
    BY <1>2, <2>6 DEF read, Left
  <2>7. CASE \E n \in settings.lens : linenoiseHistorySetMaxLen(n) \/ linenoiseHistoryLoad(n)
    BY <1>1, <2>1, <2>7 DEF linenoiseHistorySetMaxLen, linenoiseHistoryLoad
  <2>8. CASE asked' = asked /\ (linenoiseHide \/ linenoiseShow)
    <3>1. phase' # "idle"
      BY <2>8 DEF linenoiseHide, linenoiseShow
    <3> QED
      BY <1>1, <2>8, <3>1, HiddenStutters
  <2> QED
    BY <2>2, <2>3, <2>4, <2>5, <2>6, <2>7, <2>8 DEF Next, linenoise, linenoiseBlockingEdit
<1>4. Between'
  <2>1. Rounds(l)'
    BY <1>3 DEF Rounds, CString, Bytes, Strlen
  <2> QED
    BY <1>1, <1>3, <2>1 DEF Between, Fresh
<1>5. [Editor!Next]_(Editor!vars)
  <2>1. CASE UNCHANGED vars
    BY <2>1, SameLeft DEF vars, Editor!vars
  <2>2. CASE asked' = "start" /\ linenoiseEditStart
    BY <1>1, <2>2, StartEdits DEF Editor!Next
  <2>3. CASE linenoiseEditFeed
    BY <1>1, <2>3, FeedEdits
  <2>4. CASE asked' = "receive" /\ phase = "idle" /\ (linenoiseNoTTY \/ UnsupportedTerm)
    BY <1>1, <2>4, ReceiveEdits DEF Editor!Next
  <2>5. CASE asked' = "keep" /\ read
    BY <1>1, <2>5, KeepEdits DEF Editor!Next
  <2>6. CASE \E n \in settings.lens :
               \/ asked' = "set_max" /\ linenoiseHistorySetMaxLen(n)
               \/ asked' = "load" /\ linenoiseHistoryLoad(n)
    BY <1>1, <2>6, SetMaxEdits, ReloadEdits DEF Editor!Next
  <2>7. CASE asked' = asked /\ (linenoiseHide \/ linenoiseShow)
    BY <1>1, <2>7, HiddenStutters
  <2> QED
    BY <2>1, <2>2, <2>3, <2>4, <2>5, <2>6, <2>7 DEF Next, linenoise, linenoiseBlockingEdit
<1> QED
  BY <1>4, <1>5

(* Each key does to the line what Editing says that this key is for, up    *)
(* and down go through the history that the lines handed over have made,   *)
(* and the file gives it back: linenoise.c, with its zero, its memmoves,   *)
(* its completions and its index from the end of the history, is the       *)
(* editor that Editing describes, key by key.                              *)
THEOREM EditorMeant == CompletionsFit => (Spec => EditsAsMeant)
<1> SUFFICES ASSUME CompletionsFit PROVE Spec => EditsAsMeant
  OBVIOUS
<1>1. Init => Between /\ Editor!Init
  BY BetweenInit
<1>2. Between /\ [Next]_vars => Between' /\ [Editor!Next]_(Editor!vars)
  BY StepEdits
<1> QED
  BY <1>1, <1>2, PTL DEF Spec, EditsAsMeant, Editor!Spec
=============================================================================
