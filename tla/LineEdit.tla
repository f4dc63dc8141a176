------------------------------ MODULE LineEdit ------------------------------
(***************************************************************************)
(* linenoise.c, the line editor of the REPL, on a terminal: the buffer and *)
(* its cursor, the history, completions, and the drawing of the line in    *)
(* one row (a window that slides) or in as many as it takes.  A key reads  *)
(* and draws before the next one is read; an escape sequence is one key,   *)
(* unless a completion is under way, which takes its first byte.  A        *)
(* character is a byte that takes one column.  Without a terminal lines    *)
(* are read as they come, and with one that knows no escape sequences      *)
(* fgets reads them.                                                       *)
(*                                                                         *)
(* The terminal is external: it has rows of cols cells and a cursor, which *)
(* stays behind the last cell of a full row until something more is        *)
(* written.  Row 0 holds what was there before.                            *)
(***************************************************************************)
EXTENDS Integers, Sequences, SequencesExt, FiniteSetsExt

CONSTANTS
  Chars, Space, Tab,  (* what can be typed, two of which mean more         *)
  BufLen,          (* l->buflen, the bytes of the buffer without its zero  *)
  PromptLen,       (* columns of the prompt                                *)
  Settings,        (* records: mlmode, maskmode, whether there are hints,  *)
                   (* the columns that getColumns finds, what may be typed *)
                   (* what history_max_len may be, and where the input     *)
                   (* comes from: "tty", "dumb" (a terminal) or "pipe"     *)
  Completions(_)   (* what completionCallback adds for a line              *)

Nul == "nul"
Eol == "eol"

ASSUME LineEditAssumption ==
  /\ {Space, Tab} \subseteq Chars /\ Chars \cap {Nul, Eol} = {} /\ BufLen \in Nat \ {0} /\ PromptLen \in Nat \ {0}
  /\ \A s \in Settings : s.typed \subseteq Chars /\ s.lens \subseteq Nat \ {0} /\ s.cols \in Nat /\ s.cols > PromptLen

VARIABLES
  l,        (* struct linenoiseState                                       *)
  history, history_max_len,
  term,     (* the terminal                                                *)
  settings, (* one of Settings                                             *)
  stdin,    (* the lines that fgets will make of what was typed            *)
  phase,    (* "idle", "edit", "hidden", or "done": a line is handed over  *)
  asked     (* what was asked last: the key that was read, or the call     *)

vars == <<l, history, history_max_len, term, settings, stdin, phase, asked>>

Min2(x, y) == IF x < y THEN x ELSE y

(* ---- the terminal ------------------------------------------------------ *)
Rows == 1 + (PromptLen + BufLen) \div Min({s.cols : s \in Settings}) + 2
Cells == (0..Rows) \X (0..(settings.cols - 1))
Blank == [cell |-> [p \in Cells |-> IF p[1] = 0 THEN "old" ELSE "blank"], row |-> 1, col |-> 0, top |-> 1]

Put(t, c) ==
  LET row == IF t.col = settings.cols THEN t.row + 1 ELSE t.row
      col == IF t.col = settings.cols THEN 0 ELSE t.col
  IN [t EXCEPT !.cell[<<row, col>>] = c, !.row = row, !.col = col + 1]
Type(t, s) == LET typed[i \in 0..Len(s)] == IF i = 0 THEN t ELSE Put(typed[i - 1], s[i])
              IN typed[Len(s)]
Return(t) == [t EXCEPT !.col = 0]
Newline(t) == [t EXCEPT !.row = @ + 1]
Up(t, n) == [t EXCEPT !.row = Max({0, @ - n})]
Down(t, n) == [t EXCEPT !.row = Min2(Rows, @ + n)]
Right(t, n) == [t EXCEPT !.col = Min2(settings.cols - 1, @ + n)]
EraseRight(t) == [t EXCEPT !.cell = [p \in DOMAIN @ |->
                    IF p[1] = t.row /\ p[2] >= t.col THEN "blank" ELSE @[p]]]
linenoiseClearScreen(t) == [t EXCEPT !.cell = [p \in DOMAIN @ |-> "blank"], !.row = 0, !.col = 0, !.top = 0]

(* ---- drawing the line -------------------------------------------------- *)
Bytes(e, from, n) == [i \in 1..n |-> e.buf[from + i - 1]]
Text(e) == Bytes(e, 0, e.len)
Prompt == [i \in 1..PromptLen |-> "prompt"]
Masked(s) == IF settings.mask THEN [i \in DOMAIN s |-> "star"] ELSE s
Hint(e, hints) == [i \in 1..(IF hints THEN Max({0, settings.cols - (PromptLen + e.len)}) ELSE 0) |-> "hint"]

refreshSingleLine(e, t, write, hints) ==
  LET skip == Max({0, PromptLen + e.pos - settings.cols + 1})
      n == Min2(e.len - skip, settings.cols - PromptLen)
  IN IF write
     THEN Right(Return(EraseRight(Type(Return(t), Prompt \o Masked(Bytes(e, skip, n)) \o Hint(e, hints)))),
                PromptLen + e.pos - skip)
     ELSE EraseRight(Return(t))

(* Down to the last row that was drawn, and up again, clearing each.       *)
Cleared(e, t) ==
  LET rpos == (PromptLen + e.oldpos + settings.cols) \div settings.cols
      up[j \in Nat] == IF j = 0 THEN Down(t, Max({0, e.oldrows - rpos}))
                       ELSE Up(EraseRight(Return(up[j - 1])), 1)
  IN up[Max({0, e.oldrows - 1})]

(* A line that ends with its row has its cursor in the next one.           *)
Wraps(e) == e.pos > 0 /\ e.pos = e.len /\ (e.pos + PromptLen) % settings.cols = 0
RowsOf(e) == (PromptLen + e.len + settings.cols - 1) \div settings.cols

WriteLines(e, t, hints) ==
  LET rows == RowsOf(e) + (IF Wraps(e) THEN 1 ELSE 0)
      written == Type(t, Prompt \o Masked(Text(e)) \o Hint(e, hints))
      ended == IF Wraps(e) THEN Return(Newline(written)) ELSE written
      rpos2 == (PromptLen + e.pos + settings.cols) \div settings.cols
  IN Right(Return(Up(ended, rows - rpos2)), (PromptLen + e.pos) % settings.cols)

refreshMultiLine(e, t, clean, write, hints) ==
  LET cleared == EraseRight(Return(IF clean THEN Cleared(e, t) ELSE t))
  IN IF write THEN WriteLines(e, cleared, hints) ELSE cleared

(* A faulty variant: the cursor is thought to be where it was drawn first. *)
Drawn_forgets(e, write) == [e EXCEPT !.oldrows = RowsOf(e) + (IF write /\ Wraps(e) THEN 1 ELSE 0)]

(* What refreshMultiLine keeps for the next time.                          *)
Drawn(e, write) == [e EXCEPT !.oldpos = e.pos,
                             !.oldrows = RowsOf(e) + (IF write /\ Wraps(e) THEN 1 ELSE 0)]

(* An edit is the linenoiseState and the terminal.                         *)
refreshLineWithFlags(x, clean, write, hints) ==
  IF settings.ml THEN [l |-> Drawn(x.l, write), t |-> refreshMultiLine(x.l, x.t, clean, write, hints)]
              ELSE [l |-> x.l, t |-> refreshSingleLine(x.l, x.t, write, hints)]
refreshLine(x) == refreshLineWithFlags(x, TRUE, TRUE, settings.hints)

(* ---- the buffer -------------------------------------------------------- *)
memmove(buf, to, from, n) == [i \in DOMAIN buf |-> IF i \in to..(to + n - 1) THEN buf[i - to + from] ELSE buf[i]]

(* strncpy fills with zeros; snprintf cuts to n - 1 and puts one.          *)
strncpy(buf, s, n) == [i \in DOMAIN buf |-> IF i >= n THEN buf[i] ELSE IF i < Len(s) THEN s[i + 1] ELSE Nul]
Strlen(e) == Min({i \in DOMAIN e.buf : e.buf[i] = Nul})
CString(e) == Bytes(e, 0, Strlen(e))

(* ---- completions ------------------------------------------------------- *)
Shows(e) == e.in_completion /\ e.completion_idx < Len(Completions(CString(e)))
Candidate(e) == Completions(CString(e))[e.completion_idx + 1]

refreshLineWithCompletion(x, clean, write) ==
  IF ~Shows(x.l) THEN refreshLineWithFlags(x, clean, write, settings.hints)
  ELSE LET c == Candidate(x.l)
           shown == [x.l EXCEPT !.len = Len(c), !.pos = Len(c), !.buf = [i \in 0..Len(c) |->
                       IF i < Len(c) THEN c[i + 1] ELSE Nul]]
           new == refreshLineWithFlags([x EXCEPT !.l = shown], clean, write, settings.hints)
       IN [new EXCEPT !.l.len = x.l.len, !.l.pos = x.l.pos, !.l.buf = x.l.buf]

(* The tab key goes round the candidates and the line itself; without one  *)
(* it is a character.                                                      *)
CompleteTab(x) ==
  LET n == Len(Completions(CString(x.l)))
      next == IF x.l.in_completion THEN [x.l EXCEPT !.completion_idx = (@ + 1) % (n + 1)]
                                   ELSE [x.l EXCEPT !.in_completion = TRUE, !.completion_idx = 0]
  IN refreshLineWithCompletion([x EXCEPT !.l = next], TRUE, TRUE)

CompleteEscape(x) ==
  refreshLine([IF Shows(x.l) THEN refreshLine(x) ELSE x EXCEPT !.l.in_completion = FALSE])

(* Every other byte takes the candidate before it does its own work.       *)
Completed(x) ==
  IF ~x.l.in_completion THEN x
  ELSE refreshLine([x EXCEPT !.l =
         IF ~Shows(x.l) THEN [x.l EXCEPT !.in_completion = FALSE]
         ELSE LET c == Candidate(x.l) IN
              [x.l EXCEPT !.in_completion = FALSE, !.len = Len(c), !.pos = Len(c),
                 !.buf = strncpy([@ EXCEPT ![Min2(Len(c), BufLen - 1)] = Nul], c, Min2(Len(c), BufLen - 1))]])

(* ---- the keys ----------------------------------------------------------- *)
Here == [l |-> l, t |-> term]

(* Key(e) is the line a key makes; Moved says when it is drawn again.      *)
Key(Change(_), Moved(_)) ==
  /\ phase = "edit"
  /\ \E x \in {Completed(Here)} :
     \E y \in {IF Moved(x.l) THEN refreshLine([x EXCEPT !.l = Change(x.l)]) ELSE x} :
       l' = y.l /\ term' = y.t
  /\ UNCHANGED <<history, history_max_len, settings, stdin, phase>>

Inserted(e, c) ==
  [e EXCEPT !.buf = [memmove(@, e.pos + 1, e.pos, e.len - e.pos) EXCEPT ![e.pos] = c, ![e.len + 1] = Nul],
            !.len = @ + 1, !.pos = @ + 1]

(* A character at the end of a short line is all that is written.          *)
InsertDrawn(x, c) ==
  LET new == Inserted(x.l, c) IN
  IF x.l.len = x.l.pos /\ ~settings.ml /\ PromptLen + new.len < settings.cols /\ ~settings.hints
  THEN [l |-> new, t |-> Type(x.t, Masked(<<c>>))]
  ELSE refreshLine([x EXCEPT !.l = new])

linenoiseEditInsert(c) ==
  /\ phase = "edit"
  /\ \E x \in {Completed(Here)} : \E y \in {IF x.l.len < BufLen THEN InsertDrawn(x, c) ELSE x} :
       l' = y.l /\ term' = y.t
  /\ UNCHANGED <<history, history_max_len, settings, stdin, phase>>

CompletionKey(Complete(_)) ==
  /\ phase = "edit" /\ Completions(CString(l)) # <<>>
  /\ \E y \in {Complete(Here)} : l' = y.l /\ term' = y.t
  /\ UNCHANGED <<history, history_max_len, settings, stdin, phase>>

linenoiseEditMoveLeft == Key(LAMBDA e : [e EXCEPT !.pos = @ - 1], LAMBDA e : e.pos > 0)
linenoiseEditMoveRight == Key(LAMBDA e : [e EXCEPT !.pos = @ + 1], LAMBDA e : e.pos # e.len)

(* A faulty variant: the end for the start.                                *)
MoveHome_ends == Key(LAMBDA e : [e EXCEPT !.pos = e.len], LAMBDA e : e.pos # e.len)

linenoiseEditMoveHome == Key(LAMBDA e : [e EXCEPT !.pos = 0], LAMBDA e : e.pos # 0)
linenoiseEditMoveEnd == Key(LAMBDA e : [e EXCEPT !.pos = e.len], LAMBDA e : e.pos # e.len)

linenoiseEditDelete ==
  Key(LAMBDA e : [e EXCEPT !.buf = [memmove(@, e.pos, e.pos + 1, e.len - e.pos - 1) EXCEPT ![e.len - 1] = Nul],
                           !.len = @ - 1],
      LAMBDA e : e.pos < e.len)

linenoiseEditBackspace ==
  Key(LAMBDA e : [e EXCEPT !.buf = [memmove(@, e.pos - 1, e.pos, e.len - e.pos) EXCEPT ![e.len - 1] = Nul],
                           !.len = @ - 1, !.pos = @ - 1],
      LAMBDA e : e.pos > 0)

WordStart(e) ==
  LET last == Max({0} \cup {i \in 1..e.pos : e.buf[i - 1] # Space})
  IN Max({0} \cup {i \in 1..last : e.buf[i - 1] = Space})

(* A faulty variant: the zero at the end is not moved.                     *)
DeletedWord_keeps_end(e) ==
  LET at == WordStart(e) IN
  [e EXCEPT !.buf = memmove(@, at, e.pos, e.len - e.pos), !.pos = at, !.len = @ - (e.pos - at)]

DeletedWord(e) ==
  LET at == WordStart(e) IN
  [e EXCEPT !.buf = memmove(@, at, e.pos, e.len - e.pos + 1), !.pos = at, !.len = @ - (e.pos - at)]

linenoiseEditDeletePrevWord == Key(DeletedWord, LAMBDA e : TRUE)

Transpose ==
  Key(LAMBDA e : [e EXCEPT !.buf[e.pos - 1] = e.buf[e.pos], !.buf[e.pos] = e.buf[e.pos - 1],
                           !.pos = IF @ # e.len - 1 THEN @ + 1 ELSE @],
      LAMBDA e : e.pos > 0 /\ e.pos < e.len)

DeleteLine == Key(LAMBDA e : [e EXCEPT !.buf[0] = Nul, !.pos = 0, !.len = 0], LAMBDA e : TRUE)
DeleteToEnd == Key(LAMBDA e : [e EXCEPT !.buf[e.pos] = Nul, !.len = e.pos], LAMBDA e : TRUE)

ClearScreen ==
  /\ phase = "edit"
  /\ \E x \in {Completed(Here)} : \E y \in {refreshLine([x EXCEPT !.t = linenoiseClearScreen(@)])} :
       l' = y.l /\ term' = y.t
  /\ UNCHANGED <<history, history_max_len, settings, stdin, phase>>

(* ---- the history -------------------------------------------------------- *)
linenoiseHistoryAdd(h, max, line) ==
  IF h # <<>> /\ Last(h) = line THEN h
  ELSE Append(IF Len(h) = max THEN Tail(h) ELSE h, line)
Added(line) == linenoiseHistoryAdd(history, history_max_len, line)

Place(e) == Len(history) - e.history_index

(* A faulty variant: the line is taken without a look at the buffer.       *)
Recalled_whole(e, line) ==
  [e EXCEPT !.buf = strncpy(@, line, BufLen), !.len = Len(line), !.pos = Len(line)]

Recalled(e, line) ==
  LET new == [e EXCEPT !.buf = [strncpy(@, line, BufLen) EXCEPT ![BufLen - 1] = Nul]]
  IN [new EXCEPT !.len = Strlen(new), !.pos = Strlen(new)]

linenoiseEditHistoryNext(step) ==
  /\ phase = "edit"
  /\ \E x \in {Completed(Here)} :
       IF Len(history) <= 1 THEN l' = x.l /\ term' = x.t /\ UNCHANGED history
       ELSE \E h \in {[history EXCEPT ![Place(x.l)] = CString(x.l)]} :
            LET index == x.l.history_index + step
                y == IF index \notin 0..(Len(h) - 1) THEN x
                     ELSE refreshLine([x EXCEPT !.l =
                            Recalled([x.l EXCEPT !.history_index = index], h[Len(h) - index])])
            IN history' = h /\ l' = y.l /\ term' = y.t
  /\ UNCHANGED <<history_max_len, settings, stdin, phase>>

(* ---- a call of linenoise ------------------------------------------------ *)
Fresh == [buf |-> [i \in 0..BufLen |-> Nul], pos |-> 0, len |-> 0, oldpos |-> 0, oldrows |-> 0,
          history_index |-> 0, in_completion |-> FALSE, completion_idx |-> 0]

Init == /\ settings \in Settings
        /\ l = Fresh /\ term = Blank
        /\ history = <<>> /\ history_max_len \in settings.lens /\ stdin = <<>>
        /\ phase = "idle" /\ asked = "nothing"

linenoiseEditStart ==
  /\ phase = "idle" /\ phase' = "edit"
  /\ l' = Fresh
  /\ history' = Added(<<>>)
  /\ term' = Type(Blank, Prompt)
  /\ UNCHANGED <<history_max_len, settings, stdin>>

(* The last place in the history goes, the line is drawn without a hint,   *)
(* and in several rows with the cursor at its end.                         *)
Enter ==
  /\ phase = "edit" /\ phase' = "done"
  /\ history' = Front(history)
  /\ \E x \in {Completed(Here)} :
     \E y \in {IF settings.ml /\ x.l.pos # x.l.len THEN refreshLine([x EXCEPT !.l.pos = x.l.len]) ELSE x} :
     \E z \in {IF settings.hints THEN refreshLineWithFlags(y, TRUE, TRUE, FALSE) ELSE y} :
       l' = z.l /\ term' = z.t
  /\ UNCHANGED <<history_max_len, settings, stdin>>

Left == /\ phase' = "idle"
        /\ l' = Fresh /\ term' = Blank
        /\ UNCHANGED <<history_max_len, settings, stdin>>

(* The REPL adds the line to the history.                                  *)
read == /\ phase = "done"
        /\ history' = Added(CString(l))
        /\ Left

CtrlC == phase = "edit" /\ Left /\ UNCHANGED history

(* Ctrl-D on an empty line.                                                *)
EndOfFile == /\ phase = "edit" /\ Completed(Here).l.len = 0
             /\ history' = Front(history)
             /\ Left

linenoiseHistorySetMaxLen(n) ==
  /\ phase = "idle"
  /\ history' = SubSeq(history, Max({0, Len(history) - n}) + 1, Len(history))
  /\ history_max_len' = n
  /\ UNCHANGED <<l, term, settings, stdin, phase>>

(* The program takes the line off the screen, writes, and shows it again.  *)
linenoiseHide ==
  /\ phase = "edit" /\ phase' = "hidden"
  /\ \E x \in {refreshLineWithFlags(Here, TRUE, FALSE, FALSE)} : l' = x.l /\ term' = x.t
  /\ UNCHANGED <<history, history_max_len, settings, stdin>>

linenoiseShow ==
  /\ phase = "hidden" /\ phase' = "edit"
  /\ \E x \in {[Here EXCEPT !.t = Blank]} : \E y \in {refreshLineWithCompletion(x, FALSE, TRUE)} :
       l' = y.l /\ term' = y.t
  /\ UNCHANGED <<history, history_max_len, settings, stdin>>

(* ---- lines that are not edited, and the file of the history ------------- *)
Lines == BoundedSeq(settings.typed, BufLen + 1)

(* fgets takes BufLen characters of s at a time; the end of the line, the  *)
(* last of them, is cut off.                                               *)
Cut(s) == IF Last(s) = Eol THEN Front(s) ELSE s
fgets(s) ==
  [i \in 1..((Len(s) + BufLen - 1) \div BufLen) |->
     Cut(SubSeq(s, (i - 1) * BufLen + 1, Min2(i * BufLen, Len(s))))]

linenoiseNoTTY ==
  /\ settings.input = "pipe"
  /\ \E line \in Lines : history' = Added(line)
  /\ UNCHANGED <<l, history_max_len, term, settings, stdin, phase>>

isUnsupportedTerm == settings.input = "dumb"

UnsupportedTerm ==
  /\ isUnsupportedTerm
  /\ \E read_ \in IF stdin = <<>> THEN {fgets(Append(line, Eol)) : line \in Lines} ELSE {stdin} :
       stdin' = Tail(read_) /\ history' = Added(Head(read_))
  /\ UNCHANGED <<l, history_max_len, term, settings, phase>>

(* A program saves the history, and another one gives it a length and      *)
(* loads it.                                                               *)
linenoiseHistorySave == [i \in DOMAIN history |-> Append(history[i], Eol)]

AddedAll(h, max, lines) ==
  LET add[i \in 0..Len(lines)] == IF i = 0 THEN h ELSE linenoiseHistoryAdd(add[i - 1], max, lines[i])
  IN add[Len(lines)]

Loaded(max) ==
  LET load[i \in 0..Len(history)] ==
        IF i = 0 THEN <<>> ELSE AddedAll(load[i - 1], max, fgets(linenoiseHistorySave[i]))
  IN load[Len(history)]

linenoiseHistoryLoad(n) ==
  /\ phase = "idle"
  /\ history' = Loaded(n)
  /\ history_max_len' = n
  /\ UNCHANGED <<l, term, settings, stdin, phase>>

(* ---- what is read ------------------------------------------------------ *)
(* The keys that send an escape and two or three bytes more.  Where those  *)
(* mean nothing, or the escape key was all that was pressed, they are read *)
(* and forgotten.                                                          *)
Forgotten == phase = "edit" /\ UNCHANGED <<l, history, history_max_len, term, settings, stdin, phase>>

EscapeSequence ==
  /\ ~l.in_completion
  /\ \/ asked' = "up" /\ linenoiseEditHistoryNext(1)
     \/ asked' = "down" /\ linenoiseEditHistoryNext(-1)
     \/ asked' = "right" /\ linenoiseEditMoveRight
     \/ asked' = "left" /\ linenoiseEditMoveLeft
     \/ asked' = "home" /\ linenoiseEditMoveHome
     \/ asked' = "end" /\ linenoiseEditMoveEnd
     \/ asked' = "delete" /\ linenoiseEditDelete
     \/ asked' = "escape" /\ Forgotten

(* A tab or an escape may be for the completion.  Where an escape gives it *)
(* up, the bytes after it are characters like any others.                  *)
linenoiseEditFeed ==
  \/ \E c \in settings.typed :
       (c = Tab => Completions(CString(l)) = <<>>) /\ asked' = c /\ linenoiseEditInsert(c)
  \/ asked' = Tab /\ CompletionKey(CompleteTab)
  \/ asked' = "escape" /\ l.in_completion /\ CompletionKey(CompleteEscape)
  \/ EscapeSequence
  \/ asked' = "enter" /\ Enter
  \/ asked' = "ctrl_c" /\ CtrlC
  \/ asked' = "backspace" /\ linenoiseEditBackspace
  \/ asked' = "ctrl_d" /\ Completed(Here).l.len > 0 /\ linenoiseEditDelete
  \/ asked' = "ctrl_d" /\ EndOfFile
  \/ asked' = "ctrl_t" /\ Transpose
  \/ asked' = "ctrl_b" /\ linenoiseEditMoveLeft
  \/ asked' = "ctrl_f" /\ linenoiseEditMoveRight
  \/ asked' = "ctrl_p" /\ linenoiseEditHistoryNext(1)
  \/ asked' = "ctrl_n" /\ linenoiseEditHistoryNext(-1)
  \/ asked' = "ctrl_u" /\ DeleteLine
  \/ asked' = "ctrl_k" /\ DeleteToEnd
  \/ asked' = "ctrl_a" /\ linenoiseEditMoveHome
  \/ asked' = "ctrl_e" /\ linenoiseEditMoveEnd
  \/ asked' = "ctrl_l" /\ ClearScreen
  \/ asked' = "ctrl_w" /\ linenoiseEditDeletePrevWord

linenoiseBlockingEdit == (asked' = "start" /\ linenoiseEditStart) \/ linenoiseEditFeed

linenoise == \/ settings.input = "tty" /\ linenoiseBlockingEdit
             \/ phase = "idle" /\ asked' = "receive" /\ (linenoiseNoTTY \/ UnsupportedTerm)

Next ==
  \/ linenoise
  \/ asked' = "keep" /\ read
  \/ \E n \in settings.lens :
       \/ asked' = "set_max" /\ linenoiseHistorySetMaxLen(n)
       \/ asked' = "load" /\ linenoiseHistoryLoad(n)
  \/ UNCHANGED asked /\ (linenoiseHide \/ linenoiseShow)

Spec == Init /\ [][Next]_vars

(* ---- properties --------------------------------------------------------- *)
(* The buffer always ends in a zero where the length says, with the cursor *)
(* before it; what the history keeps fits its length; and the line has its *)
(* place in it.                                                            *)
TypeOK ==
  /\ l.len \in 0..BufLen /\ l.pos \in 0..l.len /\ Strlen(l) = l.len
  /\ l.buf \in [0..BufLen -> Chars \cup {Nul}]
  /\ Len(history) <= history_max_len
  /\ phase \in {"edit", "hidden"} => l.history_index \in 0..(Len(history) - 1)

(* What the person who types should see: after the prompt the line, or the *)
(* candidate that tab has put in its place, and a cursor in it.            *)
Seen == IF Shows(l) THEN Candidate(l) ELSE Text(l)
Cursor == IF Shows(l) THEN Len(Candidate(l)) ELSE l.pos

(* A hint comes with the first key.                                        *)
After == IF settings.hints /\ phase = "edit" THEN {"hint", "blank"} ELSE {"blank"}

RowShows(s) ==
  LET t == term
      row == [i \in 1..settings.cols |-> t.cell[<<t.row, i - 1>>]]
      used == Prompt \o Masked(s)
  IN /\ t.col < settings.cols /\ t.row = t.top
     /\ IsPrefix(used, row)
     /\ \E c \in After : \A i \in (Len(used) + 1)..settings.cols : row[i] = c

(* In one row: the line, or the part of it around the cursor that fits.    *)
WindowShows ==
  \E skip \in 0..Cursor :
    /\ skip > 0 => PromptLen + Cursor - skip = settings.cols - 1
    /\ term.col = PromptLen + Cursor - skip
    /\ RowShows(SubSeq(Seen, skip + 1, Min2(Len(Seen), skip + settings.cols - PromptLen)))

(* In several rows: every cell of the screen is right.                     *)
RowsShow ==
  LET t == term
      used == Prompt \o Masked(Seen)
      place == PromptLen + Cursor
      At(p) == (p[1] - t.top) * settings.cols + p[2] + 1
  IN /\ (t.row - t.top) * settings.cols + t.col = place
     /\ \E c \in After : \A p \in DOMAIN t.cell : p[1] >= t.top =>
          t.cell[p] = IF At(p) <= Len(used) THEN used[At(p)]
                      ELSE IF At(p) <= settings.cols THEN c ELSE "blank"

(* The screen shows the line that is edited, with the cursor where it is,  *)
(* and nothing that was drawn before it; a hidden line has left no trace;  *)
(* and the rows above are not touched.                                     *)
ScreenShowsLine ==
  /\ phase \in {"edit", "done"} => term.row \in 0..Rows /\ term.col \in 0..settings.cols
  /\ phase \in {"edit", "done"} => IF settings.ml THEN RowsShow ELSE WindowShows
  /\ phase = "hidden" => \A p \in DOMAIN term.cell : p[1] >= term.top => term.cell[p] = "blank"
  /\ phase = "hidden" => term.row = term.top /\ term.col = 0
  /\ \A p \in DOMAIN term.cell : p[1] < term.top => term.cell[p] = "old"

Editor == INSTANCE Editing WITH
  left <- SubSeq(Text(l), 1, l.pos), right <- SubSeq(Text(l), l.pos + 1, l.len),
  choice <- IF Shows(l) THEN l.completion_idx + 1 ELSE 0,
  lines <- history, max <- history_max_len, back <- IF phase = "done" THEN 0 ELSE l.history_index,
  phase <- IF phase = "hidden" THEN "edit" ELSE phase,
  MaxLine <- BufLen, MaxLens <- UNION {s.lens : s \in Settings}, MaxRecalled <- BufLen - 1

(* Every key does to the line and to the history what it is for.           *)
EditsAsMeant == Editor!Spec
=============================================================================
