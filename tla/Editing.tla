------------------------------- MODULE Editing -------------------------------
(***************************************************************************)
(* What a line editor promises the person who types: a line with a cursor  *)
(* in it, completions to choose from, a history of lines, the last of      *)
(* which is the one that is being typed, and what each key does to them.   *)
(* No buffer, no terminal.  LineEdit implements it.                        *)
(***************************************************************************)
EXTENDS Integers, Sequences, SequencesExt

CONSTANTS
  Chars, Space, Tab, (* what can be typed, what separates words, and what  *)
                   (* asks for a completion                                *)
  MaxLine,         (* the longest line that can be typed                   *)
  MaxRecalled,     (* the longest one that can be had from the history     *)
  MaxLens,         (* lengths that the history may be given                *)
  Completions(_)   (* what completes a line                                *)

VARIABLES
  asked,         (* what was asked last: a key, or a call                  *)
  left, right,   (* the line, before and after the cursor                  *)
  choice,        (* which of its completions is shown instead, 0 for none  *)
  lines, max,    (* the history, and its greatest length                   *)
  back,          (* how far back in it the line is                         *)
  phase          (* "idle", "edit", or "done": the line is handed over     *)

vars == <<asked, left, right, choice, lines, max, back, phase>>

Init == /\ asked = "nothing" /\ left = <<>> /\ right = <<>> /\ choice = 0 /\ back = 0 /\ phase = "idle"
        /\ lines = <<>> /\ max \in MaxLens

Latest(s, n) == SubSeq(s, Len(s) - n + 1, Len(s))
Kept(line) == IF lines # <<>> /\ Last(lines) = line THEN lines
              ELSE IF Len(lines) < max THEN Append(lines, line)
              ELSE Append(Tail(lines), line)

Empty == left' = <<>> /\ right' = <<>> /\ choice' = 0 /\ back' = 0

Start == /\ phase = "idle" /\ phase' = "edit"
         /\ lines' = Kept(<<>>)
         /\ Empty
         /\ UNCHANGED max

(* Tab goes round the completions and the line itself, and escape goes     *)
(* back to the line.                                                       *)
Complete == LET n == Len(Completions(left \o right)) IN
            /\ phase = "edit" /\ n > 0
            /\ choice' = IF choice = n THEN 0 ELSE choice + 1
            /\ UNCHANGED <<left, right, lines, max, back, phase>>

Escape == /\ phase = "edit" /\ choice' = 0
          /\ UNCHANGED <<left, right, lines, max, back, phase>>

(* For every other key the completion that is shown is the line.           *)
Before == IF choice = 0 THEN left ELSE Completions(left \o right)[choice]
Behind == IF choice = 0 THEN right ELSE <<>>

(* A key makes one of Results of the line, or leaves it when there is none. *)
Edit(Results) ==
  /\ phase = "edit"
  /\ <<left', right'>> \in IF Results = {} THEN {<<Before, Behind>>} ELSE Results
  /\ choice' = 0
  /\ UNCHANGED <<lines, max, back, phase>>

Typed(c, l, r) == IF Len(l) + Len(r) < MaxLine THEN {<<Append(l, c), r>>} ELSE {}
LeftOne(l, r) == IF l = <<>> THEN {} ELSE {<<Front(l), <<Last(l)>> \o r>>}
RightOne(l, r) == IF r = <<>> THEN {} ELSE {<<Append(l, Head(r)), Tail(r)>>}
Home(l, r) == {<<<<>>, l \o r>>}
AtEnd(l, r) == {<<l \o r, <<>>>>}
Backspaced(l, r) == IF l = <<>> THEN {} ELSE {<<Front(l), r>>}
Deleted(l, r) == IF r = <<>> THEN {} ELSE {<<l, Tail(r)>>}
Cleared(l, r) == {<<<<>>, <<>>>>}
CutOff(l, r) == {<<l, <<>>>>}

(* The characters around the cursor change places, and it moves past both, *)
(* unless the second is the last.                                          *)
Swapped(l, r) ==
  IF l = <<>> \/ r = <<>> THEN {}
  ELSE IF Len(r) = 1 THEN {<<Append(Front(l), Head(r)), <<Last(l)>>>>}
  ELSE {<<Front(l) \o <<Head(r), Last(l)>>, Tail(r)>>}

(* The word before the cursor goes, with the spaces after it.              *)
IsWord(s) == \E k \in 0..Len(s) : \A i \in 1..Len(s) : (s[i] = Space) = (i > k)
WordOff(l, r) ==
  {<<SubSeq(l, 1, n), r>> : n \in {n \in 0..Len(l) :
     /\ IsWord(SubSeq(l, n + 1, Len(l)))
     /\ n > 0 => l[n] = Space /\ n < Len(l) /\ l[n + 1] # Space}}

(* The line goes to its place in the history, and the next older or newer  *)
(* one is there to edit, cut when it is too long; without one the line     *)
(* stays.                                                                  *)
Recall(step) ==
  /\ phase = "edit" /\ choice' = 0
  /\ lines' = IF Len(lines) <= 1 THEN lines ELSE [lines EXCEPT ![Len(lines) - back] = Before \o Behind]
  /\ IF Len(lines) > 1 /\ back + step \in 0..(Len(lines) - 1)
     THEN LET line == lines'[Len(lines) - back - step] IN
          /\ back' = back + step
          /\ left' = SubSeq(line, 1, IF Len(line) < MaxRecalled THEN Len(line) ELSE MaxRecalled)
          /\ right' = <<>>
     ELSE back' = back /\ left' = Before /\ right' = Behind
  /\ UNCHANGED <<max, phase>>

(* The place of the line that was typed goes; it is kept once handed over. *)
Enter ==
  /\ phase = "edit" /\ phase' = "done"
  /\ left' \o right' = Before \o Behind
  /\ lines' = Front(lines) /\ choice' = 0 /\ back' = 0
  /\ UNCHANGED max

Keep ==
  /\ phase = "done" /\ phase' = "idle"
  /\ lines' = Kept(left \o right)
  /\ Empty
  /\ UNCHANGED max

(* End of input on an empty line leaves the history as it was; a line that *)
(* is given up leaves its place in it.                                     *)
Leave(history) ==
  /\ phase = "edit" /\ phase' = "idle"
  /\ lines' = history
  /\ Empty
  /\ UNCHANGED max

SetMax == /\ phase = "idle"
          /\ max' \in MaxLens
          /\ lines' = IF Len(lines) <= max' THEN lines ELSE Latest(lines, max')
          /\ UNCHANGED <<left, right, choice, back, phase>>

(* A line that comes from elsewhere is kept as if it had been typed.       *)
Receive == /\ phase = "idle"
           /\ lines' # <<>> /\ lines' = Kept(Last(lines'))
           /\ UNCHANGED <<left, right, choice, max, back, phase>>

(* Another program goes on with the history: repeated lines are there      *)
(* once, those of MaxLine characters and more in pieces, the last of which *)
(* may be empty, and the latest of all that are kept.                      *)
Pieces(line) ==
  [i \in 1..(Len(line) \div MaxLine + 1) |->
     SubSeq(line, (i - 1) * MaxLine + 1, IF i * MaxLine < Len(line) THEN i * MaxLine ELSE Len(line))]
Once(s) ==
  LET once[i \in 0..Len(s)] == IF i = 0 THEN <<>>
                               ELSE IF i > 1 /\ s[i] = s[i - 1] THEN once[i - 1]
                               ELSE Append(once[i - 1], s[i])
  IN once[Len(s)]

Reload == /\ phase = "idle"
          /\ max' \in MaxLens
          /\ LET all == Once(FlattenSeq([i \in DOMAIN lines |-> Pieces(lines[i])]))
             IN lines' = Latest(all, IF Len(all) <= max' THEN Len(all) ELSE max')
          /\ UNCHANGED <<left, right, choice, back, phase>>

Next ==
  \/ asked' = "start" /\ Start
  \/ \E c \in Chars : /\ asked' = c /\ (c = Tab => Completions(left \o right) = <<>>)
                     /\ Edit(Typed(c, Before, Behind))
  \/ asked' = Tab /\ Complete
  \/ asked' = "escape" /\ Escape
  \/ asked' \in {"ctrl_b", "left"} /\ Edit(LeftOne(Before, Behind))
  \/ asked' \in {"ctrl_f", "right"} /\ Edit(RightOne(Before, Behind))
  \/ asked' \in {"ctrl_a", "home"} /\ Edit(Home(Before, Behind))
  \/ asked' \in {"ctrl_e", "end"} /\ Edit(AtEnd(Before, Behind))
  \/ asked' = "backspace" /\ Edit(Backspaced(Before, Behind))
  \/ asked' = "delete" /\ Edit(Deleted(Before, Behind))
  \/ asked' = "ctrl_d" /\ Before \o Behind # <<>> /\ Edit(Deleted(Before, Behind))
  \/ asked' = "ctrl_d" /\ Before \o Behind = <<>> /\ Leave(Front(lines))
  \/ asked' = "ctrl_w" /\ Edit(WordOff(Before, Behind))
  \/ asked' = "ctrl_t" /\ Edit(Swapped(Before, Behind))
  \/ asked' = "ctrl_u" /\ Edit(Cleared(Before, Behind))
  \/ asked' = "ctrl_k" /\ Edit(CutOff(Before, Behind))
  \/ asked' = "ctrl_l" /\ Edit({})
  \/ asked' \in {"ctrl_p", "up"} /\ Recall(1)
  \/ asked' \in {"ctrl_n", "down"} /\ Recall(-1)
  \/ asked' = "enter" /\ Enter
  \/ asked' = "ctrl_c" /\ Leave(lines)
  \/ asked' = "keep" /\ Keep
  \/ asked' = "set_max" /\ SetMax
  \/ asked' = "receive" /\ Receive
  \/ asked' = "load" /\ Reload

Spec == Init /\ [][Next]_vars
=============================================================================
