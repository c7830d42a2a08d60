---------------------------- MODULE Conversation ----------------------------
(***************************************************************************)
(* A conversation on a screen of its own: what was said, the rows that     *)
(* makes at the terminal's size, the window the reader moves over them,    *)
(* the matches they look for, the turns they walk, and the block under     *)
(* them all while a turn runs.                                             *)
(*                                                                         *)
(* A beat answers the keys that wait, settles what the journal has grown   *)
(* by and paints; between two beats the turn writes and the terminal       *)
(* changes size.  A thing said is its kind, and Height and Matches are the *)
(* rows it folds to and those of them that hold the word.  What is typed,  *)
(* the history of questions and the wording are left out; a prompt that    *)
(* grows takes rows as a smaller terminal would.                           *)
(***************************************************************************)
EXTENDS Naturals, Sequences, FiniteSets, SequencesExt, Listing

CONSTANTS
  Sizes,    \* the terminal's columns, and the rows left for the body
  Height,   \* Height[kind, cols, whole]: how many rows it makes
  Matches,  \* Matches[kind, cols, whole]: which of them hold the word
  Block,    \* live.rs: the most rows the block may take
  Resumed,  \* the journals a conversation may open on
  MaxSaid, MaxNotes, MaxKeys
            \* bounds: events, cards and notes, keys of one beat

Events == {"turn/start", "assistant/chunk", "assistant/message", "turn/end"}
Kinds == Events \cup {"opening", "note"}
PageKeys == {"pageup", "pagedown", "ctrl-n", "ctrl-p", "tab", "backtab", "esc"}
WaysOut == {"enter", "ctrl-j", "ctrl-c", "ctrl-d"}

ASSUME ConversationAssumption ==
  /\ \A k \in Kinds, z \in Sizes, w \in BOOLEAN :
       Height[k, z.cols, w] \in Nat /\ Matches[k, z.cols, w] \subseteq 1..Height[k, z.cols, w]
  /\ (\A z \in Sizes : z.body \in Nat) /\ Resumed \subseteq Seq(Events)
  /\ Block \in Nat \ {0} /\ MaxSaid \in Nat /\ MaxNotes \in Nat /\ MaxKeys \in Nat

VARIABLES
  page,   \* the view, Fire, and the part of its composer the block is made of
  unseen, \* events the journal has grown by since it was last settled
  size,   \* the size the terminal last reported
  stage,  \* "line" waits for one, "asked" has one to answer, "turn" runs one
  last    \* the last event of the running turn

conversationVars == <<page, unseen, size, stage, last>>

Less(a, b) == IF a > b THEN a - b ELSE 0
Lesser(a, b) == IF a < b THEN a ELSE b

-----------------------------------------------------------------------------
(* The view.  A row is the kind it belongs to and its place in that.       *)

RowsOf(p, kind) == [r \in 1..Height[kind, p.width, p.whole] |-> <<kind, r>>]
HoldsWord(p, i) == p.lines[i][2] \in Matches[p.lines[i][1], p.width, p.whole]
Matching(p, from) == InOrder({i \in from + 1 .. Len(p.lines) : HoldsWord(p, i)})

mark(p, from) == IF p.wanted THEN [p EXCEPT !.hits = @ \o Matching(p, from)] ELSE p

(* What the composer remembers of an event, for the block.                 *)
Hear(p, kind) ==
  CASE kind = "assistant/chunk"   -> [p EXCEPT !.answer = Lesser(@ + 1, Block)]
    [] kind = "assistant/message" -> [p EXCEPT !.answer = 0]
    [] kind = "turn/end"          -> [p EXCEPT !.over = TRUE]
    [] OTHER                      -> p

Compose(p, kind) == [Hear(p, kind) EXCEPT !.lines = @ \o RowsOf(p, kind)]

Composed(p, kinds) ==
  LET upTo[n \in 0 .. Len(kinds)] ==
        IF n = 0 THEN p ELSE Compose(upTo[n - 1], kinds[n])
  IN  upTo[Len(kinds)]

fill_KeepsHits(p, cols) ==
  LET fresh == [p EXCEPT !.lines = <<>>, !.turns = <<>>, !.answer = 0, !.over = FALSE, !.width = cols]
  IN mark([Composed(fresh, p.said) EXCEPT !.over = @ \/ ~p.working], 0)

(* The whole conversation composed again, through a composer of its own.   *)
fill(p, cols) ==
  LET fresh == [p EXCEPT !.lines = <<>>, !.hits = <<>>, !.turns = <<>>,
                         !.answer = 0, !.over = FALSE, !.width = cols]
  IN mark([Composed(fresh, p.said) EXCEPT !.over = @ \/ ~p.working], 0)

Answered(p, kind) ==
  IF kind = "turn/start" /\ Contains(p.said, "opening")
  THEN fill([p EXCEPT !.said = Picked(@, {i \in DOMAIN @ : @[i] # "opening"})], p.width)
  ELSE p

say_Follows(p, kind) ==
  LET q == Answered(p, kind)
      from == Len(q.lines)
  IN mark([Compose(q, kind) EXCEPT !.said = Append(@, kind),
            !.turns = IF kind = "turn/start" /\ RowsOf(q, kind) # <<>> THEN Append(@, from + 1) ELSE @],
          from)

(* A window that was scrolled back stays where it is.                      *)
say(p, kind) ==
  LET q == Answered(p, kind)
      from == Len(q.lines)
      rows == RowsOf(q, kind)
  IN mark([Compose(q, kind) EXCEPT !.said = Append(@, kind),
            !.back = IF @ > 0 THEN @ + Len(rows) ELSE 0,
            !.turns = IF kind = "turn/start" /\ rows # <<>> THEN Append(@, from + 1) ELSE @],
          from)

Says(p, kinds) ==
  LET upTo[n \in 0 .. Len(kinds)] == IF n = 0 THEN p ELSE say(upTo[n - 1], kinds[n])
  IN  upTo[Len(kinds)]

follow(p) == [p EXCEPT !.back = 0]
Room(p) == IF p.body > 0 THEN p.body ELSE 1

(* The match the reader is on, at the foot of the body.                    *)
land(p) ==
  IF p.at < Len(p.hits)
  THEN [p EXCEPT !.back = Lesser(Len(p.lines) - p.hits[p.at + 1], Less(Len(p.lines), Room(p)))]
  ELSE p

find(p, word) ==
  LET q == fill([p EXCEPT !.wanted = word], p.width)
  IN land([q EXCEPT !.at = Less(Len(q.hits), 1)])

WalkTo(p, forward) ==
  LET n == Len(p.hits)
  IN IF n = 0 THEN p
     ELSE land([p EXCEPT !.at = IF forward THEN (@ + 1) % n ELSE (@ + n - 1) % n])

(* The turn after the first row of the window, or the one before it.       *)
TurnTo(p, forward) ==
  LET len == Len(p.lines)
      top == Less(len, p.back + Room(p))
      far == Less(len, Room(p))
      ahead == Picked(p.turns, {k \in DOMAIN p.turns : p.turns[k] - 1 > top})
      behind == Picked(p.turns, {k \in DOMAIN p.turns : p.turns[k] - 1 < top})
      To(i) == [p EXCEPT !.back = Lesser(Less(len, i - 1 + Room(p)), far)]
  IN CASE p.turns = <<>>               -> p
       [] forward /\ ahead # <<>>      -> To(Head(ahead))
       [] forward /\ ahead = <<>>      -> follow(p)
       [] ~forward /\ behind # <<>>    -> To(Last(behind))
       [] OTHER                        -> [p EXCEPT !.back = far]

Screenful(p) == IF p.body > 1 THEN p.body - 1 ELSE 1

moved(p, key) ==
  CASE key = "pageup"   -> [p EXCEPT !.back = @ + Screenful(p)]
    [] key = "pagedown" -> [p EXCEPT !.back = Less(@, Screenful(p))]
    [] key = "ctrl-n"   -> WalkTo(p, TRUE)
    [] key = "ctrl-p"   -> WalkTo(p, FALSE)
    [] key = "tab"      -> TurnTo(p, TRUE)
    [] key = "backtab"  -> TurnTo(p, FALSE)
    [] key = "esc"      -> follow(find(p, FALSE))
    [] OTHER            -> p

Pressed(p, keys) ==
  LET upTo[n \in 0 .. Len(keys)] == IF n = 0 THEN p ELSE moved(upTo[n - 1], keys[n])
  IN  upTo[Len(keys)]

(* Enter is withheld while a turn runs, Ctrl-J is not.                     *)
Act(p, key) ==
  CASE key = "enter" /\ p.working -> "go"
    [] key \in {"enter", "ctrl-j"} -> "asked"
    [] key = "ctrl-c"              -> "stopped"
    [] key = "ctrl-d"              -> "leave"
    [] OTHER                       -> "go"

BlockRows(p) == IF p.over THEN 0 ELSE Lesser(p.answer, Block - 1) + 1
WindowRows(p) == Less(p.body, BlockRows(p))

(* The frame: composed again for other columns, and the window clamped.    *)
frame(p, z) ==
  LET q == [(IF z.cols # p.width THEN fill(p, z.cols) ELSE p) EXCEPT !.body = z.body]
  IN [q EXCEPT !.back = Lesser(@, Less(Len(q.lines), WindowRows(q)))]

Foot(p) == Len(p.lines) - p.back
InWindow(p, i) == i <= Foot(p) /\ i + WindowRows(p) > Foot(p)

started(p) == follow([p EXCEPT !.answer = 0, !.over = FALSE, !.working = TRUE])
finished(p) == [p EXCEPT !.over = TRUE, !.working = FALSE]

-----------------------------------------------------------------------------
(* The session that holds it.                                              *)

Opened(cols, kinds) ==
  LET blank == [said |-> <<>>, lines |-> <<>>, back |-> 0, answer |-> 0, over |-> TRUE,
                working |-> FALSE, body |-> 0, width |-> cols, whole |-> FALSE,
                wanted |-> FALSE, hits |-> <<>>, at |-> 0, turns |-> <<>>]
  IN Says(blank, <<"opening">> \o kinds)

ConversationInit ==
  /\ size \in Sizes
  /\ \E kinds \in Resumed : page = Opened(size.cols, kinds)
  /\ unseen = <<>> /\ stage = "line" /\ last = "turn/end"

settle(p) == Says(p, unseen)

(* Keys up to the first that finishes a line or leaves; the rest wait.     *)
Runs(p) == {ks \in BoundedSeq(PageKeys \cup WaysOut, MaxKeys) :
              \A i \in 1..(Len(ks) - 1) : Act(p, ks[i]) = "go"}

Acts(ks) == IF ks = <<>> THEN "go" ELSE Act(page, Last(ks))

Resize(z) ==
  /\ stage \in {"line", "turn"} /\ size' = z
  /\ UNCHANGED <<page, unseen, stage, last>>

(* One beat with no turn running.                                          *)
LineBeat(ks) ==
  /\ stage = "line"
  /\ page' = frame(settle(Pressed(page, ks)), size)
  /\ unseen' = <<>>
  /\ stage' = CASE Acts(ks) = "go"    -> "line"
                [] Acts(ks) = "asked" -> "asked"
                [] OTHER              -> "left"
  /\ UNCHANGED <<size, last>>

(* One beat of a running turn: any way out drops it where it stands.       *)
TurnBeat(ks) ==
  /\ stage = "turn"
  /\ LET painted == frame(settle(Pressed(page, ks)), size)
     IN page' = IF Acts(ks) = "go" THEN painted ELSE finished(painted)
  /\ unseen' = <<>>
  /\ stage' = IF Acts(ks) = "go" THEN "turn" ELSE "left"
  /\ UNCHANGED <<size, last>>

(* The turn's task appends.                                                *)
Written == Len(SelectSeq(page.said, LAMBDA k : k \in Events)) + Len(unseen)

Noted == Len(SelectSeq(page.said, LAMBDA k : k = "note"))

Follows(ty) ==
  IF ty = "turn/start" THEN last = "none" ELSE last \notin {"none", "turn/end"}

Write(ty) ==
  /\ stage = "turn" /\ Follows(ty) /\ Written < MaxSaid
  /\ unseen' = Append(unseen, ty) /\ last' = ty
  /\ UNCHANGED <<page, size, stage>>

(* The turn is over, and says so when it failed.                           *)
TurnOver(failed) ==
  /\ stage = "turn"
  /\ IF failed THEN Noted < MaxNotes ELSE last = "turn/end"
  /\ LET over == finished(settle(page))
     IN page' = frame(IF failed THEN say(over, "note") ELSE over, size)
  /\ unseen' = <<>> /\ stage' = "line"
  /\ UNCHANGED <<size, last>>

(* What a finished line does.                                              *)
Ask ==
  /\ stage = "asked" /\ Written < MaxSaid
  /\ page' = started(page) /\ stage' = "turn" /\ last' = "none"
  /\ UNCHANGED <<unseen, size>>

Find(word) ==
  /\ stage = "asked"
  /\ page' = find(page, word) /\ stage' = "line"
  /\ UNCHANGED <<unseen, size, last>>

Fold ==
  /\ stage = "asked" /\ Noted < MaxNotes
  /\ page' = say(fill([page EXCEPT !.whole = ~@], page.width), "note") /\ stage' = "line"
  /\ UNCHANGED <<unseen, size, last>>

Tell ==
  /\ stage = "asked" /\ Noted < MaxNotes
  /\ page' = say(page, "note") /\ stage' = "line"
  /\ UNCHANGED <<unseen, size, last>>

Leave ==
  /\ stage = "asked" /\ stage' = "left"
  /\ UNCHANGED <<page, unseen, size, last>>

ConversationNext ==
  \/ \E z \in Sizes : Resize(z)
  \/ \E ks \in Runs(page) : LineBeat(ks) \/ TurnBeat(ks)
  \/ \E ty \in Events : Write(ty)
  \/ \E failed \in BOOLEAN : TurnOver(failed)
  \/ Ask \/ Fold \/ Tell \/ Leave
  \/ \E word \in BOOLEAN : Find(word)

ConversationSpec == ConversationInit /\ [][ConversationNext]_conversationVars

-----------------------------------------------------------------------------
(* What must hold.                                                         *)

(* fire.rs, say: the row at the foot of a window that was scrolled back is *)
(* still in it after any beat in which the reader pressed nothing, whatever*)
(* settled meanwhile, whatever room the block took or gave back and however*)
(* the turn ended, unless the conversation was composed again, for other   *)
(* columns or because the opening page went away.  (After a fold that left *)
(* fewer rows than the reader had scrolled there is no such row, until the *)
(* next frame.)                                                            *)
KeepsItsPlace ==
  [][/\ page.back > 0 /\ Foot(page) > 0 /\ WindowRows(page) > 0 /\ WindowRows(page') > 0
     /\ page'.width = page.width
     /\ Contains(page.said, "opening") => Contains(page'.said, "opening")
     /\ LineBeat(<<>>) \/ TurnBeat(<<>>) \/ TurnOver(TRUE) \/ TurnOver(FALSE)
     => InWindow(page', Foot(page))]_conversationVars

HitsAreMatches == page.hits = IF page.wanted THEN Matching(page, 0) ELSE <<>>

Lands ==
  \/ Find(TRUE)
  \/ /\ LineBeat(<<"ctrl-n">>) \/ LineBeat(<<"ctrl-p">>)
     /\ page'.body = page.body /\ page'.width = page.width

(* A search knows every row that holds the word and no other, through what *)
(* arrives, resizes, folds and the opening page that goes away; and /find, *)
(* ctrl-n and ctrl-p, with no turn running, leave the match they name in   *)
(* the window (fire.rs, fill, mark, land).                                 *)
FindShows ==
  [][/\ HitsAreMatches'
     /\ page'.hits # <<>> /\ page'.body > 0 /\ Lands
          => InWindow(page', page'.hits[page'.at + 1])]_conversationVars

-----------------------------------------------------------------------------
(* What the code says of itself and does not keep (README, Disagreements). *)

(* fire.rs, turns: kept as the matches are, and a rewrap moves them.       *)
TurnsAreKept ==
  page.turns = SelectSeq([i \in 1..Len(page.lines) |-> i],
                         LAMBDA i : page.lines[i] = <<"turn/start", 1>>)

(* live.rs: the block says what a running turn waits for until it ended.   *)
BlockWhileRunning == stage = "turn" /\ last # "turn/end" => ~page.over

(* fire.rs, footer: the match the reader is on, of how many there are.     *)
OnAMatch == page.hits # <<>> => page.at < Len(page.hits)

(* fire.rs, land: the window is put where the match can be read.           *)
FindShowsRunning ==
  [][unseen = <<>> /\ page'.hits # <<>> /\ WindowRows(page') > 0
     /\ page'.body = page.body /\ page'.width = page.width /\ TurnBeat(<<"ctrl-p">>)
       => InWindow(page', page'.hits[page'.at + 1])]_conversationVars

(* fire.rs, key: a line is not handed over while a turn runs.              *)
EnterIsWithheld ==
  [][TurnBeat(<<"ctrl-j">>) => stage' = "turn"]_conversationVars
=============================================================================
