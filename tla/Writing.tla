------------------------------ MODULE Writing ------------------------------
(***************************************************************************)
(* A child at the screen of a run: cmd/client, whose loop calls Update once *)
(* a frame. A card is wagered on, written letter by letter, held silent,    *)
(* scored, and paid into the counter droplet by droplet.                    *)
(*                                                                         *)
(* c is the client struct. A frame runs as one step; its clocks (the        *)
(* hitstop, the silence, the flight of a droplet, the hold of a key) have   *)
(* or have not run out in it.                                               *)
(***************************************************************************)
EXTENDS Scenes, Integers, FiniteSets

CONSTANTS
  Letters,     \* the characters the keyboard accepts
  Variants,    \* the accents a letter opens when its key is held
  Cards,       \* the words of the manche
  Keys,        \* the letters that have a key of their own
  BlindMult, DropletPerTokens,
  Scale,       \* counts the counter, so that every droplet is whole
  None,
  \* Bounds of the state space.
  MaxWords, MaxTyped

VARIABLES stack, c

writingVars == <<stack, c>>

Erase    == "Erase"
Validate == "Validate"

ASSUME WritingAssumption ==
  /\ Keys \subseteq Letters /\ Variants \in [Letters -> SUBSET Letters]
  /\ Cards \in Seq(Seq(Letters) \ {<<>>}) /\ Cards # <<>>
  /\ BlindMult \in Nat \ {0} /\ DropletPerTokens \in Nat \ {0} /\ Scale \in Nat \ {0}
  /\ {None, Erase, Validate} \intersect Letters = {} /\ None \notin {Erase, Validate}
  /\ MaxWords \in Nat /\ MaxTyped \in Nat

(* Where a finger can come down. *)
Places == {"twice", "once", "speaker", "away", Erase, Validate} \cup Keys

(* What a finger that was on a key does: it stays, or leaves the screen,     *)
(* over one of the accents that opened or not.                               *)
Fingers == {"down", "up"} \cup UNION {Variants[l] : l \in Letters}

(* pointer: a finger comes down in the frame, or the one that was there is   *)
(* looked at.                                                                *)
Touches == (Places \X {"down"}) \cup ({None} \X Fingers)

Typings == UNION {[1 .. n -> Letters] : n \in 0 .. MaxTyped}

Smaller(a, b) == IF a <= b THEN a ELSE b
Larger(a, b)  == IF a >= b THEN a ELSE b

----------------------------------------------------------------------------
(* The words: game.Entry, FirstMismatch and Correction. *)
currentCard(s) == Cards[s.cardIdx]

(* How many leading letters are right; -1 when the whole word is. *)
FirstMismatch(target, typed) ==
  IF typed = target THEN -1
  ELSE Cardinality({n \in 1 .. Smaller(Len(target), Len(typed)) :
                      SubSeq(target, 1, n) = SubSeq(typed, 1, n)})

startWager(s) ==
  [s EXCEPT !.phase = "wager", !.entry = <<>>, !.correction = None, !.letterTimes = 0,
            !.missed = FALSE]

chooseWagerOnce(s, blind) ==
  [s EXCEPT !.wagerBlind = @ \/ blind, !.phase = "writing",
            !.wagers = Append(@, [card |-> s.cardIdx, blind |-> blind])]

chooseWager(s, blind) ==
  [s EXCEPT !.wagerBlind = blind, !.phase = "writing",
            !.wagers = Append(@, [card |-> s.cardIdx, blind |-> blind])]

completeWord(s) == [s EXCEPT !.phase = "silence"]

(* A letter has just landed in the entry: the word is whole, or it is cut    *)
(* back to the letters that are right, a correction opens on the next one    *)
(* and the input freezes. FirstMismatch finds fault with a right start of    *)
(* the word too.                                                             *)
onLetterTypedKept(s) ==
  LET mismatch == FirstMismatch(currentCard(s), s.entry)
  IN  IF mismatch < 0
      THEN completeWord([s EXCEPT !.letterTimes = @ + 1, !.correction = None])
      ELSE [s EXCEPT !.correction = mismatch, !.frozen = TRUE, !.letterTimes = @ + 1]

onLetterTyped(s) ==
  LET mismatch == FirstMismatch(currentCard(s), s.entry)
  IN  IF mismatch < 0
      THEN completeWord([s EXCEPT !.letterTimes = @ + 1, !.correction = None])
      ELSE [s EXCEPT !.correction = mismatch,
                     !.frozen = TRUE,
                     !.entry = SubSeq(@, 1, mismatch),
                     !.letterTimes = Smaller(@ + 1, mismatch),
                     !.missed = @ \/ mismatch < Len(s.entry)]

Type(s, r) == onLetterTyped([s EXCEPT !.entry = Append(@, r)])

eraseLastLetter(s) ==
  [s EXCEPT !.entry = IF @ = <<>> THEN @ ELSE Front(@), !.letterTimes = Larger(@ - 1, 0)]

----------------------------------------------------------------------------
(* The pay: RunScore.Apply for a right answer on a word with no trap, whose  *)
(* chips are its letters, and the droplets that carry it to the counter.     *)
Chips(word, blind) == Len(word) * (IF blind THEN BlindMult ELSE 1)

Droplets(total) == Larger(1, (total + DropletPerTokens - 1) \div DropletPerTokens)

ASSUME WholeDroplets ==
  \A n \in DOMAIN Cards, blind \in BOOLEAN, combo \in 1 .. MaxWords :
    LET total == Chips(Cards[n], blind) * combo
    IN  (Scale * total) % Droplets(total) = 0

settleWord(s) ==
  LET total == Chips(currentCard(s), s.wagerBlind) * s.combo
  IN  [s EXCEPT !.score = @ + total,
                !.combo = @ + 1,
                !.attempts = Append(@, [card |-> s.cardIdx, blind |-> s.wagerBlind,
                                        typed |-> s.entry]),
                !.flying = Droplets(total),
                !.share = (Scale * total) \div Droplets(total),
                !.phase = "droplets"]

nextCard(s) == startWager([s EXCEPT !.cardIdx = (@ % Len(Cards)) + 1])

(* n more droplets have reached the counter; they leave and land in order. *)
advanceDropletsEarly(s, n) ==
  LET after == [s EXCEPT !.flying = @ - n, !.counterShown = @ + n * s.share]
  IN  IF n > 0 THEN nextCard([after EXCEPT !.flying = 0]) ELSE after

advanceDroplets(s, n) ==
  LET after == [s EXCEPT !.flying = @ - n, !.counterShown = @ + n * s.share]
  IN  IF after.flying = 0 THEN nextCard(after) ELSE after

(* tick, in every way the clocks may stand. *)
Ticks(s) ==
  IF s.phase = "silence" THEN {s, settleWord(s)}
  ELSE IF s.phase = "droplets" THEN {advanceDroplets(s, n) : n \in 0 .. s.flying}
  ELSE {s}

(* The frame's start, and the one in which every clock has run out. *)
tick(s) == {[t EXCEPT !.frozen = f] : t \in Ticks(s), f \in {s.frozen, FALSE}}

TickedOut(s) ==
  [(IF s.phase = "silence" THEN settleWord(s)
    ELSE IF s.phase = "droplets" THEN advanceDroplets(s, s.flying)
    ELSE s) EXCEPT !.frozen = FALSE]

----------------------------------------------------------------------------
(* The input of a frame. *)
handleWagerTap(s, place) ==
  IF place \in {"twice", "once"} /\ Len(s.wagers) < MaxWords
  THEN chooseWager(s, place = "once")
  ELSE s

(* The finger leaves the key it held. *)
Pressed(s) ==
  CASE s.held = Erase    -> eraseLastLetter(s)
    [] s.held = Validate -> s
    [] OTHER             -> Type(s, s.held)

release(s, finger) ==
  [(IF s.held \in Letters /\ finger \in Variants[s.held] THEN Type(s, finger) ELSE Pressed(s))
   EXCEPT !.held = None]

Touched(s, touch) ==
  IF touch[1] \in Keys \cup {Erase, Validate} THEN [s EXCEPT !.held = touch[1]]
  ELSE IF touch[2] # "down" /\ s.held # None THEN release(s, touch[2])
  ELSE s

Backspace(s, back) == IF back THEN eraseLastLetter(s) ELSE s

(* The letters of the physical keyboard, one after another. *)
Typed(s, chars) ==
  LET after[n \in 0 .. Len(chars)] == IF n = 0 THEN s ELSE Type(after[n - 1], chars[n])
  IN  after[Len(chars)]

(* A finger and the physical keyboard in one frame of writing; a tap on the  *)
(* speaker takes the whole frame.                                            *)
Written(s, touch, chars, back) ==
  IF touch[1] = "speaker" THEN s
  ELSE Backspace(Typed(Touched(s, touch), chars), back)

----------------------------------------------------------------------------
WritingInit ==
  /\ stack = <<"Garde">>
  /\ c = [phase |-> "wager", cardIdx |-> 1, wagerBlind |-> FALSE, entry |-> <<>>,
          letterTimes |-> 0, correction |-> None, frozen |-> FALSE, held |-> None,
          flying |-> 0, share |-> 0, counterShown |-> 0, score |-> 0, combo |-> 1,
          missed |-> FALSE,    \* a letter of this card was wrong
          wagers |-> <<>>,     \* the pari of each card so far
          attempts |-> <<>>]   \* the attempts scored so far

(* gardeScene.Update: the seal is tapped, and startManche deals the cards. *)
StartManche ==
  /\ Current(stack) = "Garde"
  /\ canGo(stack, "Run")
  /\ stack' = Replaced(stack, "Run")
  /\ c' = startWager([c EXCEPT !.cardIdx = 1, !.counterShown = 0, !.score = 0, !.combo = 1])

(* client.Update, from what tick left: Stage calls it while Run is current. *)
WagerFrame(t) ==
  /\ t.phase = "wager"
  /\ \E place \in Places : c' = handleWagerTap(t, place)

WaitingFrame(t) ==
  /\ t.phase \in {"silence", "droplets"} \/ (t.phase = "writing" /\ t.frozen)
  /\ c' = t

WritingFrame(t) ==
  /\ t.phase = "writing"
  /\ ~ t.frozen
  /\ \E touch \in Touches, chars \in Typings, back \in BOOLEAN : c' = Written(t, touch, chars, back)

(* With the clocks looked at last, in the frames that get that far. *)
FrameTickingLast(ticked) ==
  /\ Current(stack) = "Run"
  /\ WagerFrame(c) \/ WaitingFrame(c) \/ WritingFrame(c)
  /\ UNCHANGED stack

Frame(ticked) ==
  /\ Current(stack) = "Run"
  /\ \E t \in ticked : WagerFrame(t) \/ WaitingFrame(t) \/ WritingFrame(t)
  /\ UNCHANGED stack

Update == Frame(tick(c))

WritingNext == StartManche \/ Update

(* The loop goes on and time passes: a clock that runs is not moved, so a    *)
(* frame comes in which those that run have all run out.                     *)
Fairness == WF_writingVars(Frame({TickedOut(c)}))

WritingSpec == WritingInit /\ [][WritingNext]_writingVars /\ Fairness

----------------------------------------------------------------------------
(* The type invariant. *)
WritingTypeOK ==
  /\ stack \in {<<"Garde">>, <<"Run">>}
  /\ c.phase \in {"wager", "writing", "silence", "droplets"}
  /\ c.cardIdx \in DOMAIN Cards /\ {c.wagerBlind, c.frozen, c.missed} \subseteq BOOLEAN
  /\ c.entry \in Seq(Letters) /\ c.letterTimes \in Nat
  /\ c.correction \in Nat \cup {None} /\ c.held \in Keys \cup {Erase, Validate, None}
  /\ {c.flying, c.share, c.counterShown, c.score, c.combo} \subseteq Nat
  /\ Len(c.attempts) <= MaxWords /\ Len(c.wagers) <= MaxWords

(* "The wrong tail is dropped, not the letters already right", whatever keys *)
(* and physical letters fall in one frame: the entry starts the word that is *)
(* asked, with one time a letter for the bave to index.                      *)
EntryStartsTheWord ==
  /\ IsPrefix(c.entry, currentCard(c))
  /\ c.letterTimes = Len(c.entry)

(* Each card is scored once, in its turn, by the pari chosen for it, and the *)
(* running score is what those paris are worth.                              *)
Worth(s, i) == Chips(Cards[s.wagers[i].card], s.wagers[i].blind) * i

Earned(s) ==
  LET sum[n \in 0 .. Len(s.attempts)] == IF n = 0 THEN 0 ELSE sum[n - 1] + Worth(s, n)
  IN  sum[Len(s.attempts)]

EachCardIsScored ==
  /\ Len(c.attempts) + (IF c.phase \in {"writing", "silence"} THEN 1 ELSE 0) = Len(c.wagers)
  /\ \A i \in DOMAIN c.wagers : c.wagers[i].card = ((i - 1) % Len(Cards)) + 1
  /\ \A i \in DOMAIN c.attempts :
       c.attempts[i].card = c.wagers[i].card /\ c.attempts[i].blind = c.wagers[i].blind
  /\ c.score = Earned(c)

(* "The counter only climbs on arrival": the counter and the droplets still  *)
(* in flight add up to the score, and nothing is left in flight once the     *)
(* next card opens.                                                          *)
CounterIsTheScore ==
  /\ c.counterShown + c.flying * c.share = Scale * c.score
  /\ c.phase # "droplets" => c.flying = 0

(* A word that is complete is paid, and the next card opens, whatever the    *)
(* child does meanwhile.                                                     *)
EveryWordIsPaid == (c.phase = "silence") ~> (c.phase \in {"wager", "writing"})

----------------------------------------------------------------------------
(* "No correction is ever set" where no letter was ever wrong.               *)
RightStartIsNotCorrected == c.correction # None => c.missed

(* What is scored right is the word.                                         *)
ScoredIsTheWord == \A i \in DOMAIN c.attempts : c.attempts[i].typed = Cards[c.attempts[i].card]

(* A key that was pressed on one card is not typed on the next.              *)
HeldKeyIsThisCards == c.phase = "wager" => c.held = None

(* What the screen shows while a correction is open, the letters kept and    *)
(* the one that blinks, starts where the entry ends.                         *)
ShownIsTyped == c.correction # None => c.correction = Len(c.entry)
=============================================================================
