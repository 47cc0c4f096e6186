----------------------------- MODULE WordState -----------------------------
(***************************************************************************)
(* The life of one word for one child: engine/word.go over the WordState   *)
(* of engine/types.go.  A run's attempts reach the word through Record,    *)
(* one at a time, with the day and the week of the server's clock; Tarnish *)
(* is for a weekly job to call on a word left alone (only sim calls it).   *)
(*                                                                         *)
(* Mastery is a float in the code.  Here it is an integer in units of      *)
(* 1/MasteryOne, and what an answer teaches is rounded down to a unit: the *)
(* properties only compare it with the ends of its range.                  *)
(***************************************************************************)
EXTENDS Integers, Sequences, FiniteSets

CONSTANTS
  GoldDays,         \* Config.GoldDays: distinct days of success that make gold
  GoldMinSpanDays,  \* Config.GoldMinSpanDays: how far apart they must lie
  TarnishWeeks,     \* Config.TarnishWeeks: unplayed weeks that tarnish gold
  CurseFails,       \* Config.CurseFails: misses that curse ...
  CurseWeeks,       \* Config.CurseWeeks: ... inside a window of that many weeks
  DaysPerWeek,      \* 7 in the code (server/api/time.go)
  Shines,           \* the finishes drawShine may return besides "none"
  MasteryOne,       \* the unit of mastery: MasteryOne stands for 1.0
  RencontreMastery, \* what a Rencontre teaches (0.12 in the code)
  LearnNum, LearnDen, \* the child's LearnRate, as a fraction
  \* Bounds of the state space.
  MaxDay, MaxFails, MaxStreak, MaxMastery

ASSUME WordStateAssumption ==
  /\ {GoldDays, GoldMinSpanDays, TarnishWeeks, CurseFails, CurseWeeks,
      DaysPerWeek, MasteryOne, RencontreMastery, LearnDen} \subseteq Nat \ {0}
  /\ LearnNum \in 0 .. LearnDen
  /\ {MaxDay, MaxFails, MaxStreak, MaxMastery} \subseteq Nat
  /\ "none" \notin Shines

VARIABLES
  today,  \* the epoch day of the server's clock
  st      \* the child's state of the word

wordVars == <<today, st>>

----------------------------------------------------------------------------
(* Successes in a row that lift a curse. *)
TamingRun == 3

(* dayOf and weekOf read the same instant, so the week follows the day. *)
WeekOf(day) == day \div DaysPerWeek

WordStates ==
  [mastery: Nat, successDays: SUBSET Nat, firstSuccess: Nat, fails: Nat,
   failWeeks: Seq(Nat), consecOK: Nat, gold: BOOLEAN, tarnished: BOOLEAN,
   cursed: BOOLEAN, seen: BOOLEAN, shine: Shines \cup {"none"},
   lastPlayedW: Nat]

(* The zero value: a word never met. *)
Unmet ==
  [mastery |-> 0, successDays |-> {}, firstSuccess |-> 0, fails |-> 0,
   failWeeks |-> <<>>, consecOK |-> 0, gold |-> FALSE, tarnished |-> FALSE,
   cursed |-> FALSE, seen |-> FALSE, shine |-> "none", lastPlayedW |-> 0]

(* Bug forms of the helpers below carry the name of the helper they break. *)

(* Spelled right on enough distinct days, spread widely enough: the last of *)
(* them comes GoldMinSpanDays or more after the first.                      *)
Remembered(days) ==
  /\ Cardinality(days) >= GoldDays
  /\ \E first, last \in days : last - first >= GoldMinSpanDays

(* The misses inside the curse's window, seen from a week. *)
RecentFailsOneMore(failWeeks, thisWeek) ==
  Cardinality({i \in DOMAIN failWeeks : thisWeek - failWeeks[i] <= CurseWeeks})

RecentFails(failWeeks, thisWeek) ==
  Cardinality({i \in DOMAIN failWeeks : thisWeek - failWeeks[i] < CurseWeeks})

(* A share (1, or 1/2 after a miss) of the way from m to full mastery. *)
Learn(m, half) ==
  m + ((MasteryOne - m) * LearnNum) \div (IF half THEN 2 * LearnDen ELSE LearnDen)

(* Zero is both "never" and a day, so the first success is told by its     *)
(* being the only one.                                                     *)
FirstSuccessOf(days) ==
  IF st.firstSuccess = 0 /\ Cardinality(days) = 1 THEN today ELSE st.firstSuccess

(* A curse is lifted by the third success running, and lands on gold.      *)
TamesEarly(streak) == st.cursed /\ streak >= TamingRun - 1

(* The run gilds any word. *)
TamesUncursed(streak) == streak >= TamingRun

Tames(streak) == st.cursed /\ streak >= TamingRun

(* A cursed word has no other way back. *)
GildsCursed(days) == ~st.gold /\ Remembered(days)

Gilds(days) == ~st.gold /\ ~st.cursed /\ Remembered(days)

(* What an answer may leave as the word's shine: drawn at most once. *)
DrawShine(shine) == IF shine = "none" THEN Shines \cup {"none"} ELSE {shine}

----------------------------------------------------------------------------
WordInit ==
  /\ today = 0
  /\ st = Unmet

(* Record, a.Copy: the word is shown, not asked for. *)
Rencontre ==
  /\ st.mastery < MaxMastery
  /\ st' = [st EXCEPT !.seen = TRUE, !.lastPlayedW = WeekOf(today),
                      !.mastery = @ + RencontreMastery]
  /\ UNCHANGED today

(* Record, a.Correct. *)
Success ==
  LET days   == st.successDays \cup {today}
      streak == st.consecOK + 1
  IN /\ st.consecOK < MaxStreak
     /\ \E shine \in DrawShine(st.shine) :
          st' = [st EXCEPT
                   !.seen = TRUE, !.lastPlayedW = WeekOf(today),
                   !.mastery = Learn(@, FALSE), !.consecOK = streak,
                   !.successDays = days, !.firstSuccess = FirstSuccessOf(days),
                   !.tarnished = FALSE,
                   !.cursed = @ /\ ~Tames(streak),
                   !.gold = @ \/ Tames(streak) \/ Gilds(days),
                   !.shine = shine]
     /\ UNCHANGED today

(* Record, neither: a miss.  The gold goes before the curse is weighed. *)
Miss ==
  LET thisWeek == WeekOf(today)
      weeks    == Append(st.failWeeks, thisWeek)
  IN /\ st.fails < MaxFails
     /\ \E shine \in DrawShine(st.shine) :
          st' = [st EXCEPT
                   !.seen = TRUE, !.lastPlayedW = thisWeek,
                   !.mastery = Learn(@, TRUE),
                   !.fails = @ + 1, !.consecOK = 0, !.failWeeks = weeks,
                   !.gold = FALSE,
                   !.tarnished = @ /\ ~st.gold,
                   !.cursed = @ \/ RecentFails(weeks, thisWeek) >= CurseFails,
                   !.shine = shine]
     /\ UNCHANGED today

(* Tarnish. *)
Tarnish ==
  /\ st.gold
  /\ ~st.tarnished
  /\ WeekOf(today) - st.lastPlayedW >= TarnishWeeks
  /\ st' = [st EXCEPT !.tarnished = TRUE]
  /\ UNCHANGED today

NextDay ==
  /\ today < MaxDay
  /\ today' = today + 1
  /\ UNCHANGED st

WordNext == Rencontre \/ Success \/ Miss \/ Tarnish \/ NextDay

WordSpec == WordInit /\ [][WordNext]_wordVars

----------------------------------------------------------------------------
(* The type invariant. *)
WordTypeOK ==
  /\ today \in Nat
  /\ st \in WordStates

(* What a card can be drawn as: a word is never gold and cursed at once    *)
(* (Score would pay the gold bonus and the curse's x5 together), and only  *)
(* a gold word is tarnished.                                               *)
CardDrawable ==
  /\ ~(st.gold /\ st.cursed)
  /\ st.tarnished => st.gold

(* Gold says remembered: a gold word's last answer was right, and a cursed *)
(* word has not yet been spelled right three times running.                *)
StreakMatchesCard ==
  /\ st.gold => st.consecOK > 0
  /\ st.cursed => st.consecOK < TamingRun

(* No curse without the misses that bring one: some window of CurseWeeks   *)
(* weeks holds CurseFails of the word's misses.                            *)
MissedIntoACurse ==
  \E w \in {st.failWeeks[i] : i \in DOMAIN st.failWeeks} :
    Cardinality({i \in DOMAIN st.failWeeks :
                   /\ st.failWeeks[i] <= w
                   /\ w - st.failWeeks[i] < CurseWeeks}) >= CurseFails

CurseIsEarned == st.cursed => MissedIntoACurse

(* FirstSuccess is the day the word was first spelled right, although zero *)
(* is both "never" and the first day of the epoch.                         *)
FirstSuccessIsFirst ==
  \A day \in st.successDays :
    /\ st.firstSuccess \in st.successDays
    /\ st.firstSuccess <= day

(* Gold says remembered: a gold word has been spelled right on enough days *)
(* far enough apart.  The one other way is the taming run, and it is open   *)
(* only to a word whose misses once brought a curse: however often a word   *)
(* that never had them is drilled in an afternoon, it stays plain.          *)
GoldIsEarned ==
  st.gold =>
    \/ st.consecOK >= TamingRun /\ MissedIntoACurse
    \/ /\ Cardinality(st.successDays) >= GoldDays
       /\ \E first, last \in st.successDays : last - first >= GoldMinSpanDays

(* The card a word's state is drawn as keeps Card's promises: a curse is   *)
(* lifted only by the taming run, a tarnished word is restored by one      *)
(* right answer, and only gold tarnishes.                                  *)
CardFace ==
  IF st.cursed THEN "cursed"
  ELSE IF st.tarnished THEN "tarnished"
  ELSE IF st.gold THEN "gold" ELSE "plain"

CardRun == IF st.consecOK < TamingRun THEN st.consecOK ELSE TamingRun

Drawn == INSTANCE Card WITH face <- CardFace, run <- CardRun

ImplementsCard == Drawn!Spec

----------------------------------------------------------------------------
(* What the documents say and the code does not do. *)

(* The rapid state machine of the engine's tests checks after every step   *)
(* that mastery stays within [0, 1].                                       *)
MasteryWithinOne == st.mastery \in 0 .. MasteryOne

(* The comment above Record's guard: the curse falls on a word that is not *)
(* gold.                                                                   *)
CurseSparesGold == [][st.gold => ~st'.cursed]_wordVars

(* The brief: a fault on a gold word gives a plain card back and sets its   *)
(* counter to zero, so the days of before the fault make no gold again.     *)
LostGoldStartsOver == [][st.gold /\ ~st'.gold => ~Remembered(st'.successDays)]_wordVars

(* The card the client derives from the state, in its order of precedence.  *)
DeriveCardState ==
  IF st.cursed THEN "cursed"
  ELSE IF ~st.seen THEN "rencontre"
  ELSE IF st.gold THEN "gold"
  ELSE IF st.tarnished THEN "tarnished" ELSE "normal"

(* "CardTarnished is a gold word that went unplayed too long": a tarnished  *)
(* word is drawn tarnished.                                                 *)
TarnishedIsDrawn == st.tarnished => DeriveCardState = "tarnished"
============================================================================
