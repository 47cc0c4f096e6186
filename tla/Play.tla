-------------------------------- MODULE Play --------------------------------
(***************************************************************************)
(* A run as the child plays it and as the server judges it: the counter    *)
(* the client shows (client/game/score.go) on one side, engine.Replay's    *)
(* walk over the attempts it is sent on the other, one step per attempt.   *)
(*                                                                         *)
(* Manches are numbered from one (the code counts from zero); scores,      *)
(* targets and chips are in halves of the code's (see Score).  The run     *)
(* goes on from manche to manche as the harness of e2e/score_test.go plays *)
(* it, and a lost manche may be played again under the Revanche of         *)
(* client/game/revanche.go.                                                *)
(***************************************************************************)
EXTENDS Score, Sequences, FiniteSets

CONSTANTS
  Answers,         \* the answers a child may give: attempts without a manche
  WordsPerManche,  \* Config.WordsPerManche
  WindowPct,       \* Config.RevancheWindow, in hundredths
  RunMoney, MancheMoney, CahierBonus, \* the same of Config
  Owned,           \* the Talismans the run is played with
  DeckBoss,        \* the deck's boss
  Targets,         \* the three targets, in halves of a chip
  Cahier,          \* whether the run carries a Cahier
  Levels, States,  \* the child's levels and word states when the run starts
  LaterRows,       \* levels and states another run may leave in the rows
  MaxOthers        \* bound: other runs of the child applied meanwhile

Manches == 1..3

ASSUME PlayAssumption ==
  /\ \A x \in Answers : \A m \in Manches :
       [word |-> x.word, manche |-> m, blind |-> x.blind, copy |-> x.copy,
        correct |-> x.correct, fast |-> x.fast] \in Attempts
  /\ WordsPerManche \in Nat \ {0}
  /\ WindowPct \in 0..100
  /\ RunMoney \in Nat /\ MancheMoney \in Nat /\ CahierBonus \in Nat
  /\ Owned \subseteq Talisman
  /\ DeckBoss \in Bosses
  /\ Targets \in [Manches -> Nat]
  /\ Cahier \in BOOLEAN
  /\ Levels \in [Couleur -> Nat]
  /\ States \in [Word -> ScoredStates]
  /\ LaterRows \subseteq [levels: [Couleur -> Nat], states: [Word -> ScoredStates]]
  /\ MaxOthers \in Nat

VARIABLES
  attempts,  \* what the client has recorded, in order
  turn,      \* answers given since the manche was started
  counter,   \* the client's RunScore
  shown,     \* the counter as it stood after each attempt
  claim,     \* the manches the child replayed
  ended,     \* the manche the child saw the run end in, 4 when won, 0 before
  levels, states, \* the child's rows on the server
  others,    \* other runs applied since this one started
  replay     \* the server's walk

client == <<attempts, turn, counter, shown, claim, ended>>
rows   == <<levels, states, others>>
vars   == <<client, rows, replay>>

----------------------------------------------------------------------------
bossOf(manche) == IF manche = 3 THEN DeckBoss ELSE "NoBoss"

CtxOf(a, lvls, boss, goldPlayed) ==
  [levels |-> lvls, fast |-> a.fast, boss |-> boss, goldPlayed |-> goldPlayed]

(* Not resetting the gold words with the manche. *)
StartMancheKeepsGold(r, manche, revanche) ==
  [r EXCEPT !.manche = manche, !.boss = bossOf(manche),
            !.gommeSpent = FALSE, !.revancheBonus = Plus(revanche, 1)]

(* RunScore.StartManche. *)
StartManche(r, manche, revanche) ==
  [r EXCEPT !.manche = manche, !.boss = bossOf(manche), !.goldPlayed = 0,
            !.gommeSpent = FALSE, !.revancheBonus = Plus(revanche, 1)]

NewRunScore ==
  StartManche([scores |-> [m \in Manches |-> 0], combo |-> 1, manche |-> 1, boss |-> "NoBoss",
               revancheBonus |-> 0, goldPlayed |-> 0, gommeSpent |-> FALSE], 1, FALSE)

(* RunScore.Apply: the combo holds on a copy and on the fault the Gomme     *)
(* forgives, grows on a right answer and falls back to one on another fault. *)
ApplyAnswer(r, a) ==
  LET ws      == States[a.word]
      s       == ScoreOf(a, ws, Owned, r.combo + r.revancheBonus,
                         CtxOf(a, Levels, r.boss, r.goldPlayed))
      forgive == ~a.correct /\ "Gomme" \in Owned /\ ~r.gommeSpent
  IN [r EXCEPT !.scores[r.manche] = @ + s.chips * s.mult,
               !.goldPlayed = @ + Plus(ws.gold, 1),
               !.combo = IF a.correct THEN @ + Plus(~a.copy, 1) ELSE IF forgive THEN @ ELSE 1,
               !.gommeSpent = @ \/ forgive]

RevancheEligible(score, target) == score < target /\ score * 100 >= target * WindowPct

----------------------------------------------------------------------------
Walks == {"waiting", "walking", "won", "failed", "refused"}

NoWalk ==
  [walk |-> "waiting", at |-> 0, manche |-> 1, combo |-> 1, goldPlayed |-> 0,
   gommeSpent |-> FALSE, raw |-> 0, scores |-> [m \in Manches |-> 0],
   money |-> RunMoney, failedAt |-> 0, cahierBonus |-> 0, taken |-> {},
   levels |-> Levels, states |-> States]

Init ==
  /\ attempts = <<>>
  /\ turn = 0
  /\ counter = NewRunScore
  /\ shown = <<>>
  /\ claim = {}
  /\ ended = 0
  /\ levels = Levels
  /\ states = States
  /\ others = 0
  /\ replay = NoWalk

----------------------------------------------------------------------------
(* One word of the manche is answered: the attempt is recorded and scored.  *)
(* A Rencontre is for a word the child has never met (IsRencontre).         *)
Answer(x) ==
  LET a == [word |-> x.word, manche |-> counter.manche, blind |-> x.blind,
            copy |-> x.copy, correct |-> x.correct, fast |-> x.fast]
  IN /\ ended = 0
     /\ turn < WordsPerManche
     /\ x.copy => ~States[x.word].seen
     /\ attempts' = Append(attempts, a)
     /\ counter' = ApplyAnswer(counter, a)
     /\ shown' = Append(shown, counter')
     /\ turn' = turn + 1
     /\ UNCHANGED <<claim, ended, rows, replay>>

Reached == counter.scores[counter.manche] >= Targets[counter.manche]

(* The manche met its target: the next one begins, or the run is won. *)
NextManche ==
  /\ ended = 0 /\ turn = WordsPerManche /\ Reached
  /\ IF counter.manche = 3
     THEN ended' = 4 /\ UNCHANGED <<turn, counter>>
     ELSE /\ counter' = StartManche(counter, counter.manche + 1, FALSE)
          /\ turn' = 0
          /\ UNCHANGED ended
  /\ UNCHANGED <<attempts, shown, claim, rows, replay>>

(* A manche that fell just short is played once more, a multiplier up. *)
Revanche ==
  /\ ended = 0 /\ turn = WordsPerManche
  /\ counter.manche \notin claim
  /\ RevancheEligible(counter.scores[counter.manche], Targets[counter.manche])
  /\ counter' = StartManche(counter, counter.manche, TRUE)
  /\ claim' = claim \cup {counter.manche}
  /\ turn' = 0
  /\ UNCHANGED <<attempts, shown, ended, rows, replay>>

Lose ==
  /\ ended = 0 /\ turn = WordsPerManche /\ ~Reached
  /\ ended' = counter.manche
  /\ UNCHANGED <<attempts, turn, counter, shown, claim, rows, replay>>

(* Another run of the child, of another device, is applied: it may level  *)
(* a Couleur and leave a word in another state.  The client does not read    *)
(* the rows again and the server reads them once, so it is enough to let it *)
(* happen between the run's end and the finish.                             *)
OtherRun ==
  /\ ended # 0 /\ replay.walk = "waiting"
  /\ others < MaxOthers
  /\ others' = others + 1
  /\ \E row \in LaterRows : levels' = row.levels /\ states' = row.states
  /\ UNCHANGED <<client, replay>>

----------------------------------------------------------------------------
(* handleRunFinish reads the child's rows and hands them to Replay. *)
Finish ==
  /\ ended # 0 /\ replay.walk = "waiting"
  /\ replay' = [replay EXCEPT !.walk = "walking", !.levels = levels, !.states = states]
  /\ UNCHANGED <<client, rows>>

RevancheBonus(manche) == Plus(manche \in claim, 1)

(* The body of Replay's inner loop. *)
Scored(p, a) ==
  LET ws    == p.states[a.word]
      bonus == RevancheBonus(p.manche)
      s     == ScoreOf(a, ws, Owned, p.combo + bonus,
                       CtxOf(a, p.levels, bossOf(p.manche), p.goldPlayed))
  IN [p EXCEPT !.at = @ + 1,
               !.goldPlayed = @ + Plus(ws.gold, 1),
               !.scores[p.manche] = @ + s.chips * s.mult,
               !.raw = @ + s.chips * (s.mult - bonus),
               !.combo = CASE a.correct /\ ~a.copy -> @ + 1
                           [] ~a.correct /\ ("Gomme" \notin Owned \/ p.gommeSpent) -> 1
                           [] OTHER -> @,
               !.gommeSpent = @ \/ (~a.correct /\ "Gomme" \in Owned)]

MoreOf(p) == p.at < Len(attempts) /\ attempts[p.at + 1].manche = p.manche

(* The manche passed and paid for: the walk resets what belongs to one      *)
(* manche and goes on, or the run is won.                                   *)
Passed(p, pay) ==
  LET paid == [p EXCEPT !.money = @ + pay]
  IN IF p.manche = 3
     THEN [paid EXCEPT !.walk = "won", !.cahierBonus = IF Cahier THEN CahierBonus ELSE 0]
     ELSE [paid EXCEPT !.manche = @ + 1, !.goldPlayed = 0, !.gommeSpent = FALSE, !.raw = 0]

AtLeast(n, least) == IF n < least THEN least ELSE n
AtMost(n, most)   == IF n > most THEN most ELSE n

(* A target that has to be beaten, not met. *)
JudgedStrictly(p) ==
  LET target == Targets[p.manche]
      score  == p.scores[p.manche]
  IN IF p.manche \in claim
     THEN IF p.raw * 100 < target * WindowPct
          THEN [p EXCEPT !.walk = "refused"]
          ELSE Passed([p EXCEPT !.taken = @ \cup {p.manche}], MancheMoney)
     ELSE IF score > target
          THEN Passed(p, MancheMoney + AtMost(score \div AtLeast(target, 2), 3))
          ELSE [p EXCEPT !.walk = "failed", !.failedAt = p.manche]

(* A Revanche refused to a manche that met its target in the end. *)
JudgedNeedsALoss(p) ==
  LET target == Targets[p.manche]
      score  == p.scores[p.manche]
  IN IF p.manche \in claim
     THEN IF p.raw * 100 < target * WindowPct \/ p.raw >= target
          THEN [p EXCEPT !.walk = "refused"]
          ELSE Passed([p EXCEPT !.taken = @ \cup {p.manche}], MancheMoney)
     ELSE IF score >= target
          THEN Passed(p, MancheMoney + AtMost(score \div AtLeast(target, 2), 3))
          ELSE [p EXCEPT !.walk = "failed", !.failedAt = p.manche]

(* The end of a manche in Replay: a claimed Revanche is judged on the score *)
(* without its bonus, any other manche on its target.                       *)
Judged(p) ==
  LET target == Targets[p.manche]
      score  == p.scores[p.manche]
  IN IF p.manche \in claim
     THEN IF p.raw * 100 < target * WindowPct
          THEN [p EXCEPT !.walk = "refused"]
          ELSE Passed([p EXCEPT !.taken = @ \cup {p.manche}], MancheMoney)
     ELSE IF score >= target
          THEN Passed(p, MancheMoney + AtMost(score \div AtLeast(target, 2), 3))
          ELSE [p EXCEPT !.walk = "failed", !.failedAt = p.manche]

ReplayAttempt ==
  /\ replay.walk = "walking" /\ MoreOf(replay)
  /\ replay' = Scored(replay, attempts[replay.at + 1])
  /\ UNCHANGED <<client, rows>>

ReplayManche ==
  /\ replay.walk = "walking" /\ ~MoreOf(replay)
  /\ replay' = Judged(replay)
  /\ UNCHANGED <<client, rows>>

Next ==
  \/ \E x \in Answers : Answer(x)
  \/ NextManche
  \/ Revanche
  \/ Lose
  \/ OtherRun
  \/ Finish
  \/ ReplayAttempt
  \/ ReplayManche

Spec == Init /\ [][Next]_vars

----------------------------------------------------------------------------
(* Properties *)

Counters == [scores: [Manches -> Nat], combo: Nat, manche: Manches, boss: Bosses \cup {"NoBoss"},
             revancheBonus: 0..1, goldPlayed: Nat, gommeSpent: BOOLEAN]

WalkRecords == [walk: Walks, at: Nat, manche: Manches, combo: Nat, goldPlayed: Nat,
                gommeSpent: BOOLEAN, raw: Nat, scores: [Manches -> Nat], money: Nat,
                failedAt: 0..3, cahierBonus: Nat, taken: SUBSET Manches,
                levels: [Couleur -> Nat], states: [Word -> ScoredStates]]

(* Every variable has its type, and the server is never past what it was    *)
(* sent (engine.Run, engine.Outcome, game.RunScore).                        *)
TypeOK ==
  /\ attempts \in Seq(Attempts)
  /\ turn \in 0..WordsPerManche
  /\ counter \in Counters
  /\ shown \in Seq(Counters) /\ Len(shown) = Len(attempts)
  /\ claim \subseteq Manches
  /\ ended \in 0..4
  /\ levels \in [Couleur -> Nat]
  /\ states \in [Word -> ScoredStates]
  /\ others \in 0..MaxOthers
  /\ replay \in WalkRecords /\ replay.at <= Len(attempts)

(* The server judges the run by the rows it was dealt from.                 *)
SameRows == replay.levels = Levels /\ replay.states = States

(* What the child watched is what counts: at every attempt of its walk the  *)
(* server's scores and combo are the ones RunScore showed after the same    *)
(* attempt (RunScore's comment, client/game/score.go:8-18), if no other run *)
(* changed the rows meanwhile and no manche was replayed.                   *)
ScoresAgree ==
  SameRows /\ claim = {} /\ replay.at > 0 =>
    /\ replay.scores = shown[replay.at].scores
    /\ replay.combo = shown[replay.at].combo

(* Under the same conditions the server's verdict is the end the child saw: *)
(* a run seen won is won, and a run seen lost failed in that manche, not a  *)
(* manche earlier or later (handleRunFinish, Replay).                       *)
OutcomeAsPlayed ==
  SameRows /\ claim = {} =>
    /\ replay.walk = "won" => ended = 4
    /\ replay.walk = "failed" => ended = replay.failedAt
    /\ replay.walk # "refused"

(* The combo is the run of right answers since the last fault that counted: *)
(* Rencontres neither lengthen nor break it, manches do not interrupt it,   *)
(* and the first fault of a manche does not count for a child who owns the  *)
(* Gomme (Replay's switch, RunScore.Apply).  Stated without the walk.       *)
Breaks(i) ==
  /\ ~attempts[i].correct
  /\ "Gomme" \in Owned =>
       \E j \in 1..(i - 1) : attempts[j].manche = attempts[i].manche /\ ~attempts[j].correct

Streak(n) ==
  {i \in 1..n : /\ attempts[i].correct /\ ~attempts[i].copy
                /\ \A j \in (i + 1)..n : ~Breaks(j)}

ComboIsTheStreak ==
  claim = {} => counter.combo = 1 + Cardinality(Streak(Len(attempts)))

----------------------------------------------------------------------------
(* What the code says of itself and does not keep. *)

(* RunScore's total is "exactly as engine.Replay would report it for the    *)
(* same attempts applied in the same order" (client/game/score.go:96), for  *)
(* a manche played again under the Revanche too.                            *)
ReplayedScoresAgree ==
  SameRows /\ replay.at > 0 => replay.scores = shown[replay.at].scores

(* "Levelling up between a run and its replay must not rewrite the score    *)
(* the child earned" (engine/replay_test.go:198), nor should another run.   *)
LaterRunsDoNotCount ==
  claim = {} /\ replay.at > 0 => replay.scores = shown[replay.at].scores

(* "GoldPlayed counts the gold words already played this run"               *)
(* (engine/score.go:84), the ones of its earlier manches too.               *)
GoldPlayedThisRun ==
  replay.walk = "walking" =>
    replay.goldPlayed = Cardinality({i \in 1..replay.at : replay.states[attempts[i].word].gold})
=============================================================================
