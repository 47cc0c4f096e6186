# A TLA+ verification project for ENCRE

ENCRE is a spelling game for a seven-year-old: a client (Ebitengine, native and
WASM) that plays runs of three manches, a server (Go, SQLite) that is the
authority on every score, a parent's panel, and an engine of pure rules that
both sides use. This directory holds TLA+ specifications of its core logic, the
TLC configurations that check them on small instances, and proofs for TLAPS.

Contents: [the system](#the-system), [what is hard](#what-is-hard-in-it),
[the modules](#the-modules), [the runs](#the-runs), [disagreements](#where-the-code-and-its-documents-disagree),
[the proofs](#the-proofs), [what is not modelled](#what-is-not-modelled), [plan](#plan).

## The system

| Part | State it keeps | Operations | Correct when |
|---|---|---|---|
| `engine` word states (`word.go`) | per child and word: mastery, success days, misses, streak, gold, tarnished, cursed, shine | `Record` (copy, right, wrong), `Tarnish` | a card can always be drawn; gold and curses are earned; nothing but the run of three lifts a curse |
| `engine` rank (`rank.go`, `target.go`) | rank, best rank, wins and weeks at rank, losing streak, Kindness | `WinBoss`, `LoseBoss`, `LoseEarly`, `Win`, `AdvanceWeek` | rises are paid for and apart, falls follow real slumps |
| `engine` experience (`rank.go`) | level, experience and cooldown per Couleur | `GainXP` | no experience lost, levels apart, none overdue |
| `engine` scoring, decks, replay (`score.go`, `deck.go`, `replay.go`) | none: pure functions of deck, attempts and states | `Score`, `BuildDeck`, `Targets`, `Replay`, `Apply` | what `Replay` accepts `Apply` can write; the client's score is the server's |
| `client/net`, `client/game/progress.go` | the run slot and the outbox, in `localStorage` or in files | `RecordAttempt`, `Finish`, `Resume`, `Enqueue`, `Drain` | no finished run is lost or overtaken |
| `client/game` score | running score | `RunScore.StartManche`, `Apply` | the counter is the server's score |
| `client/game` scenes, `cmd/client` | current scene; the card asked, its pari, the entry, a correction, the droplets in flight, the counter, four clocks | `Director.Replace`, `client.Update` with `tick`, `handleWagerTap`, `release`, `onLetterTyped`, `settleWord`, `advanceDroplets` | each card is scored once, by its own pari, the right letters stay, the counter ends at the score |
| `client/anim`, `client/ui`, `client/assets` | timings, geometry, fonts | curve evaluation, drawing | visual |
| `server/api` | none of its own: rows of `server/store` | run start, room, finish, heartbeat, child and parent reads, quick words, sentences, dictées | a run is applied exactly once; play time is bounded |
| `server/auth` | sessions, TOTP secrets and marks; per process: two limiters, the hashing semaphore, two dummy hashes, the pepper's keys | the parents' and the children's logins, enrolment, `Limiter.Allow`, `HashPassword`, `VerifyPattern`, `LoadPepper` | a code is used once, a session follows its secret, nobody is let in without one, nobody who has one is refused without a reason |
| `server/parent` | the same rows | children, settings, lists, week | what the parent saves stays saved |
| lists (`server/parent/week.go`, `lists.go`, `server/api/sentence.go`, `quickword.go`, `media.go`) | lists, items with their analysis and confirmation, sentences with their approval, recordings | paste, edit, confirm, remove a trap, record, validate, quick word, generate, regenerate, approve | a confirmation or an approval stays with the text it was given to; a list is unlocked by who looked at it |
| `server/store` | the SQLite database | one statement or transaction per method | |
| `server/gen`, `server/media` | none, files | sentence generation, transcoding | |
| `lexique`, `content`, `sim`, `cmd/*`, `internal/httpstatic`, `web`, `e2e`, `brief`, `deploy` | tables and texts, tools, tests, documents | | |

How the parts interact: the client starts a run (`POST /run/start`), which
reads the child's row and word states and persists a deck; it plays the run
alone, saving it after every word; it queues the finish in its outbox, which a
drain sends (`POST /run/{id}/finish`); the handler reads the same rows, lets
`engine.Replay` recompute the outcome, claims the run with one conditional
`UPDATE` (`MarkApplied`), lets `engine.Apply` write the outcome into its copies
of the rows (through `Record`, `GainXP`, `WinBoss`, `LoseBoss`), and saves them.
The parent's panel reads and writes the same rows from another session.

## What is hard in it

* Every handler is a sequence of separate transactions on shared rows, without
  a version check: two requests of one child, or the child and the parent,
  interleave between any two of them.
* A request may be sent again after a timeout while its first copy is still in
  the handler; a restart may come between any two statements.
* The client is closed at any moment, in the middle of a write too.
* A recording is transcoded, a model asked and a password hashed between the read
  of a row and its save.
* What a process keeps (limiters, dummy hashes, slots) is small and shared, and is
  gone after a restart.
* A frame of the client ticks its clocks and then takes a finger and any number
  of letters from the physical keyboard.
* Word states, ranks and levels change over weeks, by long sequences of legal
  calls, with zero values that mean "never" and "week zero" at once.

`PROJECT.json` lists each of these at its line, with the properties that bear
on it.

## The modules

| Module | Models | State and actions |
|---|---|---|
| `WordState` | `engine/word.go` for one word, the server's clock, and the card `client/game/card.go` derives | `st` is the `WordState` struct; `Rencontre`, `Success`, `Miss` are the three branches of `Record`, `Tarnish` itself, `NextDay` the clock. Mastery is an integer in units of 1/MasteryOne |
| `Card` | what a child is promised of a card, abstractly | four faces and a run of right answers; `WordState` implements it |
| `Rank` | `WinBoss`, `LoseBoss`, `LoseEarly`, `Win`, `AdvanceWeek` | `Won`, `Lost(early)`, `NextWeek` (which the job may miss) |
| `Levels` | `GainXP` | `GainXP(traps)`, `LevelsWeek` |
| `Calendar` | the week a handler reads | `week`, shared by the two |
| `Standing` | `engine.Apply` on a child's row: attempt after attempt into `Levels`, then the outcome into `Rank` | `PayAttempt`, `MoveRank`, `WeekPasses`; both halves keep the promises proved of them |
| `RunFinish` | `handleRunFinish` over the rows, several requests, the settings page | one action per statement sent to the database; a row counts what each run left in it |
| `Outbox` | `RunSession`, `Queue`, `FileStore` | one action per load and per save; `Kill` |
| `Courier` | what the outbox promises, abstractly | `Accept`, `Settle`; `Outbox` implements it when Drain blocks play |
| `Delivery` | `Outbox` and `RunFinish` joined by `HTTPSender` and the network | requests and answers lost, timeouts, restarts |
| `Score` | `engine/score.go` | operators only, chips in halves |
| `Play` | a run on both sides: `client/game/score.go` against `engine.Replay` | `counter` is `RunScore`, `replay` the locals of `Replay`; `Answer`, `NextManche`, `Revanche`, `Lose` on the client; `Finish`, `ReplayAttempt`, `ReplayManche` on the server; `OtherRun` moves the rows in between |
| `Twins` | nothing of its own: `Replay` of the run beside `Replay` of the run with one fault put right | each step of `Play` with the twin's |
| `Access` | sessions, TOTP codes, enrolment, logins, the account's deletion and the purges (`server/auth`, `server/parent`) | one action per statement of a login, an enrolment and a deletion; the clock |
| `Deck` | the catalogue of `server/api/catalog.go`, `engine.BuildDeck` and `Draw` | operators only: every deck the shuffle may give, every manche a ranking may deal |
| `RunStart` | `handleRunStart`, `handleRunHeartbeat` and `handleListDicteeResult` over the rows, several requests | one action per statement; `account` is the play_time rows, `runs` the decks opened, `told` what was answered with a 200; other handlers move the limit, the lists and the words in between |
| `Panel` | `Access` seen by a browser that follows redirects | `LoginGet`, `ChildrenGet` |
| `Paste` | `buildItems` and the part of `AnalyzeSentence` that finds the words a child is asked for | operators only, on sequences of runes: letters, spaces, commas, stops and marks |
| `Lists` | the handlers of the week's page and of the API that write lists, items and sentences | one action per read and per save; `held` is the row a request works on; `reviewed`, `approvals`, `born` and `pasted` are what the parent did, for the properties |
| `Limiter` | `auth.Limiter` | `order` is the list of the least recently used, `tokens` the buckets; `owed` is what a limiter that never forgets would hold against a key |
| `Login` | `handleChildLogin`, `LoginChildInFamily`, `LoginParent`, a child added by the panel, on two `Limiter`s | one action per statement and two per hash; `slots` is `argon2Sem`, `dummy` the `onceHash` values, `key` the pepper's version |
| `Scenes` | `Director` of `client/game/scene.go` | `transitions`, `canGo`, `Replaced` |
| `Writing` | `client.Update` of `cmd/client` with the garde scene before it | `c` is the client struct; one action per frame: the clocks, then a wager, a wait, or a finger, letters and Backspace |

The `MC*` modules give the constants their values; the `*_proofs` modules hold
the theorems.

### Notes on the abstractions

*Rows count runs.* In `RunFinish` a child's row and a word's row are functions
from runs to how often that run's effects are in them. What the effects are is
the business of `WordState`, `Rank` and `Levels`; whether they are there, once,
is this module's.

*Statements are steps.* SQLite runs each statement or transaction of
`server/store` atomically (WAL, one writer), so each is one action, and
everything a handler computes between two of them belongs to the step before.

*Words of a deck.* `Deck` tells of a word only whether it is unmet, seen, gold,
tarnished or cursed, which is all that `BuildDeck` and `Draw` look at; gold and
cursed at once is excluded by `CardDrawable`. `Rankings` turns the pool round
instead of permuting it: each of its words comes first once. In `RunStart` a minute of
the limit and a second of play are both one unit.

*Time.* `WordState`, `Rank` and `Levels` count days and weeks; in `Rank` the
calendar and the counter `AdvanceWeek` moves are distinct, because the job that
should call it may miss a week (on the server nothing calls it yet: the
simulator is its only caller, and so no child of a real server can rise).

*Whole numbers.* Chips come in halves (the Aimant pays half again), so `Score`
and `Play` count everything in halves: a chip of the code is two, a target of
the code twice its value. `Revanche`'s window is a percentage. Mastery in
`WordState` is in units of its constants. Rounding in floating point is left out.

*A manche is a number from one.* The code counts manches from zero; `Play`
counts from one, so that 0 is free to mean "not yet".

*Who drives a run.* No code of `cmd/client` goes from manche to manche yet;
`e2e/score_test.go` says how a scene would have to, and `Play` follows it.
`OtherRun` falls between the run's end and the finish: the client never reads
the rows again and the server reads them once, so an earlier moment adds nothing.

*Texts.* `Paste` cuts a text rune by rune, as the code does, and the spans of the
marked words are rune offsets: a mark may stand inside a word, and asks for the
whole of it. Runes of one word that nothing ever parts may stand as one letter, a
hyphen or an apostrophe inside a word is a letter, and all the ends of a sentence are one
stop. What the lexicon says of a text (sure or not, how many traps) is a parameter,
asked of each word alone: the agreements a sentence adds, and capitals, are left
out. So are families, due dates and the paths of recordings, though the
saves that carry them are not. Items have no order: their ids are random, and a page
sorts by them (`store/list.go:223`, `week.go:177`); the numbers of `Lists` only name rows.
Typed as a quick word, a text of several words stays one item in the API and
keeps its first word only on the page. Nothing deletes a list or a sentence: the two
methods have no caller.

*Hashes.* In `Login` a hash is a secret and the version of the pepper's key, and two
secrets never have the same. The children's limiter is asked by the child's id,
the parents' by an address. `golang.org/x/time/rate` gives back one token per
period to every bucket. What follows a parent's password is in `Access`.

*A frame is a step.* In `Writing` the clocks (hitstop, half-second of silence,
flight of a droplet, hold of a key) have or have not run out in a frame. Droplets
leave one after the other and fly equally long, so they land in order; their
shares are counted in units of 1/Scale of a token. The words of the demo manche
have no traps here, and `Play` has the scoring.

*Mutants.* Next to a definition stand forms of it with a plausible bug
(`MarkAppliedAlways`, `ConfirmItemInPlace`, ...), which no specification uses. Each one
makes a property of the runs fail, so that the property is known to bite.

## The runs

PROJECT.json says what each run shows. The bounds, and why they are enough:

* `word_state`: weeks of two days, seven days, gold at two days three apart, a
  curse at two misses in two weeks, three misses, a streak of four: every
  threshold is crossed, from both sides, twice.
* `finish`: three runs on shared and own words, two requests (so that each run
  may be finished twice at once, and two runs at once), one fault of any kind,
  one settings save. Of the runs one is refused by `Replay`, one makes `Apply`
  fail or panic, and one is plain.
* `outbox`: three runs, two kills, one failed save, under the assumption that
  a Drain blocks play (`DrainBlocksPlay`) and that a write is whole (`TornWrites`);
  the table below drops one of the two each.
* `delivery`: two runs, two requests, one fault, one kill, one loss, and the
  fairness the liveness property needs.
* `standing`: two wins and two weeks for a rise, two losses for a fall, ranks up
  to two; one Couleur with levels up to three at one, then two points, two
  weeks apart; five runs over five weeks, any of which the job may miss. A rise,
  a fall and a second rise fit, and a cooldown with experience piling up in it.
* `access`: two logins and one enrolment of one parent over five periods of a
  code, with sessions of two periods, a freshness of one and a login that may
  take one (`HandlerTime`): codes overlap, marks are purged while a login is on
  its way, sessions expire and are purged, and one statement fails or the
  server restarts.

* `start`: four words on two lists, one more than three manches of one word
  hold; a child who has met none of them, and one who has met all but one (gold,
  tarnished, seen); ids with repeats, gold and not; claims within and beyond the
  bound; a dictée of two words and one of a word outside its list; two
  requests at once, three in all, one fault, one row moved by another handler,
  and midnight at any step of them.

* `play`: two words a manche, each of them gold, cursed and asked blind, copied
  for the first time, or (the gold one) missed; the Gomme, the Collectionneur
  and the Aimant; the Voleur d'accents; one Revanche per manche and one other
  run. The targets of 10, 36 and 80 chips lie so that each manche can be lost,
  met exactly, beaten, and missed within the Revanche's window. Each run with
  faults is judged beside every run that puts one of them right.

* `lists`: four requests, two at once, on one list that is pasted and those the quick
  words make (two pastes at once are left to the proof of `PasteIsWhole`); words of one and of two
  letters, one of which the lexicon is sure of; pastes of two words, of a
  dictée with a run of stops and a tail without, of a sentence with marks around
  nothing, and of one whose pair opens inside a word, closes right before
  the next and is followed by a mark left open; two quick words, one of two words
  and one of none; three sentences, one too long and one with an unknown word; one
  fault. Four
  requests are what it takes for a confirmed item to be edited while a slow
  recording holds the old row.
* `login`: two requests, one hashing slot, two keys for three askers, one token;
  two families, a child, another that may be added with the same pattern, an id
  nobody has, guesses that are the dummies' own secrets; two versions of the
  key. One behaviour keeps to one of three sets of what may be asked (`Scenarios`):
  three ids for two places, a child added between logins, parents.
* `writing`: "té", then "t", three paris, at most two letters from the physical
  keyboard in a frame beside a finger and a Backspace; one droplet or more a
  word. The key of "e" opens "é"; a word may be completed, spoilt and completed
  again in one frame.

Deadlock is checked wherever the system cannot stop. `WordState` and `Standing` end
with their calendar, `Access` with its clock, `RunStart` and `Lists` with the number of
requests, `Play` when the run is judged, `Panel` when the browser has arrived; their
configurations say so.

*Fairness.* `Delivery!FairSpec` assumes that a handler goes on (the Go
scheduler), the client's timer fires (`sendTimeout`), a run half queued is
queued, and somebody calls `Drain` again and again. The last is an assumption
about code that does not exist yet: nothing in `cmd/client` drains. Faults,
kills and losses are bounded and never required.

`Login!Spec` assumes that every request's goroutine is scheduled (`WF_vars(Works(r))`);
neither time nor a restart, nor the end of a flood, is required. `Writing!Spec` assumes
that the loop calls `Update` and that time passes: no step sets back a clock that
runs in the silence or among the droplets, so a frame comes in which all of
them have run out. The child is required to do nothing.

## Where the code and its documents disagree

Each is a sentence of a document, a comment or a test that the code does not
keep. The run `finish_panic` shows the first, and PROJECT.json quotes it: in
`MCRunFinish_panic.cfg` a run's outcome is not written "exactly once per run"
(`run.go:208`), for a child the panel created has no map of levels, and `GainXP`
panics on it after the run was marked applied.

TLC finds each of the others violated under the configuration named, with the
constants changed as written, the property in the place of the run's own, and
without its SYMMETRY:

| Configuration | Property | The sentence | What the code does |
|---|---|---|---|
| `MCPanel.cfg` | `BrowserArrives` | `parent/session.go:28`: a session that is not fresh is "redirected to the login page" | the login page sends it back to the panel, for as long as the session is known |
| `MCRunStart.cfg`, `Settings = {1}`, `DefaultLimit = 2` | `LimitIsTheParents` | `brief/ENCRE_01_spec_jeu.md:201`: the limit of play is "20 min/jour par défaut, réglable par jour" | the panel saves it as `minutes_per_day`, the run start reads `minutes` and takes its default |
| `MCWriting.cfg` | `RightStartIsNotCorrected` | `cmd/client/run_test.go:66`: "no correction is ever set"; `main.go:127`: one is set "the instant a keystroke first diverges" | `FirstMismatch` finds fault with a right start of the word, so every right letter but the last opens a correction, freezes the input and shakes the screen |
| `MCWriting.cfg` | `ScoredIsTheWord` | `cmd/client/run.go:142`: the word is scored "for real" | a Backspace in the frame that completes the word shortens what the attempt says was typed |
| `MCWriting.cfg` | `ShownIsTyped` | `client/game/correction.go`: the correction keeps the letters already right | a letter erased while it blinks is still shown among those kept |
| `MCWriting.cfg` | `HeldKeyIsThisCards` | `main.go:173`: `held` is "the key under the finger" | a key held when a word was completed is typed into the next card when it is let go |
| `MCLists.cfg` | `ValidatedIsReviewed` | `store/list.go:56`: a list with an item still to be checked is not validated by `Store.ValidateList` | only the page checks, before the statement; an edit afterwards leaves the list unlocked |
| `MCLists.cfg` | `ValidatedIsWhole` | `week.go:65`: the list and "every item it produced" are created before the validation | a list whose paste failed half way can be validated |
| `MCLists.cfg` | `QuickWordIsPlayable` | `week.go:499`, the "ajouter ce mot" button; `quickword.go:110`: "playable the moment it is added" | the page adds the word to the newest list called "mes mots", a pasted one included, validated or not |
| `MCLists.cfg` | `ApprovedIsWhatWasRead` | `api/sentence.go:135`: one sentence is marked approved | what is approved is what the row holds by then, a regenerated text included |
| `MCLists.cfg` | `AskedWasMarked` | `lists.go:30`: "the parent wraps the word or words the child must write" | a mark inside a word asks for the whole of it, unmarked letters too: "l'\*école\*" asks for "l'école", and "ch\*\*at", which marks nothing, for "chat" |
| `MCLists.cfg` | `SomethingIsAsked` | `lists.go:157`: a sentence without a target is refused | two marks with nothing between them are a target without a word |
| `MCLogin.cfg` | `DummyIsMadeInTheEnd` | `login.go:30`: the same cost "whether the email exists or not" | a dummy hash whose one making met a saturated semaphore stays an error as long as the process lives |
| `MCWordState.cfg` | `MasteryWithinOne` | `wordstate_statemachine_test.go:73` wants mastery "within [0, 1]" | a Rencontre adds a constant and never clamps |
| `MCWordState.cfg` | `CurseSparesGold` | `word.go:70`: the curse falls "on a word that is *not* gold" | a miss takes the gold and counts the misses from before it in one step |
| `MCWordState.cfg` | `LostGoldStartsOver` | `brief/ENCRE_01_spec_jeu.md:130`: "compteur remis à zéro" | the days of success stay, and the next right answer gilds again |
| `MCRunFinish.cfg`, `Requests = {q1}`, `Unappliable = {}`, `LevelsKnown = TRUE` | `AppliedExactlyOnce` | `run.go:208` | a restart or a failed statement between `MarkApplied` and the saves loses the effects for good |
| `MCRunFinish.cfg`, `MaxFaults = 0`, `LevelsKnown = TRUE` | `AppliedExactlyOnce` | the same | `Apply` fails, after `MarkApplied`, on an attempt `Replay` never reached |
| `MCRunFinish.cfg`, `MaxFaults = 0`, `MaxSettings = 0`, `Unappliable = {}`, `LevelsKnown = TRUE` | `AppliedExactlyOnce` | the same | two finishes of one child save the whole row each, from their own copies |
| `MCRunFinish.cfg` | `SettingsKept` | `settings.go:122`: the form is applied | a finish that read the row earlier saves the old settings over it |
| `MCOutbox.cfg`, `DrainBlocksPlay = FALSE` | `QueuedSurvives` | `queue.go:56`: the outbox "survives a closed tab or a killed process" | a drain that ends saves what it loaded at its start over a run queued since |
| `MCOutbox.cfg`, `TornWrites = TRUE` | `QueuedSurvives` | the same | a file cut short while it is written counts as an empty outbox |
| `MCDelivery_timeout.cfg` | `DeliveredIsRecorded` | `queue.go:33`: on a 409 "another send of the same job already got there first" | that send may have failed after it was granted |
| `MCStanding.cfg` | `FallNeedsBossFailures` | `rank.go:48`: "`LoseBoss` records a boss failed" | `Apply` calls it for every run that is lost |
| `MCStanding.cfg`, `FirstKindness = 0` | `LossNeverRaisesTargets` | `target.go:51`: "the targets come down one step" | the panel's children start with a Kindness of zero, which the first loss raises to the floor |
| `MCWordState.cfg` | `TarnishedIsDrawn` | `card.go:29`: "`CardTarnished` is a gold word that went unplayed too long" | a tarnished word is still gold, and gold is tested first |
| `MCDelivery_session.cfg` | `RejectedIsHopeless` | `queue.go:38`: what is rejected "will never succeed by retrying it unchanged" | a 401 for an expired session is dropped as rejected |
| `MCPlay.cfg` | `LaterRunsDoNotCount` | `replay_test.go:198`: levelling up in between "must not rewrite the score the child earned" | the finish replays with the levels and states of the moment; `run.go:261` knows of the levels |
| `MCPlay.cfg` | `GoldPlayedThisRun` | `score.go:84`: "`GoldPlayed` counts the gold words already played this run" | both sides start again from zero with each manche |
| `MCPlay.cfg` | `ReplayedScoresAgree` | `client/game/score.go:96`: the total is "exactly as `engine.Replay` would report it" | `Replay` gives the extra multiplier to the first pass of a replayed manche too |
| `MCAccess.cfg` | `EnrolmentRevokes` | `totp.go:162`: an enrolment "must not leave a session ... still valid" | it fails after the promotion, and cannot be repeated, for the pending secret is gone |
| `MCAccess.cfg` | `NoSessionWithoutParent` | `account.go:114`: a tab left open "loses access immediately" | a login may create its session between the two deletions |

Consequences of the definitions that need no run: the run of three may be three
right answers of one afternoon, which turn a cursed word to gold (the brief's line
132 asks for no more; every other word needs days far enough apart); misses of one week count one
by one towards a curse (`brief/ENCRE_01_spec_jeu.md:132` wants "3 semaines
différentes"); a miss raises mastery by half of what a success would
(`types.go:100`: it "falls with failure"); a fall leaves `LastRankW` alone
(`target.go:39`: "the week the rank last moved"); `Replay` tests the window of a
Revanche on both passes of the manche added up, each without the bonus the first
never had (`revanche.go:12`: "the same window").

Seen while reading, and not modelled: `AdvanceWeek` and `Tarnish` have no caller on
the server; `Apply` answers a run applied before with nothing and no error,
where its comment promises `ErrAlreadyApplied`; `LocalStore.Load` prefers what
`localStorage` holds to what a failed save kept in memory; deleting a parent leaves the
children's sessions, which no foreign key reaches; a correction of a word is
undone when a recording begun before it is saved, and a recording stays when
its word is corrected; of two recordings uploaded at once the file may be one's
and the row the other's; a bucket that is evicted, or a restart, gives an
address its full allowance back (`ratelimit.go:28`); a saturated semaphore, which
`password.go:57` wants answered 503, is answered 401 to a child; nothing hashes a
row again after a rotation of the key; keys pressed during a hitstop are lost.

## The proofs

TLAPS proves, for every value of the constants that satisfies the modules'
assumptions, all the safety and action properties the passing runs check, the
type invariants and the refinements of the abstract specifications. Hardly any of
them is inductive as it stands; what follows says what had to be added, and why.

* `Engine_proofs`, the rules of `engine`:
  * *Words*: every safety property of `WordState`, and that it implements `Card`.
    The invariant adds to the properties how the streak, the days and the misses
    relate.
  * *Rank*: the properties of `Rank`, what the streak and the Kindness count
    (`StreakIsLosses`; `KindnessCountsEarlyLosses`, for any Kindness a row may be created
    with, the panel's 0 included: until the first win it counts from there), and that above the first
    rank the losing streak is always short of a fall (`StreakBelowFall`).
    `RankInv` adds that the weeks counted at a rank are weeks of the calendar since
    the rank last moved, which is what makes two rises lie apart.
  * *Levels*: the properties of `Levels`, and `LevelsApart`. `LevelsInv` adds that a
    cooldown ends LevelCooldownW weeks after the last level-up.
  * *Standing*: a step of `Apply` is a step of `Rank` or leaves it alone, and the
    same of `Levels`, so that all of the above holds of a finished run.
  * *Play*: the types, `ScoresAgree` and `OutcomeAsPlayed`, for any words, states,
    levels, Talismans, targets and number of words. The agreement needs no more of
    `Score` than that both sides call it with the same arguments. `HistoryInv`
    writes the client's history as a recurrence: each counter shown is the one
    before it (`Opened`, with the manche it was opened in) with the answer applied,
    and manches follow one another. `EndInv` says that a manche left behind met its
    target and that no later answer counts in it. `WalkInv` then has the walk stand
    where the counter stood, never past the manche the run ended in.
  * *Twins*: `RightIsNeverWorse`. This one needs the arithmetic of `Score`: what an
    attempt pays grows with the combo and depends on nothing else that the twin may
    have more of. `Beside` has the two walks at the same attempt of the same
    manche, with the twin no lower in anything it may have gained and the Gomme
    still in its hand if the run has it; it ends with the walks, and leaves
    `NeverBehind`.
* `RunFinish_proofs`: `AppliedAtMostOnce`, `OneWriterPerRun`,
  `WrittenWasGranted`, `InvalidSpendsNothing`. None is inductive alone. `IInv`
  adds: a request past `MarkApplied` finishes a granted run (`Granted`), a run
  that is not granted is in no row and in no copy of a row (`Unspent`), a run
  whose writer has not saved a row yet is not in it, nor in any copy of it
  (`Unwritten`), and no row and no copy holds a run twice (`Once`). The argument
  is that a copy can only bring back what a row held, and a run enters a row
  only from its one writer's hand, whose own copies cannot hold it.
* `Outbox_proofs`: that nothing is lost (`NothingLost`), that a queued run stays
  queued until it is settled (`QueuedSurvives`) and that `Outbox` implements
  `Courier`. The theorems
  assume `DrainBlocksPlay` and `~TornWrites` in their statement, for the code breaks
  durability otherwise (see the table above). Under them what `Finish` and `Drain` hold is what the store holds,
  for neither lets the other in; what a Drain has passed is settled; and the outbox
  holds what is not settled of the finished runs in the order they were finished,
  perhaps with some of them again (a Finish that is cut between its save and its
  clear is repeated) and with some that are settled already (a Drain killed before
  its save). For the refinement, what is settled is
  a beginning of the finished runs (`SplitInTurn`) and the rest of them is what
  `Courier` has pending: saving a Finish maps to `Accept`, an answer that settles a
  run to `Settle`, anything else to a stutter.
* `Delivery_proofs`: the client of `Delivery` takes steps of `Outbox`
  (`DeliveryRunsOutbox`) and its server steps of `RunFinish` (`DeliveryRunsServer`),
  so that what is proved of each holds whatever the other and the network do: above
  all, that no row holds a run twice however often the client sends it
  (`DeliveredAtMostOnce`). Then, of both together, `DeliveredWasGranted` and
  `GrantedInOrder`. `DeliveryInv` adds that a server past `MarkApplied`, or answering
  that a run is spent, handles a granted one; that the answer awaited is that of the
  job sent; and that every request in progress, one given up by the client included, is
  for a run whose elders are granted or were reported rejected (`SentInTurn`): that
  held when it was sent, and no grant and no report is taken back. The theorems assume
  what `Outbox` and `RunFinish` assume of their constants.
* `Run_proofs`, a run before it is finished, as it opens on the server:
  `AcknowledgedIsCounted` and `BonusIsBacked`. A sum over the
  requests in progress is written as the cardinality of a set of pairs, one for
  every word reported and not yet credited, so that a request that saves or
  credits takes its pairs from one set and no induction is needed. Then the decks it
  opens: `DecksSound` and `EveryUnmetWordIsDealt`, for any words, histories and sizes.
  Each word of a finite set has one rank, the count of those below it
  (`EveryRankIsTaken`, `BelowIsInjective`), so that a set in order is a function of
  places whose words differ, and so is what a filter keeps of one (`OnlyPlaces`,
  `OnlyWords`). A week is then at most `WeekLimit` words, each once, with a seen one
  only when every unmet one has its place. The round robin gives a place of the unmet
  words to one manche and one place of it (`NoPlaceIsDealtTwice`), leaves none out
  (`EveryPlaceIsDealt`), and the manche's size cuts none (`NoMandatoryWordIsCut`); what
  fills the rest is seen, so that it deals none of them again. Of a ranking
  the proof uses only that its words are the pool's. A deck is judged by what
  its request had read. And the run as it is written on the
  screen: every safety property of `Writing`. The letters right so far are an interval
  of places that `FirstMismatch` counts, so that cutting the entry there leaves a
  start of the word, and every letter of a frame can be followed by the next.
  `ClientInv` adds which card is open, how many paris are ahead of the attempts, and
  that the last pari is the one being written. The score is a sum over the attempts,
  unfolded by its recurrence; the counter needs that the droplets come out whole
  (`WholeDroplets`), which some `Scale` makes true for any manche.
* `Lists_proofs`: all the properties of `Lists`, its types, and those of what `Paste`
  cuts a text into. A row is good when its analysis and its confirmation, or its
  approval, are of the text it holds; a row a request read stays good in its hands,
  however long a recording takes, because lists, items, reviews and approvals only
  grow. `PasteInv` has one writer for each list that is being filled, whose items so
  far are the first drafts of the paste in their order: stronger than the property,
  which speaks of no order, and what makes it inductive. That each word is saved as
  often as it was pasted follows. That the words asked are those the marks reach needs
  where each rune of the paste ends up in the stripped text, and which occurrence of
  a mark opens a span and which closes it.
* `Login_proofs`: all the properties of `Login` and of the limiters in it, and its types,
  that a limiter tracks as many keys as its order has places among them.
  `LimiterInv` adds that every key before a debtor in the order of use was asked
  about since the debtor was, so that a debtor pushed out of a full table has
  MaxKeys others after it. `LoginInv` says what each request read and still holds:
  rows stay as they are once they are there, and a row about to be added is
  added by one request. The slots of the semaphore are counted by adding or taking
  one request from the set of those that hash.
* `Access_proofs`: the properties of `Access`. `CodeInv` adds to `CodeUsedOnce`
  that a login is at most `HandlerTime` behind the clock, that its code lies within
  the skew of the time it read, and that the mark of whoever passed is either still
  there or older than the window; a second use would then be farther from the first
  than the skew on both sides and the handler's time together allow. The assumption
  `AccessAssumption` says just that, `ReplayWindow > 2 * Skew + HandlerTime`: with
  the code's 120 s and its skew of 30 s a login must be done within its own period.
  `FollowInv` says that a session becomes fresh only in the hands of a login whose
  code matched, and that who changes the secret afterwards revokes or is still to.

Each of these invariants was checked by TLC on the run's instance before its
proof. What the proofs changed in the models: two CASE expressions of `Login` had arms
that overlap, which leaves the choice open where the code takes the first (TLC
takes it too, and does not show it); they are disjunctions now, each with its
condition. `Deck` filters and orders words by functions of their places, in the stead of
the library's `SelectSeq` and `SetToSortSeq`, which only induction over the sequence
opens; and `RunStart` assumes that a child has finitely many words, without which a
week has no order to be cut in.

Sequences are reasoned about place by place. Where a model computes over one (the cuts
of `Paste`, the letters of a frame, the score), it does so by a recursive function over
the places, unfolded by its recurrence (`PlaceByPlace`, on the well-founded order of
the naturals), and so is the library's `FlattenSeq` in `Lists`; the sums of `RunStart`
are cardinalities, and so are the ranks of `Deck`.

The type invariants of all the modules with a state are theorems; only the run of `Lists`
repeats one.

Model-checked only: liveness (`EventuallySettled`, `EveryRequestIsAnswered`,
`EveryWordIsPaid`), which needs ENABLED.

## What is not modelled

| Part | Why |
|---|---|
| `engine` targets (`Targets`, `PHat`) | sums of products in floating point over a deck; `Deck` leaves the order `PHat` gives open |
| rooms and the boss of a deck, the deck's seed | no state depends on them; `handleRunRoom` checks a choice and saves nothing |
| attempts outside the deck or the three manches | `Replay` refuses the run, as `RunFinish` models it |
| Talismans bought during a run | the finish reports one list for the whole run, and nothing in the client buys one yet; `Play` has one list |
| `AnalyzeSentence`'s rules beyond the words it asks for, liaisons, families | what they say of a word is a parameter of `Paste` |
| due dates, share codes, the paths and contents of recordings | no property tells them apart; the whole-row saves that carry them are modelled |
| `LoginChild` (by pseudo), `SetParentPassHash` | no route calls them |
| the address a request comes from (`ClientIP`), `LoadPepper`'s files, argon2id | inputs and libraries; `Login` takes any address, any version and hashes that never collide |
| `Director`'s `Push` and `Pop`, the scenes after the run | no caller in the source outside tests; `Scenes` has the whole graph |
| `server/gen`, `server/media` | the model's protocol, ffmpeg and Piper are outside the program; `Lists` has the filter of sentences, and calls that fail |
| drawing, fonts, timings (`client/ui`, `client/anim`, `client/assets`) | geometry and curves without state |
| `lexique`, `content`, `cmd/lexique-gen` | tables and texts; a build step |
| `sim`, `brief` | a statistical simulation of the same rules |
| `web`, `e2e`, `deploy`, `scripts`, `cmd/serve`, `internal/httpstatic` | pages, tests and tools |
| the SQL schema's constraints, backups, WAL checkpoints | SQLite's own; a statement is atomic here |
| floating point | scores and mastery are integers in small units |

## Plan

What is left is to say in the abstract what the server promises, as `Card` and `Courier`
do for a word and for the outbox, and to prove that it is implemented: a ledger
that grants each run once, for `RunFinish`; a day's account that only grows by what was
acknowledged, for `RunStart`; an allowance for each key, for `Limiter`.
