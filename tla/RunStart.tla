------------------------------ MODULE RunStart ------------------------------
(***************************************************************************)
(* A child's day on the server: POST /run/start (handleRunStart), POST      *)
(* /run/{id}/heartbeat (handleRunHeartbeat) and POST                        *)
(* /lists/{id}/dictee-result (handleListDicteeResult) of server/api, over   *)
(* the play_time, dictee_results, word_lists, word_states and runs rows of  *)
(* server/store, for one child.                                             *)
(*                                                                         *)
(* As in RunFinish, each statement a handler sends the database is a step   *)
(* of its own, and what it computes after one belongs to that step.  Time   *)
(* is counted in units.  Midnight may fall anywhere between two steps.      *)
(***************************************************************************)
EXTENDS Deck

CONSTANTS
  Requests,    \* requests that may be in progress at once
  Words,       \* the child's items, numbered in the order of their ids
  Lists,       \* the child's word lists
  ItemsOf,     \* ItemsOf[l]: the items of list l, all enabled: nothing
               \* in the server disables one
  Histories,   \* what the engine may remember of the words at first
  Asks,        \* the gardeIDs a client may send
  Claims,      \* the seconds a heartbeat may claim
  Reports,     \* the dictées a parent may report: a list, and its results
  Settings,    \* the minutes a day the parent's page may save
  DefaultLimit,    \* defaultDailyLimitMinutes, and what a new child's row holds
  MaxBeat,         \* maxHeartbeatSeconds
  CompletionBonus, \* dicteeCompletionBonusSeconds
  WordBonus,       \* dicteeCorrectWordBonusSeconds
  \* Bounds of the state space.
  LastDay,     \* the days are 0 .. LastDay
  MaxSent,     \* requests sent in all
  MaxFaults,   \* failed statements and restarts
  MaxMoves     \* what other handlers do to the rows

ASSUME RunStartAssumption ==
  /\ Words \subseteq Nat /\ IsFiniteSet(Words)
  /\ ItemsOf \in [Lists -> SUBSET Words]
  /\ Histories \subseteq [Words -> Classes]
  /\ Asks \subseteq Seq(Words)
  /\ Claims \subseteq Int
  /\ Reports \subseteq [list: Lists, results: Seq([item: Words, correct: BOOLEAN])]
  /\ Settings \subseteq Nat
  /\ {DefaultLimit, MaxBeat, CompletionBonus, WordBonus,
      LastDay, MaxSent, MaxFaults, MaxMoves} \subseteq Nat

VARIABLES
  day,        \* the epoch day of the server's clock
  account,    \* the play_time rows, per day
  results,    \* the dictee_results rows entered on each day, counted
  limit,        \* children.daily_limit_json
  validated,  \* the validated lists
  states,     \* the word_states rows
  runs,       \* the decks of the runs created
  pc,         \* where each request stands
  held,       \* what each request holds
  told,       \* the time the server has acknowledged with a 200, per day
  sent, faults, moves

rows == <<account, results, limit, validated, states, runs>>
vars == <<day, rows, pc, held, told, sent, faults, moves>>

----------------------------------------------------------------------------
Days     == 0 .. LastDay
Steps    == {"idle", "readChild", "readTime", "readStates", "readLists", "readItems",
             "create", "ownRun", "addTime", "beatChild", "beatTime",
             "items", "save", "credit"}
Accounts == [seconds: Nat, bonus: Nat]
Counts   == [all: Nat, correct: Nat]
NoTime   == [seconds |-> 0, bonus |-> 0]

(* What the parent's page saves: a key the API does not read.               *)
SavedLimit(minutes) == [minutes_per_day |-> minutes]
LimitRows == [minutes_per_day: Nat]

(* dailyLimitMinutes: the API reads another key, and the default without it. *)
DailyLimit(raw) ==
  IF "minutes" \in DOMAIN raw /\ raw.minutes > 0 THEN raw.minutes ELSE DefaultLimit

(* remainingSeconds. *)
Remaining(raw, time) == DailyLimit(raw) + time.bonus - time.seconds

(* What a handler holds between two statements. *)
Nothing ==
  [ids |-> <<>>, limit |-> SavedLimit(0), time |-> NoTime, states |-> [w \in Words |-> "unmet"],
   lists |-> {}, all |-> {}, day |-> 0, claim |-> 0, left |-> <<>>, correct |-> 0, list |-> {}]

HeldRecords ==
  [ids: Seq(Words), limit: LimitRows, time: Accounts, states: [Words -> Classes],
   lists: SUBSET Lists, all: SUBSET Words, day: Days, claim: Int,
   left: Seq([item: Words, correct: BOOLEAN]), correct: Nat, list: SUBSET Words]

----------------------------------------------------------------------------
Init ==
  /\ day = 0
  /\ account = [d \in Days |-> NoTime]
  /\ results = [d \in Days |-> [all |-> 0, correct |-> 0]]
  /\ limit = SavedLimit(DefaultLimit)
  /\ validated \in SUBSET Lists
  /\ states \in Histories
  /\ runs = {}
  /\ pc = [q \in Requests |-> "idle"]
  /\ held = [q \in Requests |-> Nothing]
  /\ told = [d \in Days |-> NoTime]
  /\ sent = 0
  /\ faults = 0
  /\ moves = 0

(* The request ends: nothing it held outlives it. *)
Ends(q) ==
  /\ pc' = [pc EXCEPT ![q] = "idle"]
  /\ held' = [held EXCEPT ![q] = Nothing]

GoesOn(q, step, hold) ==
  /\ pc' = [pc EXCEPT ![q] = step]
  /\ held' = [held EXCEPT ![q] = hold]

Arrives(q, step, hold) ==
  /\ pc[q] = "idle"
  /\ sent < MaxSent
  /\ sent' = sent + 1
  /\ GoesOn(q, step, hold)
  /\ UNCHANGED <<day, rows, told, faults, moves>>

----------------------------------------------------------------------------
(* POST /run/start. *)

Start(q, ids) == Arrives(q, "readChild", [Nothing EXCEPT !.ids = ids])

ReadChild(q) ==
  /\ pc[q] = "readChild"
  /\ GoesOn(q, "readTime", [held[q] EXCEPT !.limit = limit])
  /\ UNCHANGED <<day, rows, told, sent, faults, moves>>

(* remainingSeconds: a run is refused once the day's time is spent. *)
ReadTime(q) ==
  /\ pc[q] = "readTime"
  /\ \/ /\ Remaining(held[q].limit, account[day]) <= 0
        /\ Ends(q)
     \/ /\ Remaining(held[q].limit, account[day]) > 0
        /\ GoesOn(q, "readStates", [held[q] EXCEPT !.time = account[day]])
  /\ UNCHANGED <<day, rows, told, sent, faults, moves>>

ReadStates(q) ==
  /\ pc[q] = "readStates"
  /\ GoesOn(q, "readLists", [held[q] EXCEPT !.states = states])
  /\ UNCHANGED <<day, rows, told, sent, faults, moves>>

(* validatedListIDs. *)
ReadLists(q) ==
  /\ pc[q] = "readLists"
  /\ GoesOn(q, IF validated = {} THEN "create" ELSE "readItems",
            [held[q] EXCEPT !.lists = validated])
  /\ UNCHANGED <<day, rows, told, sent, faults, moves>>

(* ItemsOfList, list after list. *)
ReadItems(q) ==
  /\ pc[q] = "readItems"
  /\ \E l \in held[q].lists :
       GoesOn(q, IF held[q].lists = {l} THEN "create" ELSE "readItems",
              [held[q] EXCEPT !.lists = @ \ {l}, !.all = @ \cup ItemsOf[l]])
  /\ UNCHANGED <<day, rows, told, sent, faults, moves>>

(* BuildDeck on what was read, and CreateRun. *)
CreateRun(q) ==
  /\ pc[q] = "create"
  /\ \E deck \in BuildDeck(held[q].ids, held[q].all, held[q].states) :
       runs' = runs \cup {deck}
  /\ Ends(q)
  /\ UNCHANGED <<day, account, results, limit, validated, states, told, sent, faults, moves>>
----------------------------------------------------------------------------
(* POST /run/{id}/heartbeat, for a run the child has started. *)

(* INSERT ... ON CONFLICT DO UPDATE SET seconds = seconds + excluded.seconds *)
AddSecondsReplacing(time, n) == [time EXCEPT !.seconds = n]

AddSeconds(time, n) == [time EXCEPT !.seconds = @ + n]

AddBonus(time, n) == [time EXCEPT !.bonus = @ + n]

Beat(q, claim) ==
  /\ runs # {}
  /\ Arrives(q, "ownRun", [Nothing EXCEPT !.claim = claim])

(* The claim's bounds; the day is read before the statement is sent. *)
OwnRun(q) ==
  /\ pc[q] = "ownRun"
  /\ \/ /\ held[q].claim \notin 1 .. MaxBeat
        /\ Ends(q)
     \/ /\ held[q].claim \in 1 .. MaxBeat
        /\ GoesOn(q, "addTime", [held[q] EXCEPT !.day = day])
  /\ UNCHANGED <<day, rows, told, sent, faults, moves>>

AddPlayTime(q) ==
  LET d == held[q].day IN
  /\ pc[q] = "addTime"
  /\ account' = [account EXCEPT ![d] = AddSeconds(@, held[q].claim)]
  /\ GoesOn(q, "beatChild", held[q])
  /\ UNCHANGED <<day, results, limit, validated, states, runs, told, sent, faults, moves>>

BeatReadsChild(q) ==
  /\ pc[q] = "beatChild"
  /\ GoesOn(q, "beatTime", [held[q] EXCEPT !.limit = limit])
  /\ UNCHANGED <<day, rows, told, sent, faults, moves>>

(* The account is read again, on the day it is by now; then the 200. *)
BeatAnswers(q) ==
  /\ pc[q] = "beatTime"
  /\ told' = [told EXCEPT ![held[q].day].seconds = @ + held[q].claim]
  /\ Ends(q)
  /\ UNCHANGED <<day, rows, sent, faults, moves>>

----------------------------------------------------------------------------
(* POST /lists/{id}/dictee-result, by the parent. *)

Report(q, report) ==
  Arrives(q, "items", [Nothing EXCEPT !.left = report.results, !.list = ItemsOf[report.list]])

(* A report of nothing, or of a word outside the list, is refused.  One     *)
(* instant dates the rows and the bonus.                                    *)
ReadReportedCreditsFirst(q) ==
  /\ pc[q] = "items"
  /\ GoesOn(q, "credit", [held[q] EXCEPT !.day = day])
  /\ UNCHANGED <<day, rows, told, sent, faults, moves>>

ReadReported(q) ==
  LET words == {held[q].left[i].item : i \in DOMAIN held[q].left} IN
  /\ pc[q] = "items"
  /\ \/ /\ held[q].left = <<>> \/ ~(words \subseteq held[q].list)
        /\ Ends(q)
     \/ /\ held[q].left # <<>> /\ words \subseteq held[q].list
        /\ GoesOn(q, "save", [held[q] EXCEPT !.day = day])
  /\ UNCHANGED <<day, rows, told, sent, faults, moves>>

(* SaveDicteeResult, one statement per result, each under a fresh id. *)
SaveResult(q) ==
  LET d     == held[q].day
      right == IF Head(held[q].left).correct THEN 1 ELSE 0
  IN
  /\ pc[q] = "save"
  /\ results' = [results EXCEPT ![d] = [all |-> @.all + 1, correct |-> @.correct + right]]
  /\ GoesOn(q, IF Len(held[q].left) = 1 THEN "credit" ELSE "save",
            [held[q] EXCEPT !.left = Tail(@), !.correct = @ + right])
  /\ UNCHANGED <<day, account, limit, validated, states, runs, told, sent, faults, moves>>

Bonus(correct) == CompletionBonus + correct * WordBonus

(* AddBonusSeconds, then the 200. *)
CreditBonus(q) ==
  LET d     == held[q].day
      bonus == Bonus(held[q].correct)
  IN
  /\ pc[q] = "credit"
  /\ account' = [account EXCEPT ![d] = AddBonus(@, bonus)]
  /\ told' = [told EXCEPT ![d].bonus = @ + bonus]
  /\ Ends(q)
  /\ UNCHANGED <<day, results, limit, validated, states, runs, sent, faults, moves>>

----------------------------------------------------------------------------
(* A statement fails, or the caller hangs up: the request ends where it is. *)
Fail(q) ==
  /\ pc[q] # "idle"
  /\ faults < MaxFaults
  /\ faults' = faults + 1
  /\ Ends(q)
  /\ UNCHANGED <<day, rows, told, sent, moves>>

(* The server restarts: the rows are all that is left. *)
Restart ==
  /\ \E q \in Requests : pc[q] # "idle"
  /\ faults < MaxFaults
  /\ faults' = faults + 1
  /\ pc' = [q \in Requests |-> "idle"]
  /\ held' = [q \in Requests |-> Nothing]
  /\ UNCHANGED <<day, rows, told, sent, moves>>

Midnight ==
  /\ day < LastDay
  /\ day' = day + 1
  /\ UNCHANGED <<rows, pc, held, told, sent, faults, moves>>

(* What other handlers do to the rows meanwhile: the settings page saves    *)
(* the limit, the parent validates a list, the finish of another run moves  *)
(* a word (WordState says how).                                             *)
SaveSettings ==
  /\ moves < MaxMoves
  /\ \E minutes \in Settings : limit' = SavedLimit(minutes)
  /\ moves' = moves + 1
  /\ UNCHANGED <<day, account, results, validated, states, runs, pc, held, told, sent, faults>>

ValidateList ==
  /\ moves < MaxMoves
  /\ \E l \in Lists \ validated : validated' = validated \cup {l}
  /\ moves' = moves + 1
  /\ UNCHANGED <<day, account, results, limit, states, runs, pc, held, told, sent, faults>>

Follows(class) ==
  CASE class = "unmet"     -> {"seen"}
    [] class = "seen"      -> {"gold", "cursed"}
    [] class = "gold"      -> {"seen", "cursed"}
    [] class = "tarnished" -> {"seen", "cursed"}
    [] class = "cursed"    -> {"gold"}

FinishElsewhere ==
  /\ moves < MaxMoves
  /\ \E w \in Words : \E class \in Follows(states[w]) :
       states' = [states EXCEPT ![w] = class]
  /\ moves' = moves + 1
  /\ UNCHANGED <<day, account, results, limit, validated, runs, pc, held, told, sent, faults>>

Handle(q) ==
  \/ ReadChild(q) \/ ReadTime(q) \/ ReadStates(q) \/ ReadLists(q) \/ ReadItems(q)
  \/ CreateRun(q)
  \/ OwnRun(q) \/ AddPlayTime(q) \/ BeatReadsChild(q) \/ BeatAnswers(q)
  \/ ReadReported(q) \/ SaveResult(q) \/ CreditBonus(q)

Next ==
  \/ \E q \in Requests : \/ \E ids \in Asks : Start(q, ids)
                         \/ \E claim \in Claims : Beat(q, claim)
                         \/ \E report \in Reports : Report(q, report)
                         \/ Handle(q) \/ Fail(q)
  \/ Restart \/ Midnight \/ SaveSettings \/ ValidateList \/ FinishElsewhere

Spec == Init /\ [][Next]_vars

----------------------------------------------------------------------------
(* The type invariant. *)
TypeOK ==
  /\ day \in Days
  /\ account \in [Days -> Accounts]
  /\ results \in [Days -> Counts]
  /\ limit \in LimitRows
  /\ validated \subseteq Lists
  /\ states \in [Words -> Classes]
  /\ runs \subseteq Decks(Words)
  /\ pc \in [Requests -> Steps]
  /\ held \in [Requests -> HeldRecords]
  /\ told \in [Days -> Accounts]
  /\ sent \in 0 .. MaxSent
  /\ faults \in 0 .. MaxFaults
  /\ moves \in 0 .. MaxMoves

(* No acknowledged time is lost: whatever requests interleave, fail or run  *)
(* past midnight, the account of a day holds at least the play and the      *)
(* bonus the server has answered a 200 for on that day.                     *)
AcknowledgedIsCounted ==
  \A d \in Days :
    /\ account[d].seconds >= told[d].seconds
    /\ account[d].bonus >= told[d].bonus

(* No bonus without a dictee: a day's bonus is backed, second by second, by *)
(* results on record for that day, through failures and repeated reports.   *)
BonusIsBacked ==
  \A d \in Days :
    account[d].bonus <= CompletionBonus * results[d].all + WordBonus * results[d].correct

(* The deck of a run keeps its promises on the words as they were read: a   *)
(* week holds each word once and no more than its limit, and a seen word    *)
(* takes a place in it only once every unmet word of the catalogue has one; *)
(* the Garde is gold and has its slots; an older word is brought back only  *)
(* if there is something left to learn in it, and never beside the Garde.   *)
DeckSound(deck, all, known) ==
  LET week == ToSet(deck.week) IN
  /\ Len(deck.week) <= WeekLimit /\ IsInjective(deck.week)
  /\ (\E w \in week : Seen(known[w])) => \A w \in all : ~Seen(known[w]) => w \in week
  /\ Len(deck.garde) <= GardeSlots
  /\ \A w \in ToSet(deck.garde) : Gold(known[w]) /\ w \in all
  /\ \A w \in deck.old :
       /\ Seen(known[w]) /\ ~Gold(known[w]) /\ ~Cursed(known[w])
       /\ w \notin ToSet(deck.garde)

(* The request that opens a run in this step. *)
Opens(q) == pc[q] = "create" /\ pc'[q] = "idle"

DecksSound ==
  [][\A q \in Requests : Opens(q) =>
       \A deck \in runs' \ runs : DeckSound(deck, held[q].all, held[q].states)]_runs

(* A teacher's list is followed: each unmet word of the week is dealt in    *)
(* exactly one of the three manches, once, whatever the ranking does to the *)
(* rest; and no manche goes short while the deck has a word to repeat.      *)
DealtFairly(deck, known) ==
  LET optional == Optional(deck, known) IN
  \A ranked \in Rankings(optional) :
    LET hand == [m \in 0 .. Manches - 1 |-> Draw(deck, known, m, ranked)] IN
    /\ \A w \in ToSet(Unmet(deck, known)) :
         Cardinality({p \in (0 .. Manches - 1) \X (1 .. WordsPerManche) :
                        /\ p[2] \in DOMAIN hand[p[1]]
                        /\ hand[p[1]][p[2]] = w}) = 1
    /\ \A m \in 0 .. Manches - 1 :
         optional # <<>> => Len(hand[m]) = WordsPerManche

EveryUnmetWordIsDealt ==
  [][\A q \in Requests : Opens(q) =>
       \A deck \in runs' \ runs : DealtFairly(deck, held[q].states)]_runs

(* "La limite par jour": a run is opened only on a day whose play, as it    *)
(* was read, is under the minutes the parent had set and the day's bonus.   *)
LimitIsTheParents ==
  [][\A q \in Requests : Opens(q) =>
       held[q].time.seconds < held[q].limit.minutes_per_day + held[q].time.bonus]_runs
=============================================================================
