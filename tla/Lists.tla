------------------------------- MODULE Lists -------------------------------
(***************************************************************************)
(* A child's word lists, their items and the sentences of the items, as     *)
(* the parent's pages (server/parent/week.go) and the parent's routes of    *)
(* the API (server/api/quickword.go, sentence.go, media.go) write them.     *)
(*                                                                         *)
(* A handler reads a row, works on its copy and saves the whole row, so     *)
(* between the read and the save other requests of the same parent run: a   *)
(* second tab, a second device, or a recording that is slow to transcode.   *)
(* Each statement is a step.  Rows are never deleted: DeleteList and        *)
(* DeleteSentence have no caller.  An id only names its row: the code draws *)
(* them at random, so nothing here may depend on their order.  Due dates,   *)
(* families and the paths of recordings are left out: the whole-row saves   *)
(* that carry them are not.                                                 *)
(***************************************************************************)
EXTENDS Paste

CONSTANTS
  Requests,      \* requests that may be in progress at once
  Pastes,        \* what a parent may paste: a kind, a text and the list's label
  Typed,         \* what a parent may type in place of a word
  Labels,        \* the labels of lists
  MesMots,       \* quickWordLabel, the label of the list of quick words
  Phrases,       \* the sentences the model or the parent may write
  Whitelist,     \* the words of the CE1 list (server/gen/whitelist.go)
  MaxSentenceWords,
  \* Bounds of the state space.
  MaxSent,       \* requests sent in all
  MaxLists,      \* lists when the last one is pasted, and that one
  MaxFaults      \* statements, model calls and transcodings that fail

ASSUME ListsAssumption ==
  /\ Pastes \subseteq [kind: Kinds, raw: Seq(Runes), label: Labels]
  /\ Typed \subseteq Seq(Runes)
  /\ \A raw \in Typed \union {paste.raw : paste \in Pastes} :    \* strings.TrimSpace
       raw # <<>> /\ raw[1] # Space /\ raw[Len(raw)] # Space
  /\ MesMots \in Labels
  /\ Phrases \subseteq [words: Seq(Seq(Letters)), target: Seq(Letters)]
  /\ IsFiniteSet(Phrases)
  /\ Whitelist \subseteq Seq(Letters)
  /\ {MaxSentenceWords, MaxSent, MaxLists, MaxFaults} \subseteq Nat

VARIABLES
  lists,      \* the word_lists rows
  items,      \* the items rows
  sentences,  \* the sentences rows
  pc,         \* where each request stands
  held,       \* what each request holds
  sent, faults,
  \* What the parent did, for the properties.
  pasted,     \* pasted[l]: what list l was made of, and whether it was answered
  born,       \* born[i]: the draft item i was first saved with, and by which button
  reviewed,   \* <<i, text>>: text was in item i when a confirmation read it
  approvals   \* <<s, words>>: words were in sentence s when it was approved

rows  == <<lists, items, sentences>>
deeds == <<pasted, born, reviewed, approvals>>
vars  == <<rows, pc, held, sent, faults, deeds>>

----------------------------------------------------------------------------
ListRows     == [label: Labels, api: BOOLEAN, validated: BOOLEAN]
ItemRows     == [list: Nat, kind: Kinds, text: Seq(Runes), targets: Seq(Spans),
                 traps: Nat, sure: BOOLEAN, confirmed: BOOLEAN]
SentenceRows == [item: Nat, words: Seq(Seq(Letters)), approved: BOOLEAN]

Steps == {"idle", "saveItems", "patch", "confirm", "colour", "itemAudio", "validate",
          "createQuick", "createApi", "saveQuick", "saveQuickApi", "saveGenerated",
          "regenerate", "approve", "sentenceAudio"}

NoRow   == <<>>
Nothing == [id |-> 0, row |-> NoRow, left |-> <<>>, seen |-> {}]

(* analyseItem. *)
Analysed(l, kind, draft) ==
  [list |-> l, kind |-> kind, text |-> draft.text, targets |-> draft.targets,
   traps |-> Traps(kind, draft), sure |-> IsSure(kind, draft), confirmed |-> FALSE]

(* itemUnsure. *)
Unsure(row) == ~row.sure /\ ~row.confirmed

ItemsOfList(l) == {i \in DOMAIN items : items[i].list = l}

(* gen.Filter: no sentence too long, and no word of it unknown to the class *)
(* but the one it teaches.                                                  *)
Filter(p) ==
  /\ Len(p.words) <= MaxSentenceWords
  /\ \A n \in DOMAIN p.words : p.words[n] \in Whitelist \union {p.target}

(* GenerateSentences keeps what Filter accepts of the model's answer.       *)
Accepted == {p \in Phrases : Filter(p)}

Init ==
  /\ lists = <<>> /\ items = <<>> /\ sentences = <<>>
  /\ pc = [r \in Requests |-> "idle"]
  /\ held = [r \in Requests |-> Nothing]
  /\ sent = 0
  /\ faults = 0
  /\ pasted = <<>> /\ born = <<>> /\ reviewed = {} /\ approvals = {}

----------------------------------------------------------------------------
(* The handlers' coming and going.                                          *)
Arrives(r) == pc[r] = "idle" /\ sent < MaxSent /\ sent' = sent + 1 /\ UNCHANGED faults

At(r, step) == pc[r] = step /\ UNCHANGED <<sent, faults>>

GoesOn(r, step, hold) ==
  /\ pc' = [pc EXCEPT ![r] = step]
  /\ held' = [held EXCEPT ![r] = hold]

Ends(r) == GoesOn(r, "idle", Nothing)

Stays(r) == UNCHANGED <<pc, held>>

SaveItem(i, row) == items' = [items EXCEPT ![i] = row] /\ UNCHANGED <<lists, sentences>>

SaveSentence(s, row) == sentences' = [sentences EXCEPT ![s] = row] /\ UNCHANGED <<lists, items>>

(* A statement fails, the model or ffmpeg is not to be had, or the server   *)
(* restarts: what the handler has saved so far stays.                       *)
Fail(r) ==
  /\ pc[r] # "idle"
  /\ faults < MaxFaults
  /\ faults' = faults + 1
  /\ Ends(r)
  /\ UNCHANGED <<rows, sent, deeds>>

----------------------------------------------------------------------------
(* handleListsPost: the list, then its items one by one.                    *)
PasteList(r) ==
  /\ Arrives(r)
  /\ Len(lists) < MaxLists
  /\ \E paste \in Pastes :
       LET drafts == BuildItems(paste.kind, paste.raw)
       IN  /\ drafts # <<>>
           /\ lists' = Append(lists, [label |-> paste.label, api |-> FALSE, validated |-> FALSE])
           /\ pasted' = Append(pasted, [paste |-> paste, told |-> FALSE])
           /\ GoesOn(r, "saveItems", [Nothing EXCEPT !.id = Len(lists) + 1, !.left = drafts])
  /\ UNCHANGED <<items, sentences, born, reviewed, approvals>>

SaveNextItem(r) ==
  LET l == held[r].id  draft == Head(held[r].left)
  IN  /\ At(r, "saveItems")
      /\ items' = Append(items, Analysed(l, pasted[l].paste.kind, draft))
      /\ born' = Append(born, [list |-> l, draft |-> draft, quick |-> FALSE])
      /\ IF Len(held[r].left) > 1
         THEN /\ GoesOn(r, "saveItems", [held[r] EXCEPT !.left = Tail(@)])
              /\ UNCHANGED pasted
         ELSE /\ Ends(r)
              /\ pasted' = [pasted EXCEPT ![l].told = TRUE]
      /\ UNCHANGED <<lists, sentences, reviewed, approvals>>

(* itemOwnedBySession, and ownItem of the API: the row as it stands.        *)
OpenItem(r) ==
  /\ Arrives(r)
  /\ \E i \in DOMAIN items, step \in {"patch", "confirm", "colour", "itemAudio"} :
       GoesOn(r, step, [Nothing EXCEPT !.id = i, !.row = items[i]])
  /\ UNCHANGED <<rows, deeds>>

(* handleItemPatch: only a word's text can be edited, to any text.  Any     *)
(* other form saves the row as it was read.                                 *)
Patched(row, text) == Analysed(row.list, row.kind, Whole(text))

PatchItem(r) ==
  LET row == held[r].row
  IN  /\ At(r, "patch")
      /\ \/ /\ row.kind = "word"
            /\ \E text \in Typed : SaveItem(held[r].id, Patched(row, text))
         \/ SaveItem(held[r].id, row)
      /\ Ends(r)
      /\ UNCHANGED deeds

(* The confirmation as an UPDATE of its own column.                         *)
ConfirmItemInPlace(r) ==
  LET i == held[r].id
  IN  /\ At(r, "confirm")
      /\ SaveItem(i, [items[i] EXCEPT !.confirmed = TRUE])
      /\ reviewed' = reviewed \union {<<i, held[r].row.text>>}
      /\ Ends(r)
      /\ UNCHANGED <<pasted, born, approvals>>

(* handleItemConfirmPost. *)
ConfirmItem(r) ==
  LET i == held[r].id  row == held[r].row
  IN  /\ At(r, "confirm")
      /\ SaveItem(i, [row EXCEPT !.confirmed = TRUE])
      /\ reviewed' = reviewed \union {<<i, row.text>>}
      /\ Ends(r)
      /\ UNCHANGED <<pasted, born, approvals>>

(* The trap count as an UPDATE of its own column, and a count with no floor. *)
RemoveColourInPlace(r) ==
  LET i == held[r].id  row == held[r].row
  IN  /\ At(r, "colour")
      /\ \/ row.traps > 0 /\ SaveItem(i, [items[i] EXCEPT !.traps = row.traps - 1])
         \/ UNCHANGED rows
      /\ Ends(r)
      /\ UNCHANGED deeds

RemoveColourUnguarded(r) ==
  /\ At(r, "colour")
  /\ SaveItem(held[r].id, [held[r].row EXCEPT !.traps = @ - 1]) \/ UNCHANGED rows
  /\ Ends(r)
  /\ UNCHANGED deeds

(* handleItemColorRemovePost: nothing is saved when there is no trap left,  *)
(* or none of the Couleur that was tapped.                                  *)
RemoveColour(r) ==
  LET row == held[r].row
  IN  /\ At(r, "colour")
      /\ \/ row.traps > 0 /\ SaveItem(held[r].id, [row EXCEPT !.traps = @ - 1])
         \/ UNCHANGED rows
      /\ Ends(r)
      /\ UNCHANGED deeds

(* handleItemAudioPost and handleUploadItemAudio: the recording is written  *)
(* or transcoded after the row was read, and the row is saved with its path. *)
SaveItemAudio(r) ==
  /\ At(r, "itemAudio")
  /\ SaveItem(held[r].id, held[r].row)
  /\ Ends(r)
  /\ UNCHANGED deeds

----------------------------------------------------------------------------
(* No item is looked at.                                                    *)
ReadItemsUnchecked(r) ==
  /\ Arrives(r)
  /\ \E l \in DOMAIN lists :
       GoesOn(r, "validate",
         [Nothing EXCEPT !.id = l, !.seen = {<<i, items[i]>> : i \in ItemsOfList(l)}])
  /\ UNCHANGED <<rows, deeds>>

(* handleListValidatePost: the items are read, and any that is unsure turns *)
(* the request away; the list is marked by a statement of its own.          *)
ReadItems(r) ==
  /\ Arrives(r)
  /\ \E l \in DOMAIN lists :
       IF \E i \in ItemsOfList(l) : Unsure(items[i])
       THEN Stays(r)
       ELSE GoesOn(r, "validate",
              [Nothing EXCEPT !.id = l, !.seen = {<<i, items[i]>> : i \in ItemsOfList(l)}])
  /\ UNCHANGED <<rows, deeds>>

ValidateList(r) ==
  /\ At(r, "validate")
  /\ lists' = [lists EXCEPT ![held[r].id].validated = TRUE]
  /\ Ends(r)
  /\ UNCHANGED <<items, sentences, deeds>>

----------------------------------------------------------------------------
(* The two "ajouter ce mot" buttons.  quickWordList of the page takes the   *)
(* newest list of that label; mesMotsList of the API a list of its own id,  *)
(* which only one request can create.                                       *)
Labelled == {l \in DOMAIN lists : lists[l].label = MesMots}

QuickWordList(r) ==
  /\ Arrives(r)
  /\ IF Labelled # {}
     THEN GoesOn(r, "saveQuick",
            [Nothing EXCEPT !.id = CHOOSE l \in Labelled : \A k \in Labelled : k <= l])
     ELSE GoesOn(r, "createQuick", Nothing)
  /\ UNCHANGED <<rows, deeds>>

ApiList == {l \in DOMAIN lists : lists[l].api}

MesMotsList(r) ==
  /\ Arrives(r)
  /\ IF ApiList # {}
     THEN GoesOn(r, "saveQuickApi", [Nothing EXCEPT !.id = CHOOSE l \in ApiList : TRUE])
     ELSE GoesOn(r, "createApi", Nothing)
  /\ UNCHANGED <<rows, deeds>>

CreateQuickList(r) ==
  \E api \in BOOLEAN :
    /\ At(r, IF api THEN "createApi" ELSE "createQuick")
    /\ IF api /\ ApiList # {}
       THEN Ends(r) /\ UNCHANGED <<lists, pasted>>
       ELSE /\ lists' = Append(lists, [label |-> MesMots, api |-> api, validated |-> TRUE])
            /\ pasted' = Append(pasted, [told |-> FALSE])
            /\ GoesOn(r, IF api THEN "saveQuickApi" ELSE "saveQuick",
                 [Nothing EXCEPT !.id = Len(lists) + 1])
    /\ UNCHANGED <<items, sentences, born, reviewed, approvals>>

(* handleQuickWord and handleQuickWordPost: what the parent typed counts as *)
(* confirmed.  The API keeps the text whole; the page cuts it as a list of  *)
(* words and keeps the first one only, or none.                             *)
QuickDrafts(step, text) ==
  IF step = "saveQuickApi" THEN <<Whole(text)>> ELSE SplitWords(text)

SaveQuick(l, draft) ==
  /\ items' = Append(items, [Analysed(l, "word", draft) EXCEPT !.confirmed = TRUE])
  /\ born' = Append(born, [list |-> l, draft |-> draft, quick |-> TRUE])
  /\ reviewed' = reviewed \union {<<Len(items) + 1, draft.text>>}

SaveQuickWord(r) ==
  \E step \in {"saveQuick", "saveQuickApi"}, text \in Typed :
    LET drafts == QuickDrafts(step, text)
    IN  /\ At(r, step)
        /\ IF drafts = <<>>
           THEN UNCHANGED <<items, born, reviewed>>
           ELSE SaveQuick(held[r].id, Head(drafts))
        /\ Ends(r)
        /\ UNCHANGED <<lists, sentences, pasted, approvals>>

----------------------------------------------------------------------------
(* handleGenerateSentences: the model is asked once the item is read, and   *)
(* saveGenerated saves what Filter left of its answer, one by one.          *)
Generate(r) ==
  /\ Arrives(r)
  /\ \E i \in DOMAIN items, kept \in SUBSET Accepted :
       IF kept = {}
       THEN Stays(r)
       ELSE GoesOn(r, "saveGenerated", [Nothing EXCEPT !.id = i, !.left = SetToSeq(kept)])
  /\ UNCHANGED <<rows, deeds>>

SaveGenerated(r) ==
  /\ At(r, "saveGenerated")
  /\ sentences' = Append(sentences, [item |-> held[r].id, approved |-> FALSE,
                                     words |-> Head(held[r].left).words])
  /\ IF Len(held[r].left) > 1
     THEN GoesOn(r, "saveGenerated", [held[r] EXCEPT !.left = Tail(@)])
     ELSE Ends(r)
  /\ UNCHANGED <<lists, items, deeds>>

(* handleManualSentence: approved as it is typed, and not filtered.         *)
ManualSentence(r) ==
  /\ Arrives(r)
  /\ \E i \in DOMAIN items, p \in Phrases :
       /\ sentences' = Append(sentences, [item |-> i, words |-> p.words, approved |-> TRUE])
       /\ approvals' = approvals \union {<<Len(sentences) + 1, p.words>>}
  /\ Stays(r)
  /\ UNCHANGED <<lists, items, pasted, born, reviewed>>

(* ownSentence: the row as it stands.                                       *)
OpenSentence(r) ==
  /\ Arrives(r)
  /\ \E s \in DOMAIN sentences, step \in {"regenerate", "approve", "sentenceAudio"} :
       GoesOn(r, step, [Nothing EXCEPT !.id = s, !.row = sentences[s]])
  /\ UNCHANGED <<rows, deeds>>

(* handleRegenerateSentence: the new text goes unapproved under the old id. *)
Regenerated(row, p) == [row EXCEPT !.words = p.words, !.approved = FALSE]

RegenerateSentence(r) ==
  /\ At(r, "regenerate")
  /\ \E p \in Accepted : SaveSentence(held[r].id, Regenerated(held[r].row, p))
  /\ Ends(r)
  /\ UNCHANGED deeds

(* handleApproveSentence: an UPDATE of one column, whatever the text is by  *)
(* then.                                                                    *)
ApproveSentence(r) ==
  LET s == held[r].id
  IN  /\ At(r, "approve")
      /\ SaveSentence(s, [sentences[s] EXCEPT !.approved = TRUE])
      /\ approvals' = approvals \union {<<s, sentences[s].words>>}
      /\ Ends(r)
      /\ UNCHANGED <<pasted, born, reviewed>>

(* The recording saved over the text and approval of other moments.         *)
SaveSentenceAudioMixed(r) ==
  LET s == held[r].id
  IN  /\ At(r, "sentenceAudio")
      /\ SaveSentence(s, [held[r].row EXCEPT !.words = sentences[s].words])
      /\ Ends(r)
      /\ UNCHANGED deeds

(* handleUploadSentenceAudio. *)
SaveSentenceAudio(r) ==
  /\ At(r, "sentenceAudio")
  /\ SaveSentence(held[r].id, held[r].row)
  /\ Ends(r)
  /\ UNCHANGED deeds

----------------------------------------------------------------------------
Next ==
  \E r \in Requests :
    \/ PasteList(r) \/ SaveNextItem(r)
    \/ OpenItem(r) \/ PatchItem(r) \/ ConfirmItem(r) \/ RemoveColour(r) \/ SaveItemAudio(r)
    \/ ReadItems(r) \/ ValidateList(r)
    \/ QuickWordList(r) \/ MesMotsList(r) \/ CreateQuickList(r) \/ SaveQuickWord(r)
    \/ Generate(r) \/ SaveGenerated(r) \/ ManualSentence(r)
    \/ OpenSentence(r) \/ RegenerateSentence(r) \/ ApproveSentence(r) \/ SaveSentenceAudio(r)
    \/ Fail(r)

Spec == Init /\ [][Next]_vars

----------------------------------------------------------------------------
(* Every row is well typed and refers to one that exists.                   *)
TypeOK ==
  /\ lists \in Seq(ListRows)
  /\ items \in Seq(ItemRows)
  /\ \A i \in DOMAIN items : items[i].list \in DOMAIN lists
  /\ sentences \in Seq(SentenceRows)
  /\ \A s \in DOMAIN sentences : sentences[s].item \in DOMAIN items
  /\ pc \in [Requests -> Steps]
  /\ DOMAIN pasted = DOMAIN lists
  /\ DOMAIN born = DOMAIN items
  /\ sent \in 0 .. MaxSent
  /\ faults \in 0 .. MaxFaults

(* An item that counts as confirmed holds a text that was in it when a      *)
(* confirmation read it: no edit, colour, recording or second confirmation  *)
(* under way at the same time lends a confirmation to another text.         *)
ConfirmedWasRead ==
  \A i \in DOMAIN items : items[i].confirmed => <<i, items[i].text>> \in reviewed

(* The analysis in a row, which decides whether the parent is asked to look *)
(* at it and what it is worth, is that of the text in the same row, less    *)
(* the traps the parent took away.                                          *)
AnalysisIsOfItsText ==
  \A i \in DOMAIN items :
    LET draft == [text |-> items[i].text, targets |-> items[i].targets]
        kind  == items[i].kind
    IN  items[i].sure = IsSure(kind, draft) /\ items[i].traps <= Traps(kind, draft)

(* A sentence a child may be given was approved with the text it holds, or  *)
(* typed by the parent, whatever was regenerated or recorded meanwhile.     *)
ApprovedTextWasApproved ==
  \A s \in DOMAIN sentences :
    sentences[s].approved => <<s, sentences[s].words>> \in approvals

(* A list the parent was sent on to holds every word of the paste, as many  *)
(* times as it was pasted, and no other, however its items were cut and     *)
(* saved.  In no order: the pages sort a list by its random ids.  A mark    *)
(* parts no word; any other rune that is no letter does.                    *)
Finished(cut) == IF cut.word = <<>> THEN cut.words ELSE Append(cut.words, cut.word)

Spell(cut, c) ==
  IF c \in Letters THEN [cut EXCEPT !.word = Append(@, c)]
  ELSE IF c = Mark THEN cut
  ELSE [words |-> Finished(cut), word |-> <<>>]

SpelledOut(text) ==
  LET cuts[n \in 0 .. Len(text)] ==
        IF n = 0 THEN [words |-> <<>>, word |-> <<>>] ELSE Spell(cuts[n - 1], text[n])
  IN  cuts[Len(text)]

WordsIn(text) == Finished(SpelledOut(text))

WordsSaved(l) ==
  FlattenSeq([i \in DOMAIN born |->
    IF born[i].list = l /\ ~born[i].quick THEN WordsIn(born[i].draft.text) ELSE <<>>])

Copies(w, words) == Cardinality({n \in DOMAIN words : words[n] = w})

SameWords(words, others) ==
  \A w \in ToSet(words) \union ToSet(others) : Copies(w, words) = Copies(w, others)

PasteIsWhole ==
  \A l \in DOMAIN pasted :
    pasted[l].told => SameWords(WordsIn(pasted[l].paste.raw), WordsSaved(l))

(* In a sentence pasted with marks, the child is asked for the words a pair *)
(* of asterisks reaches, and no others: those of which some letter comes    *)
(* after the first asterisk and some letter before the second.              *)
MarksBefore(raw, k) == Cardinality({j \in 1 .. k - 1 : raw[j] = Mark})

Pairs(raw) ==
  {p \in (DOMAIN raw) \X (DOMAIN raw) :
     /\ p[1] < p[2] /\ raw[p[1]] = Mark /\ raw[p[2]] = Mark
     /\ MarksBefore(raw, p[1]) % 2 = 0
     /\ MarksBefore(raw, p[2]) = MarksBefore(raw, p[1]) + 1}

LettersOf(raw, t) ==
  {k \in DOMAIN raw : raw[k] # Mark /\ k - MarksBefore(raw, k) \in t.start + 1 .. t.end}

Reached(raw, t) ==
  \E p \in Pairs(raw), a, b \in LettersOf(raw, t) : p[1] < b /\ a < p[2]

MarkedIsAsked ==
  \A i \in DOMAIN born :
    LET l == born[i].list  draft == born[i].draft  raw == pasted[l].paste.raw
    IN  (~born[i].quick /\ pasted[l].told /\ pasted[l].paste.kind = "sentence")
          => Asked(draft) = {t \in Tokens(draft.text) : Reached(raw, t)}

(* A list is unlocked for play by a request that looked at its items: one   *)
(* that is still to be checked was changed, or added, after that look.      *)
UnlockedAfterALook ==
  \A l \in DOMAIN lists :
    ~lists[l].validated /\ lists'[l].validated =>
      \E r \in Requests :
        /\ pc[r] = "validate" /\ held[r].id = l
        /\ \A i \in ItemsOfList(l) : Unsure(items[i]) => <<i, items[i]>> \notin held[r].seen

ValidationLooked == [][UnlockedAfterALook]_vars

----------------------------------------------------------------------------
(* Not kept by the code; README.md says what TLC shows of each.              *)

(* A list that is unlocked for play holds nothing still to be checked        *)
(* (store.Item.Confirmed): an edit after the validation leaves it unlocked.  *)
ValidatedIsReviewed ==
  \A i \in DOMAIN items : Unsure(items[i]) => ~lists[items[i].list].validated

(* A list that is unlocked for play holds all that was pasted.               *)
ValidatedIsWhole ==
  \A l \in DOMAIN lists :
    lists[l].validated /\ "paste" \in DOMAIN pasted[l] =>
      SameWords(WordsIn(pasted[l].paste.raw), WordsSaved(l))

(* A word added by "ajouter ce mot" can be played at once.                   *)
QuickWordIsPlayable ==
  \A i \in DOMAIN born : born[i].quick => lists[items[i].list].validated

(* An approval is of the text its handler read.                              *)
ApprovedIsWhatWasRead ==
  [][\A r \in Requests :
       ApproveSentence(r) => sentences[held[r].id].words = held[r].row.words]_vars

(* A child is asked for no letter the parent did not mark: a mark inside a   *)
(* word asks for the whole of it.                                            *)
AskedWasMarked ==
  \A i \in DOMAIN born :
    LET l == born[i].list  raw == pasted[l].paste.raw
    IN  (~born[i].quick /\ pasted[l].told /\ pasted[l].paste.kind = "sentence") =>
          \A t \in Asked(born[i].draft), k \in DOMAIN raw :
            k \in LettersOf(raw, t) => \E p \in Pairs(raw) : p[1] < k /\ k < p[2]

(* A sentence pasted with a mark asks for a word.                            *)
SomethingIsAsked == \A i \in DOMAIN born : Asked(born[i].draft) # {}
=============================================================================
