------------------------------- MODULE Paste -------------------------------
(***************************************************************************)
(* What a parent pastes and what becomes of it: buildItems of               *)
(* server/parent/lists.go with its three ways of cutting a text, and the    *)
(* part of lexique/sentence.go that finds the words a child is asked for.   *)
(*                                                                         *)
(* A text is a sequence of runes: letters, the spaces and commas between    *)
(* words, the ends of sentences, and the asterisks a parent marks a word    *)
(* with, which may fall inside one.  Runes of a word that nothing ever      *)
(* parts may stand as one letter.  What the lexicon says of a text is a     *)
(* parameter: a word on its own is looked at without the words around it,   *)
(* so the agreements of a sentence, and its capitals, are left out.         *)
(***************************************************************************)
EXTENDS Integers, FiniteSets, Sequences, SequencesExt

CONSTANTS
  Letters,    \* letters, and the hyphens and apostrophes inside a word
  Confident,  \* the texts the lexicon is sure of (lexique.UnsureConfidence)
  TrapsOf     \* the traps Analyze counts in a text, for the texts that have some

Space == " "
Comma == ","
Stop  == "."    \* isSentenceEnd
Mark  == "*"    \* targetMark

Runes == Letters \union {Space, Comma, Stop, Mark}

ASSUME PasteAssumption ==
  /\ Confident \subseteq Seq(Runes)
  /\ DOMAIN TrapsOf \subseteq Seq(Runes) /\ TrapsOf \in [DOMAIN TrapsOf -> Nat]
  /\ {Space, Comma, Stop, Mark} \intersect Letters = {}

Kinds == {"word", "sentence", "dictation"}
Spans == [start: Nat, end: Nat]    \* rune offsets, from 0

Whole(text) == [text |-> text, targets |-> <<>>]

Flushed(cut) ==
  IF cut.current = <<>> THEN cut.drafts ELSE Append(cut.drafts, Whole(cut.current))

(* splitWords: one draft per field between commas and spaces.               *)
Field(cut, c) ==
  IF c \in {Comma, Space}
  THEN [drafts |-> Flushed(cut), current |-> <<>>]
  ELSE [cut EXCEPT !.current = Append(@, c)]

CutAtFields(raw) ==
  LET cuts[n \in 0 .. Len(raw)] ==
        IF n = 0 THEN [drafts |-> <<>>, current |-> <<>>] ELSE Field(cuts[n - 1], raw[n])
  IN  cuts[Len(raw)]

SplitWords(raw) == Flushed(CutAtFields(raw))

(* splitDictation: one draft per sentence, a run of stops being one end,    *)
(* and the spaces after it nobody's.                                        *)
Cut(cut, c) ==
  IF cut.ending /\ c = Space
  THEN cut
  ELSE IF cut.ending /\ c # Stop
  THEN [drafts |-> Flushed(cut), current |-> <<c>>, ending |-> FALSE]
  ELSE [cut EXCEPT !.current = Append(@, c), !.ending = (c = Stop)]

CutAtStops(raw) ==
  LET cuts[n \in 0 .. Len(raw)] ==
        IF n = 0 THEN [drafts |-> <<>>, current |-> <<>>, ending |-> FALSE]
        ELSE Cut(cuts[n - 1], raw[n])
  IN  cuts[Len(raw)]

(* What follows the last stop forgotten.                                    *)
SplitDictationUnflushed(raw) == CutAtStops(raw).drafts

SplitDictation(raw) == Flushed(CutAtStops(raw))

(* splitSentenceTarget: the marks out of the text, a span for each pair. A  *)
(* mark left open marks nothing; open is -1 while none is.                  *)
Strip(cut, c) ==
  IF c # Mark
  THEN [cut EXCEPT !.text = Append(@, c)]
  ELSE IF cut.open < 0
  THEN [cut EXCEPT !.open = Len(cut.text)]
  ELSE [cut EXCEPT !.targets = Append(@, [start |-> cut.open, end |-> Len(cut.text)]),
                   !.open = -1]

Stripped(raw) ==
  LET cuts[n \in 0 .. Len(raw)] ==
        IF n = 0 THEN [text |-> <<>>, targets |-> <<>>, open |-> -1]
        ELSE Strip(cuts[n - 1], raw[n])
  IN  cuts[Len(raw)]

SplitSentenceTarget(raw) ==
  [text |-> Stripped(raw).text, targets |-> Stripped(raw).targets]

(* tokenize: the words of a text, by where they are written.                *)
Tokens(text) ==
  {t \in [start: 0 .. Len(text), end: 0 .. Len(text)] :
     /\ t.start < t.end
     /\ \A k \in t.start + 1 .. t.end : text[k] \in Letters
     /\ t.start > 0 => text[t.start] \notin Letters
     /\ t.end < Len(text) => text[t.end + 1] \notin Letters}

Written(text, t) == SubSeq(text, t.start + 1, t.end)

(* The span taken as closed.                                                *)
InSpanClosed(t, span) == t.start <= span.end /\ span.start <= t.end

(* targeted: a word is asked for when it shares a place with a span, or has *)
(* an empty one inside it.                                                  *)
InSpan(t, span) == t.start < span.end /\ span.start < t.end

Targeted(t, targets) ==
  \/ targets = <<>>
  \/ \E n \in DOMAIN targets : InSpan(t, targets[n])

(* The words a child is asked for (AnalyzeSentence).                        *)
Asked(draft) == {t \in Tokens(draft.text) : Targeted(t, draft.targets)}

(* analyseItem: a word's text is analysed as one, whatever it holds.        *)
Graded(kind, draft) ==
  IF kind = "word" THEN {[start |-> 0, end |-> Len(draft.text)]} ELSE Asked(draft)

(* foldAnalyses: the weakest word decides, the traps add up.                *)
IsSure(kind, draft) ==
  \A t \in Graded(kind, draft) : Written(draft.text, t) \in Confident

TrapsIn(text) == IF text \in DOMAIN TrapsOf THEN TrapsOf[text] ELSE 0

TrapsEndingAt(kind, draft, p) ==
  LET ending == {t \in Graded(kind, draft) : t.end = p}
  IN  IF ending = {} THEN 0 ELSE TrapsIn(Written(draft.text, CHOOSE t \in ending : TRUE))

Traps(kind, draft) ==
  LET sum[p \in 0 .. Len(draft.text)] ==
        IF p = 0 THEN 0 ELSE sum[p - 1] + TrapsEndingAt(kind, draft, p)
  IN  sum[Len(draft.text)]

(* buildItems: an empty answer is a paste the page refuses.                 *)
BuildItems(kind, raw) ==
  CASE kind = "word"      -> SplitWords(raw)
    [] kind = "sentence"  -> LET draft == SplitSentenceTarget(raw)
                             IN  IF draft.targets = <<>> THEN <<>> ELSE <<draft>>
    [] kind = "dictation" -> SplitDictation(raw)
=============================================================================
