-------------------------- MODULE RunFinish_proofs --------------------------
(***************************************************************************)
(* Proofs about RunFinish: for any number of runs, of requests at once, of *)
(* words and of faults, a finish sent any number of times is written into  *)
(* each row at most once.  Delivery_proofs has it for the requests of the  *)
(* client of Outbox too.                                                   *)
(***************************************************************************)
EXTENDS RunFinish, TLAPS

LEMMA PlusType ==
  ASSUME NEW counts \in Counts, NEW r \in Runs
  PROVE  /\ Plus(counts, r) \in Counts
         /\ Plus(counts, r)[r] = counts[r] + 1
         /\ \A s \in Runs : s # r => Plus(counts, r)[s] = counts[s]
BY DEF Plus, Counts

LEMMA ZeroTypes ==
  /\ Never \in Counts /\ EmptyRow \in ChildRows /\ NoWords \in [Words -> Counts]
  /\ \A r \in Runs : /\ Never[r] = 0 /\ EmptyRow.runs[r] = 0
                     /\ \A w \in Words : NoWords[w][r] = 0
BY DEF Never, EmptyRow, NoWords, ChildRows, Counts

(* What SaveWordStates writes: for the run's own words one more of the run, *)
(* otherwise a state that was read or is still in the row.                  *)
LEMMA UpsertedType ==
  ASSUME NEW states \in [Words -> Counts], NEW r \in Runs, words \in [Words -> Counts]
  PROVE  /\ Upserted(states, r) \in [Words -> Counts]
         /\ \A w \in Words, s \in Runs :
              \/ Upserted(states, r)[w][s] = words[w][s]
              \/ Upserted(states, r)[w][s] = states[w][s]
              \/ s = r /\ Upserted(states, r)[w][s] = states[w][s] + 1
<1> DEFINE up == Upserted(states, r)
<1>1. ASSUME NEW w \in Words
      PROVE  /\ up[w] \in Counts
             /\ \A s \in Runs : \/ up[w][s] = words[w][s]
                                \/ up[w][s] = states[w][s]
                                \/ s = r /\ up[w][s] = states[w][s] + 1
  <2>1. up[w] = words[w] \/ up[w] = states[w] \/ up[w] = Plus(states[w], r)
    BY DEF Upserted, Recorded
  <2>2. states[w] \in Counts /\ words[w] \in Counts
    OBVIOUS
  <2> QED BY <2>1, <2>2, PlusType
<1>2. up = [w \in Words |-> up[w]]
  BY DEF Upserted
<1> QED BY <1>1, <1>2

----------------------------------------------------------------------------
(* Type correctness. *)
RowsOK     == applied \in [Runs -> BOOLEAN] /\ child \in ChildRows /\ words \in [Words -> Counts]
RequestsOK == /\ pc \in [Requests -> Steps]
              /\ run \in [Requests -> Runs \cup {None}]
              /\ \A q \in Requests : pc[q] # "idle" => run[q] \in Runs
              /\ code \in [Requests -> Codes]
CopiesOK   == /\ childCopy \in [Requests -> ChildRows]
              /\ wordsCopy \in [Requests -> [Words -> Counts]]
SettingsOK == settings \in [pc: {"idle", "read"}, row: ChildRows]

LEMMA TypeParts ==
  TypeOK <=> RowsOK /\ RequestsOK /\ CopiesOK /\ SettingsOK /\ faults \in 0 .. MaxFaults
BY DEF TypeOK, RowsOK, RequestsOK, CopiesOK, SettingsOK

LEMMA AnswersType ==
  ASSUME NEW q \in Requests, NEW status \in Codes, RequestsOK, CopiesOK, pc[q] # "idle", Answers(q, status)
  PROVE  RequestsOK' /\ CopiesOK'
<1>1. "answer" \in Steps
  BY DEF Steps
<1> QED BY <1>1, ZeroTypes DEF RequestsOK, CopiesOK, Answers

LEMMA GoesToType ==
  ASSUME NEW q \in Requests, NEW step \in Steps, RequestsOK, pc[q] # "idle", GoesTo(q, step)
  PROVE  RequestsOK'
BY DEF RequestsOK, GoesTo

THEOREM TypeCorrect == Spec => []TypeOK
<1>1. Init => TypeOK
  BY ZeroTypes, RunFinishAssumption DEF Init, TypeOK, Steps, Codes
<1>2. TypeOK /\ [Next]_vars => TypeOK'
  <2> SUFFICES ASSUME TypeOK, [Next]_vars
               PROVE  TypeOK'
    OBVIOUS
  <2>t. RowsOK /\ RequestsOK /\ CopiesOK /\ SettingsOK /\ faults \in 0 .. MaxFaults
    BY TypeParts
  <2>c. {"400", "401", "409", "500", "200", "dropped"} \subseteq Codes
    BY DEF Codes
  <2>s. {"idle", "arrived", "readChild", "readWords", "mark", "saveChild", "saveWords"} \subseteq Steps
    BY DEF Steps
  <2>g. ASSUME RowsOK', RequestsOK', CopiesOK', SettingsOK', faults' \in 0 .. MaxFaults
        PROVE  TypeOK'
    BY <2>g DEF TypeOK, RowsOK, RequestsOK, CopiesOK, SettingsOK
  <2>1. ASSUME NEW q \in Requests, NEW r \in Runs, Arrive(q, r)
        PROVE  TypeOK'
    BY <2>1, <2>t, <2>s, <2>g DEF Arrive, RowsOK, RequestsOK, CopiesOK, SettingsOK, rows
  <2>2. ASSUME NEW q \in Requests, Admit(q)
        PROVE  TypeOK'
    <3>1. RequestsOK'
      BY <2>2, <2>t, <2>s, GoesToType DEF Admit
    <3> QED BY <2>2, <3>1, <2>t, <2>g DEF Admit, RowsOK, CopiesOK, SettingsOK, rows
  <2>3. ASSUME NEW q \in Requests, ReadChild(q)
        PROVE  TypeOK'
    <3>1. RequestsOK'
      BY <2>3, <2>t, <2>s, GoesToType DEF ReadChild
    <3> QED BY <2>3, <3>1, <2>t, <2>g DEF ReadChild, RowsOK, CopiesOK, SettingsOK, rows
  <2>4. ASSUME NEW q \in Requests, ReadWords(q)
        PROVE  TypeOK'
    <3>0. pc[q] # "idle" /\ RowsOK' /\ SettingsOK' /\ faults' = faults
      BY <2>4, <2>t DEF ReadWords, RowsOK, SettingsOK, rows
    <3>1. CASE Answers(q, "400")
      BY <3>0, <3>1, <2>t, <2>c, <2>g, AnswersType
    <3>2. CASE GoesTo(q, "mark") /\ wordsCopy' = [wordsCopy EXCEPT ![q] = words] /\ UNCHANGED childCopy
      <4>1. RequestsOK'
        BY <3>0, <3>2, <2>t, <2>s, GoesToType
      <4>2. CopiesOK'
        BY <3>2, <2>t DEF CopiesOK, RowsOK
      <4> QED BY <3>0, <4>1, <4>2, <2>t, <2>g
    <3> QED BY <2>4, <3>1, <3>2 DEF ReadWords
  <2>5. ASSUME NEW q \in Requests, MarkApplied(q)
        PROVE  TypeOK'
    <3>1. pc[q] # "idle" /\ RowsOK' /\ SettingsOK' /\ faults' = faults
      BY <2>5, <2>t DEF MarkApplied, RowsOK, SettingsOK
    <3>2. CASE Answers(q, "409")
      BY <3>1, <3>2, <2>t, <2>c, <2>g, AnswersType
    <3>3. CASE GoesTo(q, "saveChild") /\ UNCHANGED <<childCopy, wordsCopy>>
      BY <3>1, <3>3, <2>t, <2>s, <2>g, GoesToType DEF CopiesOK
    <3> QED BY <2>5, <3>2, <3>3 DEF MarkApplied
  <2>6. ASSUME NEW q \in Requests, SaveChild(q)
        PROVE  TypeOK'
    <3>1. pc[q] # "idle" /\ SettingsOK' /\ faults' = faults /\ applied' = applied /\ words' = words
      BY <2>6, <2>t DEF SaveChild, SettingsOK
    <3>2. ASSUME NEW status \in {"dropped", "500"}, Answers(q, status), UNCHANGED child
          PROVE  TypeOK'
      <4>1. status \in Codes
        BY <3>2 DEF Codes
      <4> QED BY <3>1, <3>2, <4>1, <2>t, <2>c, <2>g, AnswersType DEF RowsOK
    <3>3. CASE /\ GoesTo(q, "saveWords") /\ UNCHANGED <<childCopy, wordsCopy>>
               /\ child' = [childCopy[q] EXCEPT !.runs = Plus(@, run[q])]
               /\ run[q] \in Runs
      <4>1. child' \in ChildRows
        BY <3>3, <2>t, PlusType DEF CopiesOK, ChildRows
      <4> QED BY <3>1, <3>3, <4>1, <2>t, <2>s, <2>g, GoesToType DEF RowsOK, CopiesOK
    <3>4. run[q] \in Runs
      BY <2>6, <2>t DEF SaveChild, RequestsOK
    <3> QED BY <2>6, <3>2, <3>3, <3>4 DEF SaveChild
  <2>7. ASSUME NEW q \in Requests, SaveWords(q)
        PROVE  TypeOK'
    <3>1. run[q] \in Runs /\ wordsCopy[q] \in [Words -> Counts]
      BY <2>7, <2>t DEF SaveWords, RequestsOK, CopiesOK
    <3>2. words' \in [Words -> Counts]
      BY <2>7, <2>t, <3>1, UpsertedType DEF SaveWords, RowsOK
    <3>3. pc[q] # "idle" /\ RowsOK' /\ SettingsOK' /\ faults' = faults
      BY <2>7, <2>t, <3>2 DEF SaveWords, RowsOK, SettingsOK
    <3> QED BY <2>7, <3>3, <2>t, <2>c, <2>g, AnswersType DEF SaveWords
  <2>8. ASSUME NEW q \in Requests, Refuse(q) \/ Fail(q)
        PROVE  TypeOK'
    <3>1. faults' \in 0 .. MaxFaults /\ RowsOK' /\ SettingsOK'
      BY <2>8, <2>t, RunFinishAssumption DEF Refuse, Fail, RowsOK, SettingsOK, rows
    <3>2. pc[q] # "idle" /\ (Answers(q, "401") \/ Answers(q, "500"))
      BY <2>8 DEF Refuse, Fail
    <3> QED BY <3>1, <3>2, <2>t, <2>c, <2>g, AnswersType
  <2>9. ASSUME NEW q \in Requests, Leave(q)
        PROVE  TypeOK'
    <3>1. RequestsOK'
      BY <2>9, <2>t, <2>s DEF Leave, RequestsOK, Codes
    <3> QED BY <2>9, <3>1, <2>t, <2>g DEF Leave, RowsOK, CopiesOK, SettingsOK, rows
  <2>10. CASE Restart
    <3>1. faults' \in 0 .. MaxFaults /\ RowsOK'
      BY <2>10, <2>t, RunFinishAssumption DEF Restart, RowsOK, rows
    <3>2. RequestsOK'
      BY <2>10, <2>s DEF Restart, RequestsOK, Codes
    <3>3. CopiesOK' /\ SettingsOK'
      BY <2>10, ZeroTypes DEF Restart, CopiesOK, SettingsOK
    <3> QED BY <3>1, <3>2, <3>3, <2>g
  <2>11. CASE OpenSettings
    BY <2>11, <2>t, <2>g DEF OpenSettings, RowsOK, RequestsOK, CopiesOK, SettingsOK, rows, requests
  <2>12. CASE SaveSettings
    <3>1. child' \in ChildRows /\ SettingsOK'
      BY <2>12, <2>t, ZeroTypes DEF SaveSettings, SettingsOK, ChildRows
    <3> QED BY <2>12, <3>1, <2>t, <2>g DEF SaveSettings, RowsOK, RequestsOK, CopiesOK, requests
  <2>13. CASE UNCHANGED vars
    BY <2>13, <2>t, <2>g DEF vars, rows, requests, RowsOK, RequestsOK, CopiesOK, SettingsOK
  <2> QED
    BY <2>1, <2>2, <2>3, <2>4, <2>5, <2>6, <2>7, <2>8, <2>9, <2>10, <2>11, <2>12, <2>13
       DEF Next, Handle
<1> QED BY <1>1, <1>2, PTL DEF Spec

----------------------------------------------------------------------------
(* At most once.  A run nobody has been granted is nowhere: not in a row,   *)
(* not in a copy some request or the settings page still holds, for a copy  *)
(* is a row that may yet be written.  A run that was granted but not yet    *)
(* written is nowhere either; only its one writer will put it somewhere.    *)
NotInChild(r) ==
  /\ child.runs[r] = 0
  /\ \A q \in Requests : childCopy[q].runs[r] = 0
  /\ settings.row.runs[r] = 0

NotInWords(r) ==
  /\ \A w \in Words : words[w][r] = 0
  /\ \A q \in Requests, w \in Words : wordsCopy[q][w][r] = 0

Granted ==
  \A q \in Requests : Writing(q) => applied[run[q]]

Unspent ==
  \A r \in Runs : ~applied[r] => NotInChild(r) /\ NotInWords(r)

Unwritten ==
  \A q \in Requests :
    /\ pc[q] = "saveChild" => NotInChild(run[q])
    /\ Writing(q) => NotInWords(run[q])

Once ==
  \A r \in Runs :
    /\ child.runs[r] <= 1
    /\ \A q \in Requests : childCopy[q].runs[r] <= 1
    /\ settings.row.runs[r] <= 1
    /\ \A w \in Words : words[w][r] <= 1
    /\ \A q \in Requests, w \in Words : wordsCopy[q][w][r] <= 1

Valid ==
  /\ \A q \in Requests : pc[q] = "mark" => run[q] \notin Invalid
  /\ \A r \in Runs : applied[r] => r \notin Invalid

IInv == TypeOK /\ Granted /\ Unspent /\ OneWriterPerRun /\ Unwritten /\ Once /\ Valid

(* A step that grants nothing and starts no writer keeps the invariant when *)
(* it spreads no run that must be nowhere, and doubles none.                *)
LEMMA NothingGranted ==
  ASSUME IInv, TypeOK', Once', applied' = applied,
         \A p \in Requests : Writing(p)' => Writing(p) /\ run'[p] = run[p],
         \A p \in Requests : pc'[p] = "saveChild" => pc[p] = "saveChild",
         \A p \in Requests : pc'[p] = "mark" => run'[p] \notin Invalid,
         \A r \in Runs :
           NotInChild(r) /\ (~applied[r] \/ \E p \in Requests : pc'[p] = "saveChild" /\ run[p] = r)
             => NotInChild(r)',
         \A r \in Runs :
           NotInWords(r) /\ (~applied[r] \/ \E p \in Requests : Writing(p)' /\ run[p] = r)
             => NotInWords(r)'
  PROVE  IInv'
<1>1. Granted' /\ OneWriterPerRun' /\ Valid'
  BY DEF IInv, Granted, OneWriterPerRun, Valid
<1>2. Unspent'
  BY DEF IInv, Unspent
<1>3. Unwritten'
  <2> SUFFICES ASSUME NEW p \in Requests, Writing(p)'
               PROVE  /\ pc'[p] = "saveChild" => NotInChild(run[p])'
                      /\ NotInWords(run[p])'
    BY DEF Unwritten, Writing
  <2>1. PICK r \in Runs : run[p] = r /\ run'[p] = r
    BY DEF IInv, TypeOK, Writing
  <2>2. /\ pc'[p] = "saveChild" => NotInChild(r)
        /\ NotInWords(r)
    BY <2>1 DEF IInv, Unwritten
  <2>3. /\ pc'[p] = "saveChild" => NotInChild(r)'
        /\ NotInWords(r)'
    BY <2>1, <2>2
  <2> QED BY <2>1, <2>3 DEF NotInChild, NotInWords
<1> QED BY <1>1, <1>2, <1>3 DEF IInv

(* Every step but the two saves and the grant only copies: it leaves a row, *)
(* clears a copy, or takes a copy of the row it reads.                      *)
LEMMA OnlyCopied ==
  ASSUME IInv, TypeOK', applied' = applied, words' = words,
         \A r \in Runs : child'.runs[r] \in {child.runs[r], settings.row.runs[r]},
         \A r \in Runs : settings'.row.runs[r] \in {0, settings.row.runs[r], child.runs[r]},
         \A r \in Runs, q \in Requests :
           childCopy'[q].runs[r] \in {0, childCopy[q].runs[r], child.runs[r]},
         \A r \in Runs, q \in Requests, w \in Words :
           wordsCopy'[q][w][r] \in {0, wordsCopy[q][w][r], words[w][r]},
         \A q \in Requests : Writing(q)' => pc'[q] = pc[q] /\ run'[q] = run[q],
         \A q \in Requests : pc'[q] = "mark" => run'[q] \notin Invalid
  PROVE  IInv'
<1>1. Once'
  BY DEF IInv, Once
<1>2. \A r \in Runs : NotInChild(r) => NotInChild(r)'
  BY DEF NotInChild
<1>3. \A r \in Runs : NotInWords(r) => NotInWords(r)'
  BY DEF NotInWords
<1>4. /\ \A q \in Requests : Writing(q)' => Writing(q) /\ run'[q] = run[q]
      /\ \A q \in Requests : pc'[q] = "saveChild" => pc[q] = "saveChild"
  BY DEF Writing
<1> QED BY <1>1, <1>2, <1>3, <1>4, NothingGranted

(* The request that ends, and the steps that go on, one program point each. *)
LEMMA AnswerCopies ==
  ASSUME IInv, NEW q \in Requests, NEW status, Answers(q, status)
  PROVE  /\ \A r \in Runs, p \in Requests :
              childCopy'[p].runs[r] \in {0, childCopy[p].runs[r], child.runs[r]}
         /\ \A r \in Runs, p \in Requests, w \in Words :
              wordsCopy'[p][w][r] \in {0, wordsCopy[p][w][r], words[w][r]}
         /\ \A p \in Requests : Writing(p)' => pc'[p] = pc[p] /\ run'[p] = run[p]
         /\ \A p \in Requests : pc'[p] = "mark" => run'[p] \notin Invalid
<1>1. /\ pc \in [Requests -> Steps]
      /\ childCopy \in [Requests -> ChildRows]
      /\ wordsCopy \in [Requests -> [Words -> Counts]]
  BY DEF IInv, TypeOK
<1>2. \A p \in Requests : /\ childCopy'[p] = IF p = q THEN EmptyRow ELSE childCopy[p]
                          /\ wordsCopy'[p] = IF p = q THEN NoWords ELSE wordsCopy[p]
                          /\ pc'[p] = IF p = q THEN "answer" ELSE pc[p]
  BY <1>1 DEF Answers
<1>3. run' = run
  BY DEF Answers
<1>4. \A p \in Requests : pc[p] = "mark" => run[p] \notin Invalid
  BY DEF IInv, Valid
<1>5. \A p \in Requests : Writing(p)' => pc'[p] = pc[p]
  BY <1>2 DEF Writing
<1> QED BY <1>2, <1>3, <1>4, <1>5, ZeroTypes

LEMMA GoesOn ==
  ASSUME IInv, NEW q \in Requests, NEW step \in {"readChild", "readWords"},
         GoesTo(q, step)
  PROVE  /\ \A p \in Requests : Writing(p)' => pc'[p] = pc[p] /\ run'[p] = run[p]
         /\ \A p \in Requests : pc'[p] = "mark" => run'[p] \notin Invalid
<1>1. \A p \in Requests : pc'[p] = IF p = q THEN step ELSE pc[p]
  BY DEF GoesTo, IInv, TypeOK
<1>2. run' = run
  BY DEF GoesTo
<1> QED BY <1>1, <1>2 DEF Writing, IInv, Valid

LEMMA CopiesUnchanged ==
  /\ \A r \in Runs : child.runs[r] \in {child.runs[r], settings.row.runs[r]}
  /\ \A r \in Runs : settings.row.runs[r] \in {0, settings.row.runs[r], child.runs[r]}
  /\ \A r \in Runs, q \in Requests :
       childCopy[q].runs[r] \in {0, childCopy[q].runs[r], child.runs[r]}
  /\ \A r \in Runs, q \in Requests, w \in Words :
       wordsCopy[q][w][r] \in {0, wordsCopy[q][w][r], words[w][r]}
OBVIOUS

LEMMA CopyingSteps ==
  ASSUME IInv, TypeOK',
         \/ \E q \in Requests, r \in Runs : Arrive(q, r)
         \/ \E q \in Requests : \/ Admit(q) \/ ReadChild(q) \/ ReadWords(q)
                                \/ Refuse(q) \/ Fail(q) \/ Leave(q)
         \/ Restart \/ OpenSettings \/ SaveSettings
         \/ UNCHANGED vars
  PROVE  IInv'
<1>t. /\ pc \in [Requests -> Steps]
      /\ run \in [Requests -> Runs \cup {None}]
      /\ childCopy \in [Requests -> ChildRows]
      /\ wordsCopy \in [Requests -> [Words -> Counts]]
      /\ child \in ChildRows
      /\ settings \in [pc: {"idle", "read"}, row: ChildRows]
  BY DEF IInv, TypeOK
<1>m. \A p \in Requests : pc[p] = "mark" => run[p] \notin Invalid
  BY DEF IInv, Valid
<1>1. ASSUME NEW q \in Requests, NEW r \in Runs, Arrive(q, r)
      PROVE  IInv'
  <2>1. \A p \in Requests : p # q => pc'[p] = pc[p] /\ run'[p] = run[p]
    BY <1>1, <1>t DEF Arrive
  <2>2. pc'[q] = "arrived"
    BY <1>1, <1>t DEF Arrive
  <2>3. /\ \A p \in Requests : Writing(p)' => pc'[p] = pc[p] /\ run'[p] = run[p]
        /\ \A p \in Requests : pc'[p] = "mark" => run'[p] \notin Invalid
    BY <2>1, <2>2, <1>m DEF Writing
  <2>4. UNCHANGED <<applied, child, words, childCopy, wordsCopy, settings>>
    BY <1>1 DEF Arrive, rows
  <2> QED BY <2>3, <2>4, CopiesUnchanged, OnlyCopied
<1>2. ASSUME NEW q \in Requests, Admit(q)
      PROVE  IInv'
  <2>1. GoesTo(q, "readChild") /\ UNCHANGED <<applied, child, words, childCopy, wordsCopy, settings>>
    BY <1>2 DEF Admit, rows
  <2> QED BY <2>1, GoesOn, CopiesUnchanged, OnlyCopied
<1>3. ASSUME NEW q \in Requests, ReadChild(q)
      PROVE  IInv'
  <2>1. GoesTo(q, "readWords") /\ UNCHANGED <<applied, child, words, wordsCopy, settings>>
    BY <1>3 DEF ReadChild, rows
  <2>2. \A p \in Requests : childCopy'[p] = IF p = q THEN child ELSE childCopy[p]
    BY <1>3, <1>t DEF ReadChild
  <2>3. \A r \in Runs, p \in Requests :
          childCopy'[p].runs[r] \in {0, childCopy[p].runs[r], child.runs[r]}
    BY <2>2
  <2> QED BY <2>1, <2>3, GoesOn, CopiesUnchanged, OnlyCopied
<1>4. ASSUME NEW q \in Requests, ReadWords(q)
      PROVE  IInv'
  <2>u. UNCHANGED <<applied, child, words, settings>>
    BY <1>4 DEF ReadWords, rows
  <2>1. CASE Answers(q, "400")
    BY <2>1, <2>u, AnswerCopies, CopiesUnchanged, OnlyCopied
  <2>2. CASE run[q] \notin Invalid /\ GoesTo(q, "mark") /\ UNCHANGED childCopy
             /\ wordsCopy' = [wordsCopy EXCEPT ![q] = words]
    <3>1. /\ \A p \in Requests : pc'[p] = IF p = q THEN "mark" ELSE pc[p]
          /\ \A p \in Requests : wordsCopy'[p] = IF p = q THEN words ELSE wordsCopy[p]
          /\ run' = run
      BY <2>2, <1>t DEF GoesTo
    <3>2. \A p \in Requests : Writing(p)' => pc'[p] = pc[p] /\ run'[p] = run[p]
      BY <3>1 DEF Writing
    <3>3. \A p \in Requests : pc'[p] = "mark" => run'[p] \notin Invalid
      BY <3>1, <2>2, <1>m
    <3>4. \A r \in Runs, p \in Requests, w \in Words :
            wordsCopy'[p][w][r] \in {0, wordsCopy[p][w][r], words[w][r]}
      BY <3>1
    <3>5. childCopy' = childCopy
      BY <2>2
    <3> QED BY <3>2, <3>3, <3>4, <3>5, <2>u, CopiesUnchanged, OnlyCopied
  <2> QED BY <1>4, <2>1, <2>2 DEF ReadWords
<1>5. ASSUME NEW q \in Requests, Refuse(q) \/ Fail(q)
      PROVE  IInv'
  <2>1. UNCHANGED <<applied, child, words, settings>>
    BY <1>5 DEF Refuse, Fail, rows
  <2>2. Answers(q, "401") \/ Answers(q, "500")
    BY <1>5 DEF Refuse, Fail
  <2> QED BY <2>1, <2>2, AnswerCopies, CopiesUnchanged, OnlyCopied
<1>6. ASSUME NEW q \in Requests, Leave(q)
      PROVE  IInv'
  <2>1. UNCHANGED <<applied, child, words, childCopy, wordsCopy, settings>>
    BY <1>6 DEF Leave, rows
  <2>2. pc'[q] = "idle" /\ \A p \in Requests : p # q => pc'[p] = pc[p] /\ run'[p] = run[p]
    BY <1>6, <1>t DEF Leave
  <2>3. /\ \A p \in Requests : Writing(p)' => pc'[p] = pc[p] /\ run'[p] = run[p]
        /\ \A p \in Requests : pc'[p] = "mark" => run'[p] \notin Invalid
    BY <2>2, <1>m DEF Writing
  <2> QED BY <2>1, <2>3, CopiesUnchanged, OnlyCopied
<1>7. CASE Restart
  <2>1. UNCHANGED <<applied, child, words>> /\ settings'.row = EmptyRow
    BY <1>7 DEF Restart, rows
  <2>2. \A p \in Requests : pc'[p] = "idle" /\ childCopy'[p] = EmptyRow /\ wordsCopy'[p] = NoWords
    BY <1>7 DEF Restart
  <2>3. /\ \A p \in Requests : Writing(p)' => pc'[p] = pc[p] /\ run'[p] = run[p]
        /\ \A p \in Requests : pc'[p] = "mark" => run'[p] \notin Invalid
    BY <2>2 DEF Writing
  <2>4. /\ \A r \in Runs : settings'.row.runs[r] \in {0, settings.row.runs[r], child.runs[r]}
        /\ \A r \in Runs, q \in Requests :
             childCopy'[q].runs[r] \in {0, childCopy[q].runs[r], child.runs[r]}
        /\ \A r \in Runs, q \in Requests, w \in Words :
             wordsCopy'[q][w][r] \in {0, wordsCopy[q][w][r], words[w][r]}
    BY <2>1, <2>2, ZeroTypes
  <2> QED BY <2>1, <2>3, <2>4, CopiesUnchanged, OnlyCopied
<1>8. CASE OpenSettings
  <2>1. UNCHANGED <<applied, child, words, pc, run, childCopy, wordsCopy>>
        /\ settings'.row = child
    BY <1>8 DEF OpenSettings, rows, requests
  <2>2. \A r \in Runs : settings'.row.runs[r] \in {0, settings.row.runs[r], child.runs[r]}
    BY <2>1
  <2>3. /\ \A p \in Requests : Writing(p)' => pc'[p] = pc[p] /\ run'[p] = run[p]
        /\ \A p \in Requests : pc'[p] = "mark" => run'[p] \notin Invalid
    BY <2>1, <1>m
  <2> QED BY <2>1, <2>2, <2>3, CopiesUnchanged, OnlyCopied
<1>9. CASE SaveSettings
  <2>1. UNCHANGED <<applied, words, pc, run, childCopy, wordsCopy>>
        /\ settings'.row = EmptyRow
    BY <1>9 DEF SaveSettings, requests
  <2>2. child'.runs = settings.row.runs
    BY <1>9, <1>t DEF SaveSettings, ChildRows
  <2>3. \A r \in Runs : settings'.row.runs[r] \in {0, settings.row.runs[r], child.runs[r]}
    BY <2>1, ZeroTypes
  <2>4. /\ \A p \in Requests : Writing(p)' => pc'[p] = pc[p] /\ run'[p] = run[p]
        /\ \A p \in Requests : pc'[p] = "mark" => run'[p] \notin Invalid
    BY <2>1, <1>m
  <2>5. /\ \A r \in Runs : child'.runs[r] \in {child.runs[r], settings.row.runs[r]}
        /\ \A r \in Runs, q \in Requests :
             childCopy'[q].runs[r] \in {0, childCopy[q].runs[r], child'.runs[r], child.runs[r]}
    BY <2>1, <2>2
  <2>6. \A r \in Runs, q \in Requests :
          childCopy'[q].runs[r] \in {0, childCopy[q].runs[r], child.runs[r]}
    BY <2>1
  <2> QED BY <2>1, <2>3, <2>4, <2>5, <2>6, CopiesUnchanged, OnlyCopied
<1>10. CASE UNCHANGED vars
  <2>1. UNCHANGED <<applied, child, words, pc, run, childCopy, wordsCopy, settings>>
    BY <1>10 DEF vars, rows, requests
  <2> QED BY <2>1, <1>m, CopiesUnchanged, OnlyCopied
<1> QED BY <1>1, <1>2, <1>3, <1>4, <1>5, <1>6, <1>7, <1>8, <1>9, <1>10

(* The grant: the run was nowhere, and no request was writing it.           *)
LEMMA GrantStep ==
  ASSUME IInv, TypeOK', NEW q \in Requests, MarkApplied(q)
  PROVE  IInv'
<1>t. /\ pc \in [Requests -> Steps]
      /\ run \in [Requests -> Runs \cup {None}]
      /\ applied \in [Runs -> BOOLEAN]
  BY DEF IInv, TypeOK
<1>g. pc[q] = "mark" /\ run[q] \in Runs /\ run[q] \notin Invalid
  BY DEF IInv, TypeOK, Valid, MarkApplied
<1>u. UNCHANGED <<child, words, settings>>
  BY DEF MarkApplied
<1>1. CASE applied[run[q]]
  <2>1. Answers(q, "409") /\ applied' = applied
    BY <1>1 DEF MarkApplied
  <2> QED BY <2>1, <1>u, AnswerCopies, CopiesUnchanged, OnlyCopied
<1>2. CASE ~applied[run[q]]
  <2>1. /\ \A p \in Requests : pc'[p] = IF p = q THEN "saveChild" ELSE pc[p]
        /\ \A r \in Runs : applied'[r] = IF r = run[q] THEN TRUE ELSE applied[r]
        /\ UNCHANGED <<run, childCopy, wordsCopy>>
    BY <1>2, <1>g, <1>t DEF MarkApplied, GoesTo
  <2>n. NotInChild(run[q]) /\ NotInWords(run[q])
    BY <1>2, <1>g DEF IInv, Unspent
  <2>s. \A r \in Runs : NotInChild(r) <=> NotInChild(r)'
    BY <2>1, <1>u DEF NotInChild
  <2>w. \A r \in Runs : NotInWords(r) <=> NotInWords(r)'
    BY <2>1, <1>u DEF NotInWords
  <2>p. \A p \in Requests : Writing(p)' <=> p = q \/ Writing(p)
    BY <2>1 DEF Writing
  <2>r. \A p \in Requests : Writing(p) => run[p] \in Runs /\ run[p] # run[q]
    BY <1>2 DEF IInv, TypeOK, Granted, Writing
  <2>2. Granted'
    BY <2>1, <2>p, <2>r, <1>g DEF IInv, Granted
  <2>3. Unspent'
    BY <2>1, <2>s, <2>w DEF IInv, Unspent
  <2>4. OneWriterPerRun'
    BY <2>1, <2>p, <2>r DEF IInv, OneWriterPerRun
  <2>5. Unwritten'
    <3> SUFFICES ASSUME NEW p \in Requests, Writing(p)'
                 PROVE  /\ pc'[p] = "saveChild" => NotInChild(run[p])'
                        /\ NotInWords(run[p])'
      BY DEF Unwritten, Writing
    <3>1. run[p] \in Runs /\ run'[p] = run[p]
      BY <2>1, <2>p, <2>r, <1>g
    <3>2. /\ pc'[p] = "saveChild" => NotInChild(run[p])
          /\ NotInWords(run[p])
      BY <2>1, <2>n, <2>p DEF IInv, Unwritten
    <3> QED BY <3>2, <2>1, <1>u DEF NotInChild, NotInWords
  <2>6. Once'
    BY <2>1, <1>u DEF IInv, Once
  <2>7. Valid'
    BY <2>1, <1>g DEF IInv, Valid
  <2> QED BY <2>2, <2>3, <2>4, <2>5, <2>6, <2>7 DEF IInv
<1> QED BY <1>1, <1>2

(* SaveChild: the writer's copy does not hold its own run, and what it does *)
(* hold besides was already somewhere.                                      *)
LEMMA SaveChildStep ==
  ASSUME IInv, TypeOK', NEW q \in Requests, SaveChild(q)
  PROVE  IInv'
<1>t. /\ pc \in [Requests -> Steps]
      /\ childCopy \in [Requests -> ChildRows]
  BY DEF IInv, TypeOK
<1>g. pc[q] = "saveChild" /\ run[q] \in Runs /\ applied[run[q]] /\ NotInChild(run[q])
  BY DEF IInv, TypeOK, Granted, Unwritten, Writing, SaveChild
<1>u. UNCHANGED <<applied, words, settings>>
  BY DEF SaveChild
<1>1. ASSUME NEW status, Answers(q, status), child' = child
      PROVE  IInv'
  BY <1>1, <1>u, AnswerCopies, CopiesUnchanged, OnlyCopied
<1>2. ASSUME /\ GoesTo(q, "saveWords") /\ UNCHANGED <<childCopy, wordsCopy>>
             /\ child' = [childCopy[q] EXCEPT !.runs = Plus(@, run[q])]
      PROVE  IInv'
  <2>1. /\ child'.runs = Plus(childCopy[q].runs, run[q])
        /\ \A p \in Requests : pc'[p] = IF p = q THEN "saveWords" ELSE pc[p]
        /\ UNCHANGED <<run, childCopy, wordsCopy>>
    BY <1>2, <1>t DEF GoesTo, ChildRows
  <2>2. childCopy[q].runs \in Counts
    BY <1>t DEF ChildRows
  <2>3. /\ child'.runs[run[q]] = childCopy[q].runs[run[q]] + 1
        /\ \A s \in Runs : s # run[q] => child'.runs[s] = childCopy[q].runs[s]
    BY <2>1, <2>2, <1>g, PlusType
  <2>4. childCopy[q].runs[run[q]] = 0
    BY <1>g DEF NotInChild
  <2>5. \A s \in Runs : s # run[q] /\ NotInChild(s) => NotInChild(s)'
    BY <2>1, <2>3, <1>u DEF NotInChild
  <2>6. \A s \in Runs : NotInWords(s) => NotInWords(s)'
    BY <2>1, <1>u DEF NotInWords
  <2>7. \A p \in Requests : Writing(p)' <=> Writing(p)
    BY <2>1, <1>g DEF Writing
  <2>8. \A p \in Requests : pc'[p] = "saveChild" => p # q /\ run[p] # run[q]
    BY <2>1, <1>g DEF IInv, OneWriterPerRun, Writing
  <2>9. Once'
    <3>1. \A r \in Runs : child'.runs[r] <= 1
      BY <2>3, <2>4 DEF IInv, Once
    <3> QED BY <3>1, <2>1, <1>u DEF IInv, Once
  <2>10. /\ \A p \in Requests : Writing(p)' => Writing(p) /\ run'[p] = run[p]
         /\ \A p \in Requests : pc'[p] = "saveChild" => pc[p] = "saveChild"
         /\ \A p \in Requests : pc'[p] = "mark" => run'[p] \notin Invalid
    BY <2>1, <2>7 DEF IInv, Valid
  <2>11. \A r \in Runs :
           NotInChild(r) /\ (~applied[r] \/ \E p \in Requests : pc'[p] = "saveChild" /\ run[p] = r)
             => NotInChild(r)'
    BY <2>5, <2>8, <1>g
  <2> QED BY <2>6, <2>9, <2>10, <2>11, <1>u, NothingGranted
<1> QED BY <1>1, <1>2 DEF SaveChild

(* SaveWordStates, likewise, word by word. *)
LEMMA SaveWordsStep ==
  ASSUME IInv, TypeOK', NEW q \in Requests, SaveWords(q)
  PROVE  IInv'
<1>t. /\ pc \in [Requests -> Steps]
      /\ words \in [Words -> Counts]
      /\ wordsCopy \in [Requests -> [Words -> Counts]]
  BY DEF IInv, TypeOK
<1>g. pc[q] = "saveWords" /\ run[q] \in Runs /\ applied[run[q]] /\ NotInWords(run[q])
  BY DEF IInv, TypeOK, Granted, Unwritten, Writing, SaveWords
<1>1. /\ UNCHANGED <<applied, child, settings>>
      /\ words' = Upserted(wordsCopy[q], run[q])
      /\ Answers(q, "200")
  BY DEF SaveWords
<1>2. wordsCopy[q] \in [Words -> Counts]
  BY <1>t
<1>3. \A w \in Words, s \in Runs :
        \/ words'[w][s] = words[w][s]
        \/ words'[w][s] = wordsCopy[q][w][s]
        \/ s = run[q] /\ words'[w][s] = wordsCopy[q][w][s] + 1
  BY <1>1, <1>2, <1>t, <1>g, UpsertedType, SMTT(20)
<1>4. \A w \in Words : wordsCopy[q][w][run[q]] = 0
  BY <1>g DEF NotInWords
<1>5. \A w \in Words, s \in Runs : words'[w][s] <= 1
  <2> TAKE w \in Words, s \in Runs
  <2>1. words[w][s] <= 1 /\ wordsCopy[q][w][s] <= 1
    BY DEF IInv, Once
  <2> QED BY <2>1, <1>3, <1>4
<1>a. /\ \A r \in Runs, p \in Requests :
           childCopy'[p].runs[r] \in {0, childCopy[p].runs[r], child.runs[r]}
      /\ \A r \in Runs, p \in Requests, w \in Words :
           wordsCopy'[p][w][r] \in {0, wordsCopy[p][w][r], words[w][r]}
      /\ \A p \in Requests : Writing(p)' => pc'[p] = pc[p] /\ run'[p] = run[p]
      /\ \A p \in Requests : pc'[p] = "mark" => run'[p] \notin Invalid
  BY <1>1, AnswerCopies
<1>6. Once'
  BY <1>1, <1>5, <1>a DEF IInv, Once
<1>7. \A s \in Runs : NotInChild(s) => NotInChild(s)'
  BY <1>1, <1>a DEF NotInChild
<1>8. \A s \in Runs : s # run[q] /\ NotInWords(s) => NotInWords(s)'
  BY <1>3, <1>a DEF NotInWords
<1>9. \A p \in Requests : Writing(p)' => run[p] # run[q]
  <2>1. pc'[q] = "answer"
    BY <1>1, <1>t DEF Answers
  <2>2. \A p \in Requests : Writing(p)' => p # q /\ Writing(p)
    BY <2>1, <1>a DEF Writing
  <2> QED BY <2>2, <1>g DEF IInv, OneWriterPerRun, Writing
<1>10. /\ \A p \in Requests : Writing(p)' => Writing(p) /\ run'[p] = run[p]
       /\ \A p \in Requests : pc'[p] = "saveChild" => pc[p] = "saveChild"
  BY <1>a DEF Writing
<1>11. \A r \in Runs :
         NotInWords(r) /\ (~applied[r] \/ \E p \in Requests : Writing(p)' /\ run[p] = r)
           => NotInWords(r)'
  BY <1>8, <1>9, <1>g
<1> QED BY <1>1, <1>6, <1>7, <1>10, <1>11, <1>a, NothingGranted

----------------------------------------------------------------------------
(* The invariant holds of every reachable state of the server.              *)
THEOREM Invariance == Spec => []IInv
<1>1. Init => IInv
  <2> SUFFICES ASSUME Init PROVE IInv
    OBVIOUS
  <2>1. TypeOK
    BY ZeroTypes, RunFinishAssumption DEF Init, TypeOK, Steps, Codes
  <2>2. \A q \in Requests : pc[q] = "idle"
    BY DEF Init
  <2>3. \A r \in Runs : NotInChild(r) /\ NotInWords(r)
    BY ZeroTypes DEF Init, NotInChild, NotInWords
  <2>4. Once
    BY <2>3 DEF NotInChild, NotInWords, Once
  <2>5. \A r \in Runs : ~applied[r]
    BY DEF Init
  <2> QED
    BY <2>1, <2>2, <2>3, <2>4, <2>5
       DEF IInv, Granted, Unspent, OneWriterPerRun, Unwritten, Valid, Writing
<1>2. IInv /\ TypeOK' /\ [Next]_vars => IInv'
  BY CopyingSteps, GrantStep, SaveChildStep, SaveWordsStep DEF Next, Handle
<1> QED BY <1>1, <1>2, TypeCorrect, PTL DEF Spec

(* However often a finish is sent and however its requests interleave with  *)
(* one another, with failures, restarts and the settings page, no row ever  *)
(* holds a run twice.                                                       *)
THEOREM NeverAppliedTwice == Spec => []AppliedAtMostOnce
<1>1. IInv => AppliedAtMostOnce
  BY DEF IInv, Once, AppliedAtMostOnce
<1> QED BY <1>1, Invariance, PTL

(* At most one request at a time is writing a given run.                    *)
THEOREM NeverTwoWriters == Spec => []OneWriterPerRun
<1>1. IInv => OneWriterPerRun
  BY DEF IInv
<1> QED BY <1>1, Invariance, PTL

(* What a row holds was granted by MarkApplied and accepted by Replay.      *)
THEOREM AlwaysGranted == Spec => []WrittenWasGranted
<1>1. IInv => WrittenWasGranted
  BY DEF IInv, Unspent, Valid, NotInChild, NotInWords, WrittenWasGranted
<1> QED BY <1>1, Invariance, PTL

(* A run Replay refuses never spends its one chance.                        *)
THEOREM InvalidNeverSpends == Spec => []InvalidSpendsNothing
<1>1. IInv => InvalidSpendsNothing
  BY RunFinishAssumption DEF IInv, Valid, InvalidSpendsNothing
<1> QED BY <1>1, Invariance, PTL
=============================================================================
