------------------------- MODULE RequirementExtraction -------------------------
(***************************************************************************)
(* The requirements of one tender as they are read from its documents: the *)
(* model reads each document, the outputs are merged, and the rows that    *)
(* were there are matched with them.  A matched row keeps its identity and *)
(* its code, an unmatched one is deleted with its questions and answers.   *)
(*                                                                         *)
(* A description stands for every wording that the similarity thresholds   *)
(* take for it; its category never varies.  The model may fail on any      *)
(* document, and what it reads of the others is Contents.                  *)
(***************************************************************************)
EXTENDS UnitOfWork, Naturals, Sequences, FiniteSets, Functions

CONSTANTS
  Contents,      \* for each document, the outputs read from it, in order
  Category,      \* the category of each description
  Transactions,  \* analyses and requests
  MaxRows        \* bound on the rows ever inserted

Descriptions == DOMAIN Category

\* A requirement as the model gives it.
Output == [description : Descriptions, is_mandatory : BOOLEAN]

ASSUME ExtractionAssumption ==
  /\ Contents \in Seq(Seq(Output))
  /\ MaxRows \in Nat

VARIABLES
  rows,         \* tender_requirements
  inserted,     \* how many rows were ever inserted: the next id
  unread,       \* the documents the last extraction could not read
  transaction,  \* what each transaction holds
  raced         \* has a transaction been opened while another was open?

extractionVars == <<rows, inserted, unread, transaction, raced>>

Ended == [open |-> FALSE, rows |-> {}]

ExtractionInit ==
  /\ rows = {}
  /\ inserted = 0
  /\ unread = {}
  /\ transaction = [s \in Transactions |-> Ended]
  /\ raced = FALSE

-----------------------------------------------------------------------------
(* The algorithms, on sequences of outputs and of rows. *)

Codes == [prefix : {Category[d] : d \in Descriptions}, number : Nat \ {0}]

\* Wrong: the number of codes instead of the highest number.
next_code_count(prefix, codes) ==
  [prefix |-> prefix, number |-> Cardinality({c \in codes : c.prefix = prefix}) + 1]

\* The number after the highest one given with this prefix.
next_code(prefix, codes) ==
  LET numbers == {c.number : c \in {x \in codes : x.prefix = prefix}} \union {0}
  IN  [prefix |-> prefix, number |-> 1 + CHOOSE n \in numbers : \A m \in numbers : m <= n]

\* The outputs of the documents that were read, in the order of the documents.
Outputs(failed) ==
  LET outputs[d \in 0 .. Len(Contents)] ==
        IF d = 0 THEN << >>
        ELSE IF d \in failed THEN outputs[d - 1] ELSE outputs[d - 1] \o Contents[d]
  IN  outputs[Len(Contents)]

\* Wrong: the first version of a requirement decides.
Merged_first(kept, candidate) ==
  IF \E i \in DOMAIN kept : kept[i].description = candidate.description
  THEN kept ELSE Append(kept, candidate)

\* The first occurrence is kept, a mandatory version prevails.
Merged(kept, candidate) ==
  LET twins == {i \in DOMAIN kept : kept[i].description = candidate.description}
  IN  IF twins = {} THEN Append(kept, candidate)
      ELSE [i \in DOMAIN kept |->
              IF i \in twins
              THEN [kept[i] EXCEPT !.is_mandatory = @ \/ candidate.is_mandatory]
              ELSE kept[i]]

merge_outputs(outputs) ==
  LET kept[n \in 0 .. Len(outputs)] == IF n = 0 THEN << >> ELSE Merged(kept[n - 1], outputs[n])
  IN  kept[Len(outputs)]

\* Wrong: the mark of the user's hand is cleared.
Applied_reset(row, item) ==
  [row EXCEPT !.is_mandatory = item.is_mandatory, !.manual_status = FALSE]

\* _apply: a row the user took in hand keeps its mandatory flag.
Applied(row, item) ==
  IF row.manual_status THEN row ELSE [row EXCEPT !.is_mandatory = item.is_mandatory]

\* The reconciliation of one output with the rows that are left to match.
\* `existing` are the rows read, `codes` all the codes given so far.
Reconciled(state, item) ==
  LET matches == {r \in state.unmatched : r.description = item.description}
      match == CHOOSE r \in matches : \A x \in matches : r.code.number <= x.code.number
      code == next_code(Category[item.description], state.codes)
      created == [id |-> state.next, description |-> item.description, code |-> code,
                  is_mandatory |-> item.is_mandatory, manual_status |-> FALSE]
  IN  IF matches # {}
      THEN [state EXCEPT !.unmatched = @ \ {match},
                         !.updates = @ \union {<<match, Applied(match, item)>>}]
      ELSE [state EXCEPT !.codes = @ \union {code}, !.next = @ + 1,
                         !.created = @ \union {created}]

\* What an extraction that read `existing` has to insert, update and delete.
Plan(existing, items, next) ==
  LET start == [unmatched |-> existing, codes |-> {r.code : r \in existing}, next |-> next,
                created |-> {}, updates |-> {}]
      state[n \in 0 .. Len(items)] == IF n = 0 THEN start ELSE Reconciled(state[n - 1], items[n])
  IN  state[Len(items)]

-----------------------------------------------------------------------------
(* Transactions. *)

\* An analysis or a request reads the rows of the tender.
Load(s) ==
  /\ ~ transaction[s].open
  /\ transaction' = [transaction EXCEPT ![s] = [open |-> TRUE, rows |-> rows]]
  /\ raced' = (raced \/ \E t \in Transactions : transaction[t].open)
  /\ UNCHANGED <<rows, inserted, unread>>

\* The transaction ends: with a commit, an error or the death of its process.
End(s) == transaction' = [transaction EXCEPT ![s] = Ended]

Abort(s) ==
  /\ transaction[s].open
  /\ End(s)
  /\ UNCHANGED <<rows, inserted, unread, raced>>

\* The rows once the updates u (pairs: as read, as changed) are written; an
\* UPDATE of a row that is gone is an error, so the transaction must roll back.
CanUpdate(u) == \A p \in u : p[1] # p[2] => \E r \in rows : r.id = p[1].id

After(u) ==
  {LET mine == {p \in u : p[1].id = r.id}
   IN  IF mine = {} THEN r ELSE LET p == CHOOSE p \in mine : TRUE IN Written(r, p[1], p[2])
   : r \in rows}

\* RequirementsService.extract: the rows that no output matched are deleted,
\* those of the documents the model failed on included.
extract(s, failed) ==
  /\ transaction[s].open
  /\ LET plan == Plan(transaction[s].rows, merge_outputs(Outputs(failed)), inserted)
     IN  /\ plan.next <= MaxRows
         /\ CanUpdate(plan.updates)
         /\ rows' = {r \in After(plan.updates) : \A x \in plan.unmatched : x.id # r.id}
                      \union plan.created
         /\ inserted' = plan.next
  /\ unread' = failed
  /\ End(s)
  /\ UNCHANGED raced

\* PATCH /requirements/{id}: a status or a justification sets manual_status.
PatchStatus(old) == [old EXCEPT !.manual_status = TRUE]

\* A mandatory flag alone does not.
PatchMandatory(old) == [old EXCEPT !.is_mandatory = ~ @]

update_requirement(s, old, new) ==
  /\ transaction[s].open
  /\ old # new => CanUpdate({<<old, new>>})
  /\ rows' = After({<<old, new>>})
  /\ End(s)
  /\ UNCHANGED <<inserted, unread, raced>>

ExtractionNext ==
  \E s \in Transactions :
    \/ Load(s)
    \/ Abort(s)
    \/ \E failed \in SUBSET DOMAIN Contents : extract(s, failed)
    \/ \E old \in transaction[s].rows :
         update_requirement(s, old, PatchStatus(old)) \/ update_requirement(s, old, PatchMandatory(old))

ExtractionSpec == ExtractionInit /\ [][ExtractionNext]_extractionVars

-----------------------------------------------------------------------------
(* Properties that hold however the transactions overlap. *)

RequirementRow ==
  [id : Nat, description : Descriptions, code : Codes,
   is_mandatory : BOOLEAN, manual_status : BOOLEAN]

\* Every variable has its type.
ExtractionTypeOK ==
  /\ rows \subseteq RequirementRow
  /\ inserted \in Nat
  /\ unread \subseteq DOMAIN Contents
  /\ transaction \in [Transactions -> [open : BOOLEAN, rows : SUBSET RequirementRow]]
  /\ raced \in BOOLEAN

\* A requirement keeps its code for as long as it lives, and the mark of the
\* user's hand (requirements.py:3-4).
IdentityIsStable ==
  [][\A r \in rows, n \in rows' :
       r.id = n.id =>
         /\ r.code = n.code /\ r.description = n.description
         /\ r.manual_status => n.manual_status]_extractionVars

-----------------------------------------------------------------------------
(* Properties that hold as long as no two transactions have raced. *)

\* Two requirements never have the same code.
CodesAreDistinct == ~ raced => \A q, r \in rows : q.code = r.code => q = r

\* What the documents that were read say.
Said == UNION {Range(Contents[d]) : d \in DOMAIN Contents \ unread}

Extraction == \E s \in Transactions, failed \in SUBSET DOMAIN Contents : extract(s, failed)

\* After an extraction there is one row for each requirement that was read,
\* and it is mandatory as soon as one document says so, unless the user took
\* it in hand (requirements.py:1-4, merge_outputs).
ExtractionIsFaithful ==
  [][Extraction /\ ~ raced =>
       /\ {r.description : r \in rows'} = {item.description : item \in Said'}
       /\ \A q, r \in rows' : q.description = r.description => q = r
       /\ \A r \in rows' : ~ r.manual_status =>
            (r.is_mandatory <=> [description |-> r.description, is_mandatory |-> TRUE] \in Said')]_extractionVars

-----------------------------------------------------------------------------
\* What the code says without reserve: an update by hand "survives the
\* re-extractions" (api/v1/requirements.py:2-4).
HandSurvives ==
  [][\A r \in rows : r.manual_status => \E n \in rows' : n.id = r.id]_extractionVars
=============================================================================
