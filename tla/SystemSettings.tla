---------------------------- MODULE SystemSettings ----------------------------
(***************************************************************************)
(* The settings of the system and a screening that uses them.              *)
(*                                                                         *)
(* Administrators open the settings page, change the list of model         *)
(* configurations, save it, and save the rules of the screening; both go   *)
(* to the newest row of system_configs, in requests of several statements. *)
(* Meanwhile a resume is screened: the rules are read, a model answers,    *)
(* its answer is repaired and supplemented, and the verdict is saved.      *)
(* A position (its own rules, its weights) may change at any time, so what *)
(* a read of it returns is a choice.                                       *)
(***************************************************************************)
EXTENDS LlmSlots, ScreeningScore

CONSTANTS
    Admins,
    RuleChoices,    \* the rules that are saved and found
    WeightChoices,  \* the weights a position gives
    Answers,        \* the answers of the models: [outer, inner]
    Builtin,        \* DEFAULT_SCREENING_RULES
    Starts,         \* the rows there may be at first
    Legacy,         \* models in the columns llm_*, llm2_*, ... of the first row
    Unset, None,
    MaxRows,        \* bound: rows of system_configs
    MaxIds,         \* bound: ids given to slots
    MaxSaves,       \* bound: requests that save
    MaxEdits        \* bound: changes made to a page

\* The slots of a list that no page has loaded yet: with a key and no id.
FirstSlots == [id : {NoId}, model : Models, key : Models]

ASSUME SettingsAssumption ==
    /\ MaxRows \in Nat \ {0} /\ {MaxIds, MaxSaves, MaxEdits} \subseteq Nat
    /\ RuleChoices \cup {Builtin} \subseteq Rules /\ NoRules \notin Rules
    /\ WeightChoices \subseteq [Scoring -> Nat]
    /\ Answers \subseteq [outer : AnswerScores, inner : AnswerScores]
    /\ None \notin 1..MaxRows
    /\ Legacy \in Seq(Models) /\ NoKey \notin Models /\ Unset \notin Seq(Slots(MaxIds))
    /\ \A start \in Starts :
          /\ DOMAIN start \subseteq {1}
          /\ \A x \in DOMAIN start :
                start[x] \in [slots : {Unset} \cup Seq(FirstSlots),
                              rules : RuleChoices \cup {NoRules}]

VARIABLES
    rows,           \* rows[x]: a row of system_configs, [slots, rules]
    newest,         \* the row written last
    page,           \* the settings page of each administrator
    req,            \* their requests under way
    ids,            \* the last id given to a slot
    saves,          \* what the bound counts
    screen,         \* the screening
    lastSaved,      \* history: the rules saved last
    raced           \* history: two first saves each made a row

vars == <<rows, newest, page, req, ids, saves, screen, lastSaved, raced>>

-----------------------------------------------------------------------------
RowIds == 1..MaxRows
SlotLists == Seq(Slots(MaxIds))

\* fresh: the stored list is the one that the page shows: nobody else has written
\* it since the page was loaded, and the ids that were given are stored.
Closed == [list |-> <<>>, open |-> FALSE, fresh |-> TRUE, edits |-> 0]

\* row, stored: what the request has read.
Pcs == {"idle", "fill", "find", "read", "write", "unread", "findRules", "writeRules"}
NoRequest == [pc |-> "idle", row |-> None, stored |-> <<>>, rules |-> NoRules]

Fresh(x) == x \notin DOMAIN rows /\ 1..(x - 1) \subseteq DOMAIN rows
Put(x, row) == [y \in DOMAIN rows \cup {x} |-> IF y = x THEN row ELSE rows[y]]

\* The columns of a row, or what an INSERT leaves in them.
RulesOf(x) == IF x \in DOMAIN rows THEN rows[x].rules ELSE NoRules
SlotsOf(x) == IF x \in DOMAIN rows THEN rows[x].slots ELSE Unset

\* A list without slots is not distinguished from a column that is NULL: both
\* show the old columns and lend no key.
ListOf(x) == IF SlotsOf(x) = Unset THEN <<>> ELSE SlotsOf(x)

\* asRead, own, unread: history until the verdict, the rules of the system saved
\* last when the screening began, those of the position, and what could not be read.
NoScreening == [pc |-> "idle", rules |-> NoRules, primary |-> Empty, scores |-> Empty,
                weights |-> None, verdict |-> "none",
                asRead |-> NoRules, own |-> NoRules, unread |-> {}]

Init ==
    /\ rows \in Starts
    /\ newest = IF 1 \in DOMAIN rows THEN 1 ELSE None
    /\ page = [a \in Admins |-> Closed]
    /\ req = [a \in Admins |-> NoRequest]
    /\ ids = 0 /\ saves = 0
    /\ screen = NoScreening
    /\ lastSaved = RulesOf(newest)
    /\ raced = FALSE

-----------------------------------------------------------------------------
(* The settings page *)

At(a, p) == req[a].pc = p
Proceed(a, p) == req' = [req EXCEPT ![a].pc = p]
End(a) == req' = [req EXCEPT ![a] = NoRequest]
SettingsStep == UNCHANGED screen

\* What the page shows: the slots without their keys, or the old columns.
Masked(list) ==
    IF list # <<>> THEN [i \in DOMAIN list |-> [list[i] EXCEPT !.key = NoKey]]
    ELSE IF newest # 1 THEN <<>>
    ELSE [i \in DOMAIN Legacy |-> [id |-> NoId, model |-> Legacy[i], key |-> NoKey]]
Shown(list) == [list |-> Masked(list), open |-> TRUE, fresh |-> TRUE, edits |-> 0]

\* GET: the row is read; slots without an id are given one ...
Load(a) ==
    /\ At(a, "idle")
    /\ LET old == ListOf(newest)
           new == WithIds(old, ids) IN
       /\ new.ids <= MaxIds
       /\ page' = [page EXCEPT ![a] = Shown(new.out)]
       /\ ids' = new.ids
       /\ req' = IF newest = None \/ new.out = old THEN req
                 ELSE [req EXCEPT ![a] = [@ EXCEPT !.pc = "fill", !.row = newest,
                                                   !.stored = new.out]]
    /\ UNCHANGED <<rows, newest, saves, lastSaved, raced>> /\ SettingsStep

\* The list of a row is written; the pages of the others are out of date.
WriteList(x, list) ==
    /\ rows' = Put(x, [slots |-> list, rules |-> RulesOf(x)])
    /\ newest' = x
OthersOutOfDate(a) == [b \in Admins |-> IF b = a THEN page[b] ELSE [page[b] EXCEPT !.fresh = FALSE]]

\* ... and the list that was read is written back with them.
Fill(a) ==
    /\ At(a, "fill")
    /\ WriteList(req[a].row, req[a].stored)
    /\ page' = OthersOutOfDate(a)
    /\ End(a)
    /\ UNCHANGED <<ids, saves, lastSaved, raced>> /\ SettingsStep

\* A failure of that UPDATE is ignored: the page shows ids that are not stored.
FillFails(a) ==
    /\ At(a, "fill")
    /\ page' = [page EXCEPT ![a].fresh = FALSE]
    /\ End(a)
    /\ UNCHANGED <<rows, newest, ids, saves, lastSaved, raced>> /\ SettingsStep

\* The user removes a slot, adds one with its key, types a key again, or moves
\* a slot down.
Edited(list) ==
    {RemoveAt(list, i) : i \in DOMAIN list}
    \cup {Append(list, [id |-> NoId, model |-> m, key |-> m]) :
             m \in Models \ {list[i].model : i \in DOMAIN list}}
    \cup {[list EXCEPT ![i].key = list[i].model] : i \in DOMAIN list}
    \cup {[list EXCEPT ![i] = list[i + 1], ![i + 1] = list[i]] : i \in 1..(Len(list) - 1)}

Edit(a) ==
    /\ At(a, "idle") /\ page[a].open /\ page[a].edits < MaxEdits
    /\ \E new \in Edited(page[a].list) :
          /\ new # page[a].list
          /\ page' = [page EXCEPT ![a].list = new, ![a].edits = @ + 1]
    /\ UNCHANGED <<rows, newest, req, ids, saves, lastSaved, raced>> /\ SettingsStep

Begin(a, p, rules) ==
    /\ At(a, "idle")
    /\ saves < MaxSaves /\ saves' = saves + 1
    /\ req' = [req EXCEPT ![a] = [NoRequest EXCEPT !.pc = p, !.rules = rules]]

Save(a) ==
    /\ page[a].open /\ Begin(a, "find", NoRules)
    /\ UNCHANGED <<rows, newest, page, ids, lastSaved, raced>> /\ SettingsStep

\* PUT: SELECT the id of the newest row ...
Find(a) ==
    /\ At(a, "find") \/ At(a, "findRules")
    /\ req' = [req EXCEPT ![a].row = newest,
                          ![a].pc = IF At(a, "findRules") THEN "writeRules"
                                    ELSE IF newest = None THEN "write" ELSE "read"]
    /\ UNCHANGED <<rows, newest, page, ids, saves, lastSaved, raced>> /\ SettingsStep

\* ... SELECT its list ...
Read(a) ==
    /\ At(a, "read")
    /\ req' = [req EXCEPT ![a].stored = ListOf(req[a].row), ![a].pc = "write"]
    /\ UNCHANGED <<rows, newest, page, ids, saves, lastSaved, raced>> /\ SettingsStep

\* A failure of this SELECT is taken for a list without slots.
ReadFails(a) ==
    /\ At(a, "read")
    /\ req' = [req EXCEPT ![a].stored = <<>>, ![a].pc = "unread"]
    /\ UNCHANGED <<rows, newest, page, ids, saves, lastSaved, raced>> /\ SettingsStep

\* ... merge, and UPDATE the row or INSERT one.  handleSave leaves out slots
\* that have neither a key nor an id; those of the old columns are sent.
Target(a, x) == IF req[a].row # None THEN x = req[a].row ELSE Fresh(x)
Write(a) ==
    /\ At(a, "write") \/ At(a, "unread")
    /\ LET new == MergeLlmSlots(req[a].stored, page[a].list, ids) IN
       /\ new.ids <= MaxIds
       /\ \E x \in RowIds : Target(a, x) /\ WriteList(x, new.out)
       /\ ids' = new.ids
    /\ page' = [OthersOutOfDate(a) EXCEPT ![a] = Closed]
    /\ raced' = (raced \/ (req[a].row = None /\ newest # None))
    /\ End(a)
    /\ UNCHANGED <<saves, lastSaved>> /\ SettingsStep

\* PUT of the rules: SELECT the id of the newest row, then UPDATE or INSERT.
SaveRules(a) ==
    /\ \E rules \in RuleChoices : Begin(a, "findRules", rules)
    /\ UNCHANGED <<rows, newest, page, ids, lastSaved, raced>> /\ SettingsStep

WriteRules(a) ==
    /\ At(a, "writeRules")
    /\ \E x \in RowIds :
          /\ Target(a, x)
          /\ rows' = Put(x, [slots |-> SlotsOf(x), rules |-> req[a].rules])
          /\ newest' = x
    /\ lastSaved' = req[a].rules
    /\ raced' = (raced \/ (req[a].row = None /\ newest # None))
    /\ End(a)
    /\ UNCHANGED <<page, ids, saves>> /\ SettingsStep

-----------------------------------------------------------------------------
(* The screening *)

ScreenStep == UNCHANGED <<rows, newest, page, req, ids, saves, lastSaved, raced>>
Screening(p) == screen.pc = p

\* getPositionContext: the rules of the system, none if the SELECT fails ...
BeginScreening(rules, unread) ==
    /\ Screening("idle")
    /\ screen' = [screen EXCEPT !.pc = "position", !.rules = rules,
                     !.asRead = lastSaved, !.unread = unread]
    /\ ScreenStep
ReadRules == BeginScreening(RulesOf(newest), {})
RulesFail == BeginScreening(NoRules, {"system"})

\* ... and those of the position that the name leads to.  A failed SELECT of the
\* position leaves the rules of the system.
ReadPosition ==
    /\ Screening("position")
    /\ \E own \in RuleChoices \cup {NoRules} :
          screen' = [screen EXCEPT !.pc = "ask", !.own = own,
                        !.rules = Resolved(@, own, Builtin)]
    /\ ScreenStep

PositionFails ==
    /\ Screening("position")
    /\ \E own \in RuleChoices \cup {NoRules} :
          screen' = [screen EXCEPT !.pc = "ask", !.own = own, !.unread = @ \cup {"position"},
                        !.rules = Resolved(@, NoRules, Builtin)]
    /\ ScreenStep

\* callAIWithMetadata and parseStructuredOutput: an answer that is not complete
\* is sent back once to be repaired, and the repaired one must be.
Usable == {x \in {Effective(answer) : answer \in Answers} : Complete(x)}

\* The second question is on the dimensions alone; its failure is ignored.
Supplements == {x \in {answer.outer : answer \in Answers} : Complete(x)} \cup {Empty}

\* The first answer that is usable, and what the second question makes of it.
Evaluations == {[primary |-> p, merged |-> Merged(p, x)] : p \in Usable, x \in Supplements}

\* The rest reads nothing that these requests write, so it is one step: the two
\* questions, the position's weights, requireCompleteScreeningEvaluation,
\* enrichScreeningEvaluation and the UPDATE.
Judge ==
    /\ Screening("ask")
    /\ \E e \in Evaluations, weights \in WeightChoices :
          LET scores == Normalized(e.merged) IN
          /\ Complete(e.merged)
          /\ screen' = [NoScreening EXCEPT !.pc = "saved", !.rules = screen.rules,
                !.primary = e.primary, !.scores = scores, !.weights = weights,
                !.verdict = IF Passes(scores, weights, screen.rules) THEN "passed" ELSE "not passed"]
    /\ ScreenStep

\* No configuration answers, or neither the answer nor its repair is complete.
GiveUp ==
    /\ Screening("ask")
    /\ screen' = [NoScreening EXCEPT !.pc = "failed"]
    /\ ScreenStep

Next ==
    \/ \E a \in Admins :
          \/ Load(a) \/ Fill(a) \/ FillFails(a) \/ Edit(a) \/ Save(a) \/ Find(a) \/ Read(a)
          \/ ReadFails(a) \/ Write(a) \/ SaveRules(a) \/ WriteRules(a)
    \/ ReadRules \/ RulesFail \/ ReadPosition \/ PositionFails \/ Judge \/ GiveUp

Spec == Init /\ [][Next]_vars

-----------------------------------------------------------------------------
(* Types *)

\* The values every variable ranges over; a saved score is one of 0 to 5.
RowTypeOK ==
    /\ DOMAIN rows \subseteq RowIds
    /\ \A x \in DOMAIN rows :
        /\ rows[x].slots = Unset \/ rows[x].slots \in SlotLists
        /\ rows[x].rules \in RuleChoices \cup {NoRules}
RequestTypeOK ==
    \A a \in Admins :
        /\ req[a].pc \in Pcs /\ req[a].row \in RowIds \cup {None}
        /\ req[a].stored \in SlotLists /\ page[a].list \in SlotLists
ScreenTypeOK ==
    /\ screen.pc \in {"idle", "position", "ask", "saved", "failed"}
    /\ screen.rules \in Rules \cup {NoRules}
    /\ screen.pc = "saved" => screen.scores \in [Dimensions -> ScoreRange]
TypeOK ==
    /\ RowTypeOK /\ RequestTypeOK /\ ScreenTypeOK
    /\ newest \in RowIds \cup {None}
    /\ ids \in 0..MaxIds /\ saves \in 0..MaxSaves /\ raced \in BOOLEAN

-----------------------------------------------------------------------------
(* Properties *)

\* A save from a page that is up to date, when the stored list could be read, leaves
\* exactly the models of the page, each with the key that was typed, or else the one
\* stored for it before, though the page never saw the keys, and whatever was removed,
\* added or moved.  Models of the old columns have no key to keep.
ModelsOf(list) == {list[i].model : i \in DOMAIN list}
Sent(list) == {list[i].model : i \in {j \in DOMAIN list : list[j].key # NoKey \/ list[j].id # NoId}}
Saving(a) == At(a, "write") /\ req'[a].pc = "idle"
Meant(s, stored) ==
    IF s.key # NoKey THEN {s.key}
    ELSE {stored[i].key : i \in {j \in SameId(stored, s) : stored[j].model = s.model}}
KeysKept(new, sent, stored) ==
    \A i \in DOMAIN new : \E k \in DOMAIN sent :
        new[i].model = sent[k].model /\ new[i].key \in Meant(sent[k], stored)
SaveKeepsModels ==
    [][\A a \in Admins : Saving(a) /\ page[a].fresh /\ ~raced' =>
          /\ KeysKept(rows'[newest'].slots, page[a].list, ListOf(newest))
          /\ ModelsOf(rows'[newest'].slots) = Sent(page[a].list)]_vars

\* A verdict is given by the rules of the position, or else those of the system that
\* were saved last when the screening began, or else the builtin ones; rules whose
\* SELECT failed count as none, so that a verdict by the next ones is saved silently.
\* Two first saves that raced are set aside.  The verdict rests on the scores of the
\* first complete answer, none of them missing, and it is what the rules say of the
\* exact mean, half a tenth more being given to the candidate.
AsFound(part, rules) == IF part \in screen.unread THEN NoRules ELSE rules
Deserved(scores, weights, rules) ==
    LET w == Weights(weights) IN
    /\ scores[Keyword] >= rules.keyword /\ scores[RedFlag] >= rules.red
    /\ 20 * Weighed(scores, w) >= (2 * rules.weighted - 1) * Total(w)
VerdictStands ==
    /\ screen.pc = "ask" =>
        \/ raced
        \/ screen.rules = Resolved(AsFound("system", screen.asRead),
                                   AsFound("position", screen.own), Builtin)
    /\ screen.pc = "saved" =>
        /\ Complete(screen.primary)
        /\ \A d \in Dimensions : screen.scores[d] = Clamped(screen.primary[d])
        /\ screen.verdict = "passed"
           <=> Deserved(screen.scores, screen.weights, screen.rules)

=============================================================================
