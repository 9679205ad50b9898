------------------------------- MODULE LlmSlots -------------------------------
(***************************************************************************)
(* mergeLlmSlots: what the saved list of model configurations becomes when *)
(* the page sends its own.  The page never sees a key; a slot it sends     *)
(* without one keeps the key that is stored.  A slot is a record of an id  *)
(* (NoId when it has none), a model (with its address) and a key.          *)
(***************************************************************************)
EXTENDS Integers, Sequences, SequencesExt

CONSTANTS Models, NoKey

NoId == 0

\* A model's key is named as the model: any other is a wrong key.
Slots(maxId) == [id : NoId..maxId, model : Models, key : Models \cup {NoKey}]

\* Mutant of StoredKey: keys are taken by position alone.
StoredKeyByPosition(stored, s, next) ==
    IF next <= Len(stored) THEN stored[next].key ELSE NoKey

SameId(stored, s) == {i \in DOMAIN stored : s.id # NoId /\ stored[i].id = s.id}

KeyById(stored, s) ==
    IF SameId(stored, s) = {} THEN NoKey ELSE stored[Max(SameId(stored, s))].key

\* The key for a slot that came without: that of the same id, or else that of
\* the stored slot at the place of the next one that was not found by its id.
StoredKey(stored, s, next) ==
    IF KeyById(stored, s) # NoKey THEN KeyById(stored, s)
    ELSE IF next <= Len(stored) THEN stored[next].key ELSE NoKey

\* One slot of the request.  acc.next counts the slots that were not found by
\* their id; without a key, and when the same configuration is already there,
\* the slot is dropped.
MergeSlot(stored, acc, s) ==
    LET byId == s.key = NoKey /\ KeyById(stored, s) # NoKey
        key == IF s.key # NoKey THEN s.key ELSE StoredKey(stored, s, acc.next)
        known == SameId(stored, s) # {}
        same == \E i \in DOMAIN acc.out : acc.out[i].model = s.model /\ acc.out[i].key = key
        next == IF byId THEN acc.next ELSE acc.next + 1
    IN  IF key = NoKey \/ same THEN [acc EXCEPT !.next = next]
        ELSE [out |-> Append(acc.out, [id |-> IF known THEN s.id ELSE acc.ids + 1,
                                       model |-> s.model, key |-> key]),
              next |-> next,
              ids |-> IF known THEN acc.ids ELSE acc.ids + 1]

\* The merged list and the last id given; ids is the last one given before.
MergeLlmSlots(stored, incoming, ids) ==
    FoldLeft(LAMBDA acc, s : MergeSlot(stored, acc, s),
             [out |-> <<>>, next |-> 1, ids |-> ids], incoming)

\* GET: slots without an id get one.
WithIds(stored, ids) ==
    FoldLeft(LAMBDA acc, s : IF s.id # NoId THEN [acc EXCEPT !.out = Append(@, s)]
                             ELSE [out |-> Append(acc.out, [s EXCEPT !.id = acc.ids + 1]),
                                   ids |-> acc.ids + 1],
             [out |-> <<>>, ids |-> ids], stored)

=============================================================================
