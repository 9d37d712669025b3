------------------------- MODULE AttributeDictionary -------------------------
(* The attributes of one stretch of text: AttributeDictionary.c over the       *)
(* sorted item list of SBAttributeList.c, with the retain, release and equal   *)
(* callbacks of SBAttributeRegistry.c.                                         *)
(*                                                                             *)
(* A dictionary is a sequence of items [id, value]. An operation that takes a  *)
(* registry takes refs here, how often each value is retained, and returns it  *)
(* with the dictionary; NoRegistry stands for the NULL registry of a           *)
(* dictionary that borrows its values.                                         *)
EXTENDS Integers, Sequences, SequencesExt

CONSTANTS Infos,    \* the registered attributes: a sequence of [scope, group]
          Values    \* the values that clients attach

ASSUME InfosAssumption ==
    /\ Infos \in Seq([scope : {"character", "paragraph"}, group : Nat \ {0}])
    /\ Values # {}

AttributeIDs == 1..Len(Infos)
GroupNone == 0                      \* SBAttributeGroupNone
NoRegistry == <<>>

(* No value is retained yet. *)
NoneRetained == [v \in Values |-> 0]

(* The callbacks; with the NULL registry neither is called. *)
Retain(refs, v) == IF refs = NoRegistry THEN refs ELSE [refs EXCEPT ![v] = @ + 1]
Release(refs, v) == IF refs = NoRegistry THEN refs ELSE [refs EXCEPT ![v] = @ - 1]
IsEqualAttribute(v, w) == v = w

InsertsLast(dict, id) ==
    [index |-> Len(dict) + 1, found |-> FALSE]

(* Where id is in the list, or where it has to be inserted. *)
BinarySearchIndex(dict, id) ==
    LET search[range \in (0..Len(dict)) \X (0..Len(dict))] ==
            LET low == range[1]
                high == range[2]
                mid == low + ((high - low) \div 2)
                at == dict[mid + 1].id
            IN  IF low >= high THEN [index |-> low + 1, found |-> FALSE]
                ELSE IF at = id THEN [index |-> mid + 1, found |-> TRUE]
                ELSE IF at < id THEN search[<<mid + 1, high>>]
                ELSE search[<<low, mid>>]
    IN  search[<<0, Len(dict)>>]

CheckAttributeMatchesFilter(item, scope, group) ==
    /\ Infos[item.id].scope = scope
    /\ group # GroupNone => Infos[item.id].group = group

ReleaseAll(refs, dict) ==
    FoldLeft(LAMBDA r, item : Release(r, item.value), refs, dict)

(* AttributeDictionarySet: what the references are once `dict`, which holds old, *)
(* has become a copy of other.                                                   *)
RefsAfterSet(refs, old, other) ==
    FoldLeft(LAMBDA r, item : Retain(r, item.value), ReleaseAll(refs, old), other)

ForgetsPrevious(dict, refs, id, value) ==
    LET at == BinarySearchIndex(dict, id)
    IN  [dict |-> IF at.found THEN [dict EXCEPT ![at.index].value = value]
                  ELSE InsertAt(dict, at.index, [id |-> id, value |-> value]),
         refs |-> Retain(refs, value),
         unchanged |-> at.found /\ IsEqualAttribute(dict[at.index].value, value)]

Put(dict, refs, id, value) ==
    LET at == BinarySearchIndex(dict, id)
        previous == dict[at.index].value
    IN  IF at.found
        THEN [dict |-> [dict EXCEPT ![at.index].value = value],
              refs |-> Release(Retain(refs, value), previous),
              unchanged |-> IsEqualAttribute(previous, value)]
        ELSE [dict |-> InsertAt(dict, at.index, [id |-> id, value |-> value]),
              refs |-> Retain(refs, value),
              unchanged |-> FALSE]

Merge(dict, refs, other) ==
    FoldLeft(LAMBDA s, item :
                LET put == Put(s.dict, s.refs, item.id, item.value)
                IN  [put EXCEPT !.unchanged = @ /\ s.unchanged],
             [dict |-> dict, refs |-> refs, unchanged |-> TRUE], other)

RemoveItem(dict, refs, id) ==
    LET at == BinarySearchIndex(dict, id)
    IN  IF at.found
        THEN [dict |-> RemoveAt(dict, at.index),
              refs |-> Release(refs, dict[at.index].value),
              unchanged |-> FALSE]
        ELSE [dict |-> dict, refs |-> refs, unchanged |-> TRUE]

(* The items of dict that pass the filter, borrowed, are collected one by one. *)
Filter(dict, scope, group) ==
    FoldLeft(LAMBDA kept, item : IF CheckAttributeMatchesFilter(item, scope, group)
                                 THEN Append(kept, item) ELSE kept,
             <<>>, dict)

(* The value of id in a set of at most one element: empty where the code has NULL. *)
FindValue(dict, id) ==
    LET at == BinarySearchIndex(dict, id)
    IN  IF at.found THEN {dict[at.index].value} ELSE {}

MatchAny(dict, scope, group) ==
    \E i \in DOMAIN dict : CheckAttributeMatchesFilter(dict[i], scope, group)

MatchesItsOwn(dict, other, scope, group) ==
    \A i \in DOMAIN dict : CheckAttributeMatchesFilter(dict[i], scope, group) =>
        \E j \in DOMAIN other : dict[i] = other[j]

(* The two lists are walked together; the items that do not pass are skipped. *)
MatchAll(dict, other, scope, group) ==
    LET passes(item) == CheckAttributeMatchesFilter(item, scope, group)
        walk[i \in 1..(Len(dict) + 1), j \in 1..(Len(other) + 1)] ==
            IF i <= Len(dict) /\ j <= Len(other)
            THEN IF ~passes(dict[i]) THEN walk[i + 1, j]
                 ELSE IF ~passes(other[j]) THEN walk[i, j + 1]
                 ELSE /\ dict[i].id = other[j].id
                      /\ IsEqualAttribute(dict[i].value, other[j].value)
                      /\ walk[i + 1, j + 1]
            ELSE /\ \A k \in i..Len(dict) : ~passes(dict[k])
                 /\ \A k \in j..Len(other) : ~passes(other[k])
    IN  walk[1, 1]
==============================================================================
