----------------------------- MODULE RangeList -----------------------------
(***************************************************************************)
(* Range lists (libs/sgeobj/sge_range.cc): the sequences of min-max:step   *)
(* ranges in which qmaster keeps the ids of the array tasks that have no   *)
(* element of their own yet.  Every operator is named after the function   *)
(* it models; a null list is the empty sequence.                           *)
(***************************************************************************)
EXTENDS SequencesExt

\* The ids of a range, by walking from its start in steps to its end.
Ids(r) == {r.min + k * r.step : k \in 0..((r.max - r.min) \div r.step)}

\* What a list stands for: the set its operations are measured against.
IdsOf(l) == UNION {Ids(l[i]) : i \in DOMAIN l}

\* Apply op for the ids of S in ascending order.
OverIds(op(_, _), base, S) ==
    LET upTo[n \in Nat] == IF n = 0 THEN base
                           ELSE IF n \in S THEN op(upTo[n - 1], n) ELSE upTo[n - 1]
    IN upTo[Max({0} \cup S)]

\* Apply op for the ids of l, range by range, as the loops over lists do.
OverList(op(_, _), base, l) ==
    FoldLeft(LAMBDA acc, r : OverIds(op, acc, Ids(r)), base, l)

range_set_all_ids(min, max, step) ==
    [min |-> min, max |-> max, step |-> IF min = max THEN 1 ELSE step]

range_correct_end(r) ==
    range_set_all_ids(r.min, r.min + ((r.max - r.min) \div r.step) * r.step, r.step)

range_is_id_within(r, id) ==
    r.min <= id /\ id <= r.max /\ (id - r.min) % r.step = 0

range_list_is_id_within(l, id) == \E i \in DOMAIN l : range_is_id_within(l[i], id)

range_list_get_number_of_ids(l) ==
    FoldLeft(LAMBDA n, r : n + 1 + (r.max - r.min) \div r.step, 0, l)

range_list_get_first_id(l) == IF l = <<>> THEN 0 ELSE Head(l).min

range_list_get_last_id(l) == IF l = <<>> THEN 0 ELSE Last(l).max

-----------------------------------------------------------------------------
\* The range that range_list_compress makes of two neighbours, if it joins them.
Joined(r1, r2) ==
    LET single1 == r1.min = r1.max /\ r1.step = 1
        single2 == r2.min = r2.max /\ r2.step = 1
    IN IF r1.max + r1.step = r2.min /\ r1.step = r2.step
       THEN {range_set_all_ids(r1.min, r2.max, r2.step)}
       ELSE IF single1 /\ r1.max = r2.min - r2.step
       THEN {range_set_all_ids(r1.min, r2.max, r2.step)}
       ELSE IF single2 /\ r1.max + r1.step = r2.max
       THEN {range_set_all_ids(r1.min, r2.max, r1.step)}
       ELSE IF single1 /\ single2
       THEN {range_set_all_ids(r1.min, r2.min, r2.min - r1.min)}
       ELSE {}

range_list_compress(l) ==
    FoldLeft(LAMBDA acc, r :
                 IF acc = <<>> \/ Joined(Last(acc), r) = {} THEN Append(acc, r)
                 ELSE Front(acc) \o <<CHOOSE j \in Joined(Last(acc), r) : TRUE>>,
             <<>>, l)

-----------------------------------------------------------------------------
ByMin(l) == SortSeq(l, LAMBDA r1, r2 : r1.min < r2.min)

\* A range cut in two around an id that is not on its grid.
SplitAround(r, id) ==
    LET below == r.min + ((id - r.min) \div r.step) * r.step
    IN <<range_set_all_ids(r.min, below, r.step), range_set_all_ids(id, id, 1),
         range_set_all_ids(below + r.step, r.max, r.step)>>

\* k is the last range that ends at or before id; k + 1, if there is one, ends
\* behind it.
range_list_insert_id(l, id) ==
    LET s == ByMin(l)
        k == Max({0} \cup {i \in DOMAIN s : s[i].max <= id})
        hasNext == k < Len(s)
        next == s[k + 1]
    IN IF hasNext /\ id > next.min
       THEN IF (id - next.min) % next.step = 0 THEN s
            ELSE SubSeq(s, 1, k) \o SplitAround(next, id) \o SubSeq(s, k + 2, Len(s))
       ELSE IF (k > 0 /\ s[k].max = id) \/ (hasNext /\ next.min = id) THEN s
       ELSE IF k > 0 /\ s[k].max + s[k].step = id
       THEN [s EXCEPT ![k] = range_set_all_ids(@.min, id, @.step)]
       ELSE IF hasNext /\ next.min - next.step = id
       THEN [s EXCEPT ![k + 1] = range_set_all_ids(id, @.max, @.step)]
       ELSE InsertAt(s, k + 1, range_set_all_ids(id, id, 1))

\* What is left of a range without one of its ids.
Without(r, id) ==
    IF id = r.min /\ (id = r.max \/ id + r.step > r.max) THEN <<>>
    ELSE IF id = r.min THEN <<range_set_all_ids(r.min + r.step, r.max, r.step)>>
    ELSE IF id = r.max THEN <<range_set_all_ids(r.min, r.max - r.step, r.step)>>
    ELSE <<range_set_all_ids(r.min, id - r.step, r.step),
           range_set_all_ids(id + r.step, r.max, r.step)>>

range_list_remove_id(l, id) ==
    LET i == SelectInSeq(l, LAMBDA r : range_is_id_within(r, id))
    IN IF i = 0 THEN l
       ELSE SubSeq(l, 1, i - 1) \o Without(l[i], id) \o SubSeq(l, i + 1, Len(l))

-----------------------------------------------------------------------------
\* Ranges that overlap the one kept before them are taken out and their ids put
\* back one by one.
range_list_sort_uniq_compress(l) ==
    LET s == ByMin([i \in DOMAIN l |-> range_correct_end(l[i])])
        parted == FoldLeft(LAMBDA acc, r :
                               IF acc.kept # <<>> /\ Last(acc.kept).max >= r.min
                               THEN [acc EXCEPT !.out = Append(@, r)]
                               ELSE [acc EXCEPT !.kept = Append(@, r)],
                           [kept |-> <<>>, out |-> <<>>], s)
    IN range_list_compress(OverList(range_list_insert_id, parted.kept, parted.out))

range_list_calculate_union_set(l1, l2) ==
    IF l1 = <<>> THEN range_list_sort_uniq_compress(l2)
    ELSE range_list_compress(OverList(range_list_insert_id,
                                      range_list_sort_uniq_compress(l1), l2))

range_list_calculate_difference_set(l1, l2) ==
    range_list_compress(OverList(range_list_remove_id,
                                 range_list_sort_uniq_compress(l1), l2))

range_list_calculate_intersection_set(l1, l2) ==
    range_list_compress(
        OverList(LAMBDA acc, id :
                     IF range_list_is_id_within(l2, id)
                     THEN Append(acc, range_set_all_ids(id, id, 1)) ELSE acc,
                 <<>>, l1))

\* The list range_list_move_first_n_ids fills with the ids it takes off l, n > 0.
\* The break at n = 0 leaves the loop over one range only, and the unsigned n
\* wraps at the next id: every id of the ranges that follow is moved as well.
range_list_move_first_n_ids(l, n) ==
    FoldLeft(LAMBDA acc, r :
                 LET first == {id \in Ids(r) : acc.n = 0 \/ (id - r.min) \div r.step < acc.n}
                 IN [n |-> Max({0, acc.n - Cardinality(Ids(r))}),
                     list |-> OverIds(LAMBDA to, id :
                                          range_list_compress(range_list_insert_id(to, id)),
                                      acc.list, first)],
             [n |-> n, list |-> <<>>], l).list

=============================================================================
