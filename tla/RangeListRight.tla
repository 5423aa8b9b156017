--------------------------- MODULE RangeListRight ---------------------------
(* What the operators of RangeList do to every range list with ids up to     *)
(* MaxId, measured against the set of ids a list stands for.  TLC evaluates  *)
(* the assumptions at the start of the runs whose module extends this one.   *)
EXTENDS RangeList

MaxId == 6

RangesUpTo(n) ==
    {range_set_all_ids(min, max, step) : min \in 1..n, max \in 1..n, step \in 1..n}

\* A range that range_correct_end leaves alone.
SoundRange(r) == r.min <= r.max /\ (r.max - r.min) % r.step = 0 /\ (r.min = r.max => r.step = 1)

\* Separate ranges in ascending order, as range_list_insert_id, the first and the
\* last id of a list and the counting of its ids rely on.
Sound(l) == \A i \in DOMAIN l : /\ SoundRange(l[i])
                                /\ i > 1 => l[i - 1].max < l[i].min

SoundLists == {l \in BoundedSeq({r \in RangesUpTo(MaxId) : SoundRange(r)}, 3) : Sound(l)}

\* However an id is put into or taken out of a list, the list stays sound after
\* range_list_compress, and has exactly that id more or less.
ASSUME InsertAndRemoveRight ==
    \A l \in SoundLists, id \in 1..MaxId :
        LET more == range_list_compress(range_list_insert_id(l, id))
            less == range_list_compress(range_list_remove_id(l, id))
        IN /\ Sound(more) /\ IdsOf(more) = IdsOf(l) \cup {id}
           /\ Sound(less) /\ IdsOf(less) = IdsOf(l) \ {id}
           /\ range_list_is_id_within(l, id) <=> id \in IdsOf(l)

\* Counts and ends of a list are those of its set, and two ranges that
\* range_list_compress joins have the ids of both.
ASSUME CountsRight ==
    \A l \in SoundLists :
        /\ range_list_get_number_of_ids(l) = Cardinality(IdsOf(l))
        /\ l # <<>> => /\ range_list_get_first_id(l) = Min(IdsOf(l))
                       /\ range_list_get_last_id(l) = Max(IdsOf(l))
        /\ Sound(range_list_compress(l)) /\ IdsOf(range_list_compress(l)) = IdsOf(l)

\* Union, difference and intersection of two lists, of up to two ranges each, are
\* those of their sets.
ASSUME SetOperationsRight ==
    \A l1, l2 \in {l \in SoundLists : Len(l) <= 2} :
        LET union == range_list_calculate_union_set(l1, l2)
            difference == range_list_calculate_difference_set(l1, l2)
            intersection == range_list_calculate_intersection_set(l1, l2)
        IN /\ Sound(union) /\ IdsOf(union) = IdsOf(l1) \cup IdsOf(l2)
           /\ Sound(difference) /\ IdsOf(difference) = IdsOf(l1) \ IdsOf(l2)
           /\ Sound(intersection) /\ IdsOf(intersection) = IdsOf(l1) \cap IdsOf(l2)

\* The first n ids of a list of one range are moved for the -tc limit.
ASSUME MoveFirstRight ==
    \A l \in {x \in SoundLists : Len(x) = 1}, n \in 1..MaxId :
        IdsOf(range_list_move_first_n_ids(l, n)) =
            {id \in IdsOf(l) : Cardinality({x \in IdsOf(l) : x < id}) < n}

\* Ranges in any order that may overlap, as a user may write them, are sorted,
\* parted and joined without losing or adding an id.
ASSUME SortUniqRight ==
    \A r1, r2 \in {r \in RangesUpTo(MaxId) : r.min <= r.max} :
        LET sorted == range_list_sort_uniq_compress(<<r1, r2>>)
        IN Sound(sorted) /\ IdsOf(sorted) = Ids(r1) \cup Ids(r2)
=============================================================================
