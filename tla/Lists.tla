------------------------------- MODULE Lists -------------------------------
(* Lists as the threads pass them on: what is in a list, whether anything is   *)
(* there twice, its order, and the loop that takes the elements that qualify.  *)
EXTENDS Integers, Sequences

In(x, q) == \E i \in 1 .. Len(q) : q[i] = x

Elements(q) == {q[i] : i \in 1 .. Len(q)}

Distinct(q) == \A i, j \in 1 .. Len(q) : i # j => q[i] # q[j]

Ascending(q) == \A i, j \in 1 .. Len(q) : i < j => q[i] < q[j]

\* All of S come before all of T.
Before(S, T) == \A a \in S, b \in T : a < b

\* The elements of the list s that are in the set G, in their order.
Pick(s, G) ==
    LET picked[i \in 0 .. Len(s)] ==
            IF i = 0 THEN <<>>
            ELSE IF s[i] \in G THEN Append(picked[i - 1], s[i]) ELSE picked[i - 1]
    IN  picked[Len(s)]

\* p consists of those of the first n elements of s that are in G: h says where in s
\* each element of p stands.
PickedFrom(p, h, s, G, n) ==
    /\ h \in [1 .. Len(p) -> 1 .. n]
    /\ \A k \in 1 .. Len(p) : p[k] = s[h[k]] /\ p[k] \in G
    /\ \A k, l \in 1 .. Len(p) : k < l => h[k] < h[l]
    /\ \A j \in 1 .. n : s[j] \in G => \E k \in 1 .. Len(p) : h[k] = j

\* What the loop promises for every list: it takes exactly the elements in G and
\* keeps their order.
PicksRight ==
    \A X : \A s \in Seq(X) : \A G :
        Pick(s, G) \in Seq(X) /\ \E h : PickedFrom(Pick(s, G), h, s, G, Len(s))
=============================================================================
