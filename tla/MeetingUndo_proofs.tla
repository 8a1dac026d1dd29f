-------------------------- MODULE MeetingUndo_proofs ---------------------------
(***************************************************************************)
(* The shared stack of a meeting has what can be undone, in the order in   *)
(* which it was done, and an undo leads back.                              *)
(*                                                                         *)
(* IInv is the inductive invariant.  Numbered is about the stacks of the   *)
(* sources alone: their steps are numbered in the order they were made     *)
(* (Stacked, InTurn) with numbers nobody had before (Bounds), each begins  *)
(* where the one under it ended (Chained), and undoing it leads to what    *)
(* was there (Kept).  Told says what an entry of the list stands for: a    *)
(* step of its source, or participants before and after and the step of    *)
(* the editor it absorbed (Linked).  Mirror says that the list has every   *)
(* step, in the order of time, as long as none was dropped for the limit.  *)
(*                                                                         *)
(* Only is a recursive function: its facts (OnlyPlaces and those after it) *)
(* are shown on the shortest list that would break them (LeastNumber).     *)
(***************************************************************************)
EXTENDS MeetingUndo, WellFoundedInduction, TLAPS

----------------------------------------------------------------------------
(* What Only returns *)

\* A set of numbers that is not empty has a least one.
LEMMA LeastNumber ==
    ASSUME NEW T \in SUBSET Nat, T # {}
    PROVE  \E n \in T : \A m \in T : n <= m
<1> DEFINE R == OpToRel(<, Nat)
<1>1. IsWellFoundedOn(R, Nat)
    BY NatLessThanWellFounded
<1>2. \A m, n \in Nat : <<m, n>> \in R <=> m < n
    BY DEF OpToRel
<1> HIDE DEF R
<1>3. PICK n \in T : \A m \in T : <<m, n>> \notin R
    BY <1>1, WFMin
<1>4. \A m \in T : ~(m < n)
    BY <1>2, <1>3
<1> QED
    BY <1>3, <1>4

\* g holds what is left of the first n, for every n up to m.
LeftOf(g, list, S, m) ==
    g = [n \in 0 .. m |-> IF n = 0 THEN <<>>
                          ELSE IF list[n] \in S THEN Append(g[n - 1], list[n]) ELSE g[n - 1]]

LEMMA LeftExists ==
    ASSUME NEW list, NEW S, NEW m \in Nat
    PROVE  \E g : LeftOf(g, list, S, m)
<1> DEFINE T == {k \in Nat : ~\E g : LeftOf(g, list, S, k)}
<1> SUFFICES ASSUME T # {} PROVE FALSE
    OBVIOUS
<1>1. PICK k \in T : \A j \in T : k <= j
    <2> T \in SUBSET Nat
        OBVIOUS
    <2> HIDE DEF T
    <2> QED BY LeastNumber
<1>2. CASE k = 0
    <2>1. LeftOf([n \in 0 .. 0 |-> <<>>], list, S, 0)
        BY DEF LeftOf
    <2> QED BY <2>1, <1>2
<1>3. CASE k # 0
    <2>1. k - 1 \in Nat /\ k - 1 \notin T
        BY <1>1, <1>3
    <2>2. PICK g : LeftOf(g, list, S, k - 1)
        BY <2>1
    <2> DEFINE last == IF list[k] \in S THEN Append(g[k - 1], list[k]) ELSE g[k - 1]
    <2> DEFINE h == [n \in 0 .. k |-> IF n = k THEN last ELSE g[n]]
    <2>3. \A n \in 0 .. k - 1 : h[n] = g[n]
        BY <2>1
    <2>4. \A n \in 0 .. k - 1 :
            g[n] = IF n = 0 THEN <<>> ELSE IF list[n] \in S THEN Append(g[n - 1], list[n]) ELSE g[n - 1]
        BY <2>2 DEF LeftOf
    <2>5. h[k] = last
        BY <2>1
    <2>6. LeftOf(h, list, S, k)
        <3>1. \A n \in 0 .. k :
                h[n] = IF n = 0 THEN <<>> ELSE IF list[n] \in S THEN Append(h[n - 1], list[n]) ELSE h[n - 1]
            <4> TAKE n \in 0 .. k
            <4>1. CASE n = k
                <5>1. h[k - 1] = g[k - 1]
                    BY <2>3, <2>1
                <5> QED BY <5>1, <2>5, <4>1, <1>3
            <4>2. CASE n # k
                <5>1. n \in 0 .. k - 1 /\ (n # 0 => n - 1 \in 0 .. k - 1)
                    BY <4>2, <2>1
                <5> HIDE DEF h
                <5> QED BY <5>1, <2>3, <2>4
            <4> QED BY <4>1, <4>2
        <3> QED BY <3>1 DEF LeftOf
    <2> QED BY <2>6, <1>1
<1> QED
    BY <1>2, <1>3

LEMMA OnlyIsLeft ==
    ASSUME NEW list, NEW S, Len(list) \in Nat
    PROVE  \E g : LeftOf(g, list, S, Len(list)) /\ Only(list, S) = g[Len(list)]
<1>1. \E g : LeftOf(g, list, S, Len(list))
    BY LeftExists
<1> DEFINE f == CHOOSE g : LeftOf(g, list, S, Len(list))
<1>2. LeftOf(f, list, S, Len(list))
    BY <1>1
<1>3. Only(list, S) = f[Len(list)]
    BY DEF Only, LeftOf
<1> QED BY <1>2, <1>3

\* h says where in list each place of kept comes from: in order, and all of list that is in S.
Places(h, kept, list, S, m) ==
    /\ h \in [1 .. Len(kept) -> 1 .. m]
    /\ \A k \in 1 .. Len(kept) : kept[k] = list[h[k]] /\ kept[k] \in S
    /\ \A j, k \in 1 .. Len(kept) : j < k => h[j] < h[k]
    /\ \A i \in 1 .. m : list[i] \in S => \E k \in 1 .. Len(kept) : h[k] = i

\* All of the first m are left, or fewer than m.
Whole(kept, list, S, m) ==
    IF \A i \in 1 .. m : list[i] \in S
    THEN Len(kept) = m /\ \A k \in 1 .. m : kept[k] = list[k]
    ELSE Len(kept) < m

LEMMA OnlyPlaces ==
    ASSUME NEW A, NEW list \in Seq(A), NEW S
    PROVE  /\ Only(list, S) \in Seq(A) /\ Len(Only(list, S)) <= Len(list)
           /\ Whole(Only(list, S), list, S, Len(list))
           /\ \E h : Places(h, Only(list, S), list, S, Len(list))
<1> DEFINE N == Len(list)
<1>0. N \in Nat
    OBVIOUS
<1>1. PICK g : LeftOf(g, list, S, N) /\ Only(list, S) = g[N]
    BY OnlyIsLeft
<1>2. g[0] = <<>> /\ \A n \in 1 .. N : g[n] = IF list[n] \in S THEN Append(g[n - 1], list[n]) ELSE g[n - 1]
    <2>1. \A n \in 0 .. N :
            g[n] = IF n = 0 THEN <<>> ELSE IF list[n] \in S THEN Append(g[n - 1], list[n]) ELSE g[n - 1]
        BY <1>1 DEF LeftOf
    <2>2. 0 \in 0 .. N /\ \A n \in 1 .. N : n \in 0 .. N /\ n # 0
        BY <1>0
    <2> HIDE DEF N
    <2> QED BY <2>1, <2>2
<1> DEFINE P(n) == g[n] \in Seq(A) /\ Len(g[n]) <= n /\ Whole(g[n], list, S, n) /\ \E h : Places(h, g[n], list, S, n)
<1> DEFINE T == {n \in 0 .. N : ~P(n)}
<1>3. SUFFICES ASSUME T # {} PROVE FALSE
    BY <1>0, <1>1
<1>4. PICK n \in T : \A j \in T : n <= j
    <2> T \in SUBSET Nat
        BY <1>0
    <2> HIDE DEF T
    <2> QED BY LeastNumber, <1>3
<1>5. CASE n = 0
    <2>1. Len(g[0]) = 0
        BY <1>2
    <2>2. Places([k \in 1 .. 0 |-> k], g[0], list, S, 0)
        BY <2>1 DEF Places
    <2>3. g[0] \in Seq(A) /\ Whole(g[0], list, S, 0)
        BY <1>2, <2>1 DEF Whole
    <2>4. P(0)
        BY <2>1, <2>2, <2>3
    <2> QED BY <1>4, <1>5, <2>4
<1>6. CASE n # 0
    <2>1. n \in 1 .. N /\ n - 1 \in 0 .. N /\ n - 1 \notin T
        <3> HIDE DEF P, N
        <3>1. n \in 0 .. N
            OBVIOUS
        <3>2. n - 1 \notin T
            BY <1>4, <1>0, <3>1
        <3> QED BY <1>0, <1>6, <3>1, <3>2
    <2>2. P(n - 1)
        BY <2>1
    <2>3. PICK h : Places(h, g[n - 1], list, S, n - 1)
        BY <2>2
    <2>4. list[n] \in A
        BY <2>1
    <2>5. CASE list[n] \notin S
        <3>1. g[n] = g[n - 1]
            BY <1>2, <2>1, <2>5
        <3>2. Places(h, g[n], list, S, n)
            BY <2>1, <2>2, <2>3, <3>1, <2>5 DEF Places
        <3>3. Whole(g[n], list, S, n)
            BY <3>1, <2>1, <2>2, <2>5 DEF Whole
        <3>4. P(n)
            BY <3>1, <3>2, <3>3, <2>1, <2>2
        <3> QED BY <3>4, <1>4
    <2>6. CASE list[n] \in S
        <3> DEFINE s == g[n - 1]
        <3>1. g[n] = Append(s, list[n])
            BY <1>2, <2>1, <2>6
        <3>2. s \in Seq(A) /\ Len(s) \in Nat /\ Len(s) <= n - 1 /\ Places(h, s, list, S, n - 1)
            /\ Whole(s, list, S, n - 1)
            BY <2>2, <2>3, <2>1
        <3> HIDE DEF s
        <3>3. g[n] \in Seq(A) /\ Len(g[n]) = Len(s) + 1 /\ g[n][Len(s) + 1] = list[n]
            /\ \A k \in 1 .. Len(s) : g[n][k] = s[k]
            BY <3>1, <3>2, <2>4
        <3> DEFINE f == [k \in 1 .. Len(s) + 1 |-> IF k = Len(s) + 1 THEN n ELSE h[k]]
        <3>4. f[Len(s) + 1] = n /\ \A k \in 1 .. Len(s) : f[k] = h[k] /\ h[k] \in 1 .. n - 1
            <4>1. f[Len(s) + 1] = n /\ \A k \in 1 .. Len(s) : f[k] = h[k]
                BY <3>2
            <4>2. \A k \in 1 .. Len(s) : h[k] \in 1 .. n - 1
                BY <3>2 DEF Places
            <4> QED BY <4>1, <4>2
        <3>5. Places(f, g[n], list, S, n)
            <4>1. f \in [1 .. Len(g[n]) -> 1 .. n]
                <5>1. \A k \in 1 .. Len(s) + 1 : f[k] \in 1 .. n
                    <6> HIDE DEF f
                    <6> QED BY <3>2, <3>4, <2>1
                <5> QED BY <5>1, <3>2, <3>3
            <4>2. \A k \in 1 .. Len(g[n]) : g[n][k] = list[f[k]] /\ g[n][k] \in S
                <5> TAKE k \in 1 .. Len(g[n])
                <5>1. CASE k = Len(s) + 1
                    BY <5>1, <3>3, <3>4, <2>6
                <5>2. CASE k \in 1 .. Len(s)
                    <6> HIDE DEF f
                    <6> QED BY <5>2, <3>2, <3>3, <3>4 DEF Places
                <5> QED BY <5>1, <5>2, <3>2, <3>3
            <4>3. \A j, k \in 1 .. Len(g[n]) : j < k => f[j] < f[k]
                <5> HIDE DEF f
                <5> TAKE j, k \in 1 .. Len(g[n])
                <5> HAVE j < k
                <5>1. j \in 1 .. Len(s) /\ f[j] = h[j] /\ f[j] < n
                    BY <3>2, <3>3, <3>4, <2>1
                <5>2. CASE k = Len(s) + 1
                    BY <5>1, <5>2, <3>4
                <5>3. CASE k \in 1 .. Len(s)
                    BY <5>1, <5>3, <3>2, <3>4 DEF Places
                <5> QED BY <5>2, <5>3, <3>2, <3>3
            <4>4. \A i \in 1 .. n : list[i] \in S => \E k \in 1 .. Len(g[n]) : f[k] = i
                <5> HIDE DEF f
                <5> TAKE i \in 1 .. n
                <5>1. CASE i = n
                    BY <5>1, <3>2, <3>3, <3>4
                <5>2. CASE i \in 1 .. n - 1
                    <6> HAVE list[i] \in S
                    <6>1. PICK k \in 1 .. Len(s) : h[k] = i
                        BY <5>2, <3>2 DEF Places
                    <6> QED BY <6>1, <3>2, <3>3, <3>4
                <5> QED BY <5>1, <5>2, <2>1
            <4> HIDE DEF f
            <4> QED BY <4>1, <4>2, <4>3, <4>4 DEF Places
        <3>6. Whole(g[n], list, S, n)
            BY <3>2, <3>3, <2>1, <2>6 DEF Whole
        <3>7. P(n)
            BY <3>2, <3>3, <3>5, <3>6, <2>1
        <3> QED BY <3>7, <1>4
    <2> QED BY <2>5, <2>6
<1> QED
    BY <1>5, <1>6

LEMMA OnlyRange ==
    ASSUME NEW A, NEW list \in Seq(A), NEW S
    PROVE  /\ Only(list, S) \in Seq(A) /\ Len(Only(list, S)) <= Len(list)
           /\ Range(Only(list, S)) = Range(list) \intersect S
<1>1. PICK h : Places(h, Only(list, S), list, S, Len(list))
    BY OnlyPlaces
<1>2. Only(list, S) \in Seq(A) /\ Len(Only(list, S)) <= Len(list)
    BY OnlyPlaces
<1> DEFINE kept == Only(list, S)
<1>3. DOMAIN kept = 1 .. Len(kept) /\ DOMAIN list = 1 .. Len(list)
    BY <1>2
<1> HIDE DEF kept
<1>4. ASSUME NEW x \in Range(kept) PROVE x \in Range(list) \intersect S
    <2>1. PICK k \in 1 .. Len(kept) : x = kept[k]
        BY <1>3 DEF Range
    <2> QED BY <1>1, <1>3, <2>1 DEF Places, Range, kept
<1>5. ASSUME NEW x \in Range(list), x \in S PROVE x \in Range(kept)
    <2>1. PICK i \in 1 .. Len(list) : x = list[i]
        BY <1>3 DEF Range
    <2>2. PICK k \in 1 .. Len(kept) : kept[k] = list[i]
        BY <1>1, <1>5, <2>1 DEF Places, kept
    <2> QED BY <1>3, <2>1, <2>2 DEF Range
<1> QED
    BY <1>2, <1>4, <1>5 DEF kept

\* Nothing goes: the list stays as it is.
LEMMA OnlyAll ==
    ASSUME NEW A, NEW list \in Seq(A), NEW S, Range(list) \subseteq S
    PROVE  Only(list, S) = list
<1>1. \A i \in 1 .. Len(list) : list[i] \in S
    BY DEF Range
<1>2. Only(list, S) \in Seq(A) /\ Whole(Only(list, S), list, S, Len(list))
    BY OnlyPlaces
<1>3. Len(Only(list, S)) = Len(list) /\ \A k \in 1 .. Len(list) : Only(list, S)[k] = list[k]
    BY <1>1, <1>2 DEF Whole
<1> QED
    BY <1>2, <1>3

\* Something goes: the list gets shorter.
LEMMA OnlySome ==
    ASSUME NEW A, NEW list \in Seq(A), NEW S, NEW x \in Range(list), x \notin S
    PROVE  Len(Only(list, S)) < Len(list)
<1>1. ~\A i \in 1 .. Len(list) : list[i] \in S
    BY DEF Range
<1> QED
    BY <1>1, OnlyPlaces DEF Whole

LEMMA OnlyNone ==
    ASSUME NEW A, NEW list \in Seq(A), NEW S, Range(list) \intersect S = {}
    PROVE  Only(list, S) = <<>>
<1>1. Only(list, S) \in Seq(A) /\ Range(Only(list, S)) = {}
    BY OnlyRange
<1>2. \A k \in 1 .. Len(Only(list, S)) : FALSE
    BY <1>1 DEF Range
<1> QED
    BY <1>1, <1>2

\* One is left.
LEMMA OnlyOne ==
    ASSUME NEW A, NEW list \in Seq(A), NEW i \in DOMAIN list, NEW S,
           \A j \in DOMAIN list : list[j] \in S <=> j = i
    PROVE  Only(list, S) = <<list[i]>>
<1> DEFINE kept == Only(list, S)
<1>1. PICK h : Places(h, kept, list, S, Len(list))
    BY OnlyPlaces
<1>2. kept \in Seq(A) /\ Len(kept) \in Nat /\ DOMAIN list = 1 .. Len(list)
    BY OnlyPlaces
<1> HIDE DEF kept
<1>3. \A k \in 1 .. Len(kept) : h[k] = i /\ kept[k] = list[i]
    BY <1>1, <1>2 DEF Places
<1>4. \E k \in 1 .. Len(kept) : TRUE
    BY <1>1, <1>2 DEF Places
<1>5. \A k \in 1 .. Len(kept) : ~(1 < k)
    <2> SUFFICES ASSUME NEW k \in 1 .. Len(kept), 1 < k PROVE FALSE
        OBVIOUS
    <2>1. 1 \in 1 .. Len(kept) /\ h[1] < h[k]
        BY <1>1, <1>2 DEF Places
    <2>2. h[1] = i /\ h[k] = i /\ i \in Nat
        BY <1>2, <1>3, <2>1
    <2> QED BY <2>1, <2>2
<1>6. Len(kept) = 1
    <2>1. Len(kept) # 0
        BY <1>4
    <2>2. Len(kept) \in 1 .. Len(kept)
        BY <1>2, <2>1
    <2> QED BY <1>2, <1>5, <2>1, <2>2
<1>7. kept[1] = list[i]
    BY <1>3, <1>6
<1> QED
    BY <1>2, <1>6, <1>7 DEF kept

\* The numbers in time[list[i].serial] rise along the list.
InOrder(list, time) == \A i, j \in DOMAIN list : i < j => time[list[i].serial] < time[list[j].serial]

LEMMA OnlyInOrder ==
    ASSUME NEW A, NEW list \in Seq(A), NEW S, NEW time, InOrder(list, time)
    PROVE  InOrder(Only(list, S), time)
<1> DEFINE kept == Only(list, S)
<1>1. PICK h : Places(h, kept, list, S, Len(list))
    BY OnlyPlaces
<1>2. DOMAIN kept = 1 .. Len(kept) /\ DOMAIN list = 1 .. Len(list)
    BY OnlyPlaces
<1> HIDE DEF kept
<1> SUFFICES ASSUME NEW j \in 1 .. Len(kept), NEW k \in 1 .. Len(kept), j < k
             PROVE  time[kept[j].serial] < time[kept[k].serial]
    BY <1>2 DEF InOrder, kept
<1>3. h[j] \in DOMAIN list /\ h[k] \in DOMAIN list /\ h[j] < h[k]
    BY <1>1, <1>2 DEF Places
<1>4. kept[j] = list[h[j]] /\ kept[k] = list[h[k]]
    BY <1>1 DEF Places
<1> QED
    BY <1>3, <1>4 DEF InOrder

----------------------------------------------------------------------------
(* What bringing the list up to date does to it *)

\* The entries that stay when the steps of the source are these.
Stay(list, source, steps) == {e \in Range(list) : e.source # source \/ e.serial \in Serials(steps)}

LEMMA EntryIsOne ==
    ASSUME NEW source \in {"speakers", "tags"}, NEW n \in Numbers
    PROVE  Entry(source, n, 0, 0) \in Entries
BY UndoAssumption DEF Entry, Entries, Values, Numbers

LEMMA KnownIn ==
    ASSUME NEW list, NEW source, NEW n
    PROVE  Known(list, source, n) <=>
               \E e \in Range(list) : \/ e.source = source /\ e.serial = n
                                      \/ source = "speakers" /\ e.link = n
BY DEF Known, Range

LEMMA MergedRange ==
    ASSUME NEW list \in Seq(Entries), NEW source \in {"speakers", "tags"},
           NEW T, \A x \in T : x.serial \in Numbers, NEW steps \in Seq(T)
    PROVE  /\ Merged(list, source, steps) \in Seq(Entries)
           /\ Range(Merged(list, source, steps)) \subseteq
                  Stay(list, source, steps) \union {Entry(source, n, 0, 0) : n \in Serials(steps)}
<1> DEFINE unknown == {step \in Range(steps) : ~Known(list, source, step.serial)}
<1> DEFINE kept == Only(list, Stay(list, source, steps))
<1> DEFINE new == Only(steps, unknown)
<1> DEFINE added == [i \in DOMAIN new |-> Entry(source, new[i].serial, 0, 0)]
<1>1. Merged(list, source, steps) = kept \o added
    BY DEF Merged, Stay
<1>2. kept \in Seq(Entries) /\ Range(kept) \subseteq Stay(list, source, steps)
    BY OnlyRange
<1>3. new \in Seq(T) /\ Range(new) \subseteq Range(steps)
    BY OnlyRange
<1>4. \A i \in DOMAIN new : new[i] \in T /\ new[i].serial \in Serials(steps)
    <2> HIDE DEF new
    <2> QED BY <1>3 DEF Range, Serials
<1>5. DOMAIN new = 1 .. Len(new) /\ Len(new) \in Nat
    <2> HIDE DEF new
    <2> QED BY <1>3
<1> HIDE DEF kept, new
<1>6. added \in Seq(Entries)
    <2>1. \A i \in 1 .. Len(new) : Entry(source, new[i].serial, 0, 0) \in Entries
        BY <1>4, <1>5, EntryIsOne
    <2> QED BY <2>1, <1>5
<1>7. Range(added) \subseteq {Entry(source, n, 0, 0) : n \in Serials(steps)}
    BY <1>4 DEF Range
<1> HIDE DEF added
<1>8. kept \o added \in Seq(Entries) /\ Range(kept \o added) \subseteq Range(kept) \union Range(added)
    BY <1>2, <1>6 DEF Range
<1> QED
    BY <1>1, <1>2, <1>7, <1>8

\* No step is new.
LEMMA MergedLess ==
    ASSUME NEW list \in Seq(Entries), NEW source, NEW T, NEW steps \in Seq(T),
           \A x \in Range(steps) : Known(list, source, x.serial)
    PROVE  Merged(list, source, steps) = Only(list, Stay(list, source, steps))
<1> DEFINE unknown == {step \in Range(steps) : ~Known(list, source, step.serial)}
<1> DEFINE kept == Only(list, Stay(list, source, steps))
<1> DEFINE new == Only(steps, unknown)
<1>1. Merged(list, source, steps) = kept \o [i \in DOMAIN new |-> Entry(source, new[i].serial, 0, 0)]
    BY DEF Merged, Stay
<1>2. new = <<>>
    <2>1. Range(steps) \intersect unknown = {}
        OBVIOUS
    <2> HIDE DEF unknown
    <2> QED BY <2>1, OnlyNone
<1>3. kept \in Seq(Entries)
    BY OnlyRange
<1> HIDE DEF kept, new
<1>4. [i \in DOMAIN new |-> Entry(source, new[i].serial, 0, 0)] = <<>>
    BY <1>2
<1>5. kept \o <<>> = kept
    BY <1>3
<1> QED
    BY <1>1, <1>4, <1>5 DEF kept

\* Nothing is new and nothing is gone.
LEMMA MergedSame ==
    ASSUME NEW list \in Seq(Entries), NEW source, NEW T, NEW steps \in Seq(T),
           \A x \in Range(steps) : Known(list, source, x.serial),
           \A e \in Range(list) : e.source = source => e.serial \in Serials(steps)
    PROVE  Merged(list, source, steps) = list
<1>1. Range(list) \subseteq Stay(list, source, steps)
    BY DEF Stay
<1> QED
    BY <1>1, MergedLess, OnlyAll

\* One step is new.
LEMMA MergedOne ==
    ASSUME NEW list \in Seq(Entries), NEW source, NEW T, NEW steps \in Seq(T), NEW i \in DOMAIN steps,
           \A j \in DOMAIN steps : ~Known(list, source, steps[j].serial) <=> j = i
    PROVE  Merged(list, source, steps)
               = Append(Only(list, Stay(list, source, steps)), Entry(source, steps[i].serial, 0, 0))
<1> DEFINE unknown == {step \in Range(steps) : ~Known(list, source, step.serial)}
<1> DEFINE kept == Only(list, Stay(list, source, steps))
<1> DEFINE new == Only(steps, unknown)
<1>1. Merged(list, source, steps) = kept \o [j \in DOMAIN new |-> Entry(source, new[j].serial, 0, 0)]
    BY DEF Merged, Stay
<1>2. new = <<steps[i]>>
    <2>1. \A j \in DOMAIN steps : steps[j] \in unknown <=> j = i
        BY DEF Range
    <2> HIDE DEF unknown
    <2> QED BY <2>1, OnlyOne
<1>3. kept \in Seq(Entries)
    BY OnlyRange
<1> HIDE DEF kept, new
<1>4. [j \in DOMAIN new |-> Entry(source, new[j].serial, 0, 0)] = <<Entry(source, steps[i].serial, 0, 0)>>
    BY <1>2
<1>5. kept \o <<Entry(source, steps[i].serial, 0, 0)>> = Append(kept, Entry(source, steps[i].serial, 0, 0))
    BY <1>3
<1> QED
    BY <1>1, <1>4, <1>5 DEF kept

LEMMA TrimmedList ==
    ASSUME NEW list \in Seq(Entries)
    PROVE  /\ Trimmed(list) \in Seq(Entries) /\ Len(Trimmed(list)) <= MaxEntries
           /\ Range(Trimmed(list)) \subseteq Range(list)
           /\ Len(list) <= MaxEntries => Trimmed(list) = list
           /\ list # <<>> => Last(list) \in Range(Trimmed(list))
<1>0. MaxEntries \in Nat \ {0} /\ Len(list) \in Nat
    BY UndoAssumption
<1>1. CASE Len(list) <= MaxEntries
    <2>1. Trimmed(list) = SubSeq(list, 1, Len(list))
        <3>1. (IF Len(list) > MaxEntries THEN Len(list) - MaxEntries ELSE 0) = 0
            BY <1>0, <1>1
        <3> QED BY <3>1 DEF Trimmed
    <2>2. Trimmed(list) = list
        BY <2>1
    <2>3. list # <<>> => Last(list) \in Range(list)
        BY <1>0 DEF Last, Range
    <2> QED BY <1>0, <1>1, <2>2, <2>3
<1>2. CASE Len(list) > MaxEntries
    <2> DEFINE k == Len(list) - MaxEntries
    <2>1. Trimmed(list) = SubSeq(list, 1 + k, Len(list)) /\ k \in 1 .. Len(list) - 1
        <3>1. (IF Len(list) > MaxEntries THEN Len(list) - MaxEntries ELSE 0) = k
            BY <1>0, <1>2
        <3>2. k \in 1 .. Len(list) - 1
            BY <1>0, <1>2
        <3> HIDE DEF k
        <3> QED BY <3>1, <3>2 DEF Trimmed
    <2> DEFINE t == SubSeq(list, 1 + k, Len(list))
    <2>2. t \in Seq(Entries) /\ Len(t) = MaxEntries /\ \A j \in 1 .. MaxEntries : t[j] = list[j + k]
        BY <1>0, <2>1
    <2>3. Range(t) \subseteq Range(list)
        BY <1>0, <2>1, <2>2 DEF Range
    <2>4. Last(list) = t[MaxEntries] /\ MaxEntries \in DOMAIN t
        BY <1>0, <2>2 DEF Last
    <2>5. Trimmed(list) = t
        BY <2>1
    <2> HIDE DEF t
    <2>6. t[MaxEntries] \in Range(t)
        BY <2>4 DEF Range
    <2> QED BY <1>0, <1>2, <2>2, <2>3, <2>4, <2>5, <2>6
<1> QED
    BY <1>0, <1>1, <1>2

LEMMA RestOfList ==
    ASSUME entries \in Seq(Entries), NEW i \in DOMAIN entries
    PROVE  /\ Rest(i) \in Seq(Entries) /\ Len(Rest(i)) = Len(entries) - 1
           /\ \A k \in 1 .. Len(entries) - 1 : Rest(i)[k] = IF k < i THEN entries[k] ELSE entries[k + 1]
           /\ Range(Rest(i)) = {entries[j] : j \in DOMAIN entries \ {i}}
<1>1. Rest(i) = SubSeq(entries, 1, i - 1) \o SubSeq(entries, i + 1, Len(entries))
    BY DEF Rest, RemoveAt
<1>2. i \in 1 .. Len(entries) /\ Len(entries) \in Nat /\ DOMAIN entries = 1 .. Len(entries)
    OBVIOUS
<1>3. Rest(i) \in Seq(Entries) /\ Len(Rest(i)) = Len(entries) - 1
    BY <1>1, <1>2
<1>4. \A k \in 1 .. Len(entries) - 1 : Rest(i)[k] = IF k < i THEN entries[k] ELSE entries[k + 1]
    <2> DEFINE a == SubSeq(entries, 1, i - 1)
    <2> DEFINE b == SubSeq(entries, i + 1, Len(entries))
    <2>1. a \in Seq(Entries) /\ Len(a) = i - 1 /\ \A k \in 1 .. i - 1 : a[k] = entries[k]
        BY <1>2
    <2>2. b \in Seq(Entries) /\ Len(b) = Len(entries) - i /\ \A k \in 1 .. Len(entries) - i : b[k] = entries[k + i]
        BY <1>2
    <2> HIDE DEF a, b
    <2>3. \A k \in 1 .. Len(entries) - 1 : (a \o b)[k] = IF k < i THEN a[k] ELSE b[k - (i - 1)]
        BY <1>2, <2>1, <2>2
    <2> TAKE k \in 1 .. Len(entries) - 1
    <2>4. CASE k < i
        BY <1>1, <1>2, <2>1, <2>3, <2>4 DEF a, b
    <2>5. CASE ~(k < i)
        <3>1. k - (i - 1) \in 1 .. Len(entries) - i /\ (k - (i - 1)) + i = k + 1
            BY <1>2, <2>5
        <3>2. b[k - (i - 1)] = entries[k + 1]
            BY <2>2, <3>1
        <3> QED BY <1>1, <2>3, <2>5, <3>2 DEF a, b
    <2> QED BY <2>4, <2>5
<1>5. Range(Rest(i)) = {entries[j] : j \in DOMAIN entries \ {i}}
    <2>1. ASSUME NEW x \in Range(Rest(i)) PROVE x \in {entries[j] : j \in DOMAIN entries \ {i}}
        <3>1. PICK k \in 1 .. Len(entries) - 1 : x = Rest(i)[k]
            BY <1>3 DEF Range
        <3>2. (IF k < i THEN k ELSE k + 1) \in DOMAIN entries \ {i}
            BY <1>2
        <3> QED BY <3>1, <3>2, <1>4
    <2>2. ASSUME NEW j \in DOMAIN entries \ {i} PROVE entries[j] \in Range(Rest(i))
        <3> DEFINE k == IF j < i THEN j ELSE j - 1
        <3>1. k \in 1 .. Len(entries) - 1 /\ (IF k < i THEN k ELSE k + 1) = j
            BY <1>2
        <3>2. Rest(i)[k] = entries[j]
            BY <1>4, <3>1
        <3>3. k \in DOMAIN Rest(i)
            BY <1>3, <3>1
        <3> QED BY <3>2, <3>3 DEF Range
    <2> QED BY <2>1, <2>2
<1> QED
    BY <1>3, <1>4, <1>5

LEMMA RestInOrder ==
    ASSUME entries \in Seq(Entries), NEW i \in DOMAIN entries, NEW time, InOrder(entries, time)
    PROVE  InOrder(Rest(i), time)
<1> SUFFICES ASSUME NEW j \in 1 .. Len(entries) - 1, NEW k \in 1 .. Len(entries) - 1, j < k
             PROVE  time[Rest(i)[j].serial] < time[Rest(i)[k].serial]
    <2>1. DOMAIN Rest(i) = 1 .. Len(entries) - 1
        BY RestOfList
    <2> QED BY <2>1 DEF InOrder
<1> DEFINE old(m) == IF m < i THEN m ELSE m + 1
<1>1. Rest(i)[j] = entries[old(j)] /\ Rest(i)[k] = entries[old(k)]
    BY RestOfList
<1>2. old(j) \in DOMAIN entries /\ old(k) \in DOMAIN entries /\ old(j) < old(k)
    OBVIOUS
<1> HIDE DEF old
<1> QED
    BY <1>1, <1>2 DEF InOrder

LEMMA AppendRange ==
    ASSUME NEW A, NEW list \in Seq(A), NEW e \in A
    PROVE  /\ Append(list, e) \in Seq(A) /\ Len(Append(list, e)) = Len(list) + 1
           /\ Range(Append(list, e)) = Range(list) \union {e}
           /\ Append(list, e) # <<>> /\ Last(Append(list, e)) = e
<1> DEFINE l == Append(list, e)
<1>1. /\ l \in Seq(A) /\ Len(l) = Len(list) + 1 /\ l[Len(list) + 1] = e /\ DOMAIN l = 1 .. Len(list) + 1
      /\ DOMAIN list = 1 .. Len(list) /\ Len(list) \in Nat
      /\ \A k \in 1 .. Len(list) : l[k] = list[k]
    OBVIOUS
<1> HIDE DEF l
<1>2. Range(l) = Range(list) \union {e}
    BY <1>1 DEF Range
<1>3. l # <<>> /\ Last(l) = e
    BY <1>1 DEF Last
<1> QED
    BY <1>1, <1>2, <1>3 DEF l

LEMMA AppendInOrder ==
    ASSUME NEW list \in Seq(Entries), NEW e \in Entries, NEW time, InOrder(list, time),
           \A d \in Range(list) : time[d.serial] < time[e.serial]
    PROVE  InOrder(Append(list, e), time)
<1> DEFINE l == Append(list, e)
<1>1. /\ Len(l) = Len(list) + 1 /\ l[Len(list) + 1] = e /\ DOMAIN l = 1 .. Len(list) + 1
      /\ DOMAIN list = 1 .. Len(list) /\ Len(list) \in Nat
      /\ \A k \in 1 .. Len(list) : l[k] = list[k]
    OBVIOUS
<1> HIDE DEF l
<1>2. InOrder(l, time)
    <2> SUFFICES ASSUME NEW j \in DOMAIN l, NEW k \in DOMAIN l, j < k
                 PROVE  time[l[j].serial] < time[l[k].serial]
        BY DEF InOrder
    <2>1. j \in 1 .. Len(list) /\ l[j] = list[j]
        BY <1>1
    <2>2. CASE k = Len(list) + 1
        BY <1>1, <2>1, <2>2 DEF Range
    <2>3. CASE k \in 1 .. Len(list)
        BY <1>1, <2>1, <2>3 DEF InOrder
    <2> QED BY <1>1, <2>2, <2>3
<1> QED
    BY <1>2 DEF l

LEMMA WithEditorRange ==
    ASSUME NEW list \in Seq(Entries), NEW ed \in Seq(EditorSteps)
    PROVE  /\ WithEditor(list, ed) \in Seq(Entries) /\ Len(WithEditor(list, ed)) <= MaxEntries
           /\ Range(WithEditor(list, ed)) \subseteq
                  Stay(list, "speakers", ed) \union {Entry("speakers", n, 0, 0) : n \in Serials(ed)}
<1> DEFINE merged == Merged(list, "speakers", ed)
<1>1. merged \in Seq(Entries)
      /\ Range(merged) \subseteq Stay(list, "speakers", ed) \union {Entry("speakers", n, 0, 0) : n \in Serials(ed)}
    <2>1. \A x \in EditorSteps : x.serial \in Numbers
        BY DEF EditorSteps
    <2> QED BY <2>1, MergedRange
<1>2. WithEditor(list, ed) = Trimmed(merged)
    BY DEF WithEditor
<1> HIDE DEF merged
<1> QED
    BY <1>1, <1>2, TrimmedList

\* The numbers of the steps of a stack of tags that come here.
HereIn(tags) == {step.serial : step \in {t \in Range(tags) : t.here /\ t.serial \notin ignored}}

LEMMA BelongingSteps ==
    ASSUME NEW tags \in Seq(TagSteps)
    PROVE  /\ Belonging(tags) \in Seq(TagSteps)
           /\ Range(Belonging(tags)) = {t \in Range(tags) : t.here /\ t.serial \notin ignored}
           /\ Serials(Belonging(tags)) = HereIn(tags)
<1> DEFINE S == {step \in Range(tags) : step.here /\ step.serial \notin ignored}
<1> DEFINE b == Belonging(tags)
<1>1. b \in Seq(TagSteps) /\ Range(b) = Range(tags) \intersect S
    BY OnlyRange DEF Belonging
<1>2. Range(b) = S
    BY <1>1
<1> HIDE DEF b
<1>3. Serials(b) = {step.serial : step \in Range(b)}
    BY DEF Serials, Range
<1> QED
    BY <1>1, <1>2, <1>3 DEF HereIn, b

LEMMA WithTagsRange ==
    ASSUME NEW list \in Seq(Entries), NEW tags \in Seq(TagSteps)
    PROVE  /\ WithTags(list, tags) \in Seq(Entries) /\ Len(WithTags(list, tags)) <= MaxEntries
           /\ Range(WithTags(list, tags)) \subseteq
                  Stay(list, "tags", Belonging(tags)) \union {Entry("tags", n, 0, 0) : n \in HereIn(tags)}
<1> DEFINE merged == Merged(list, "tags", Belonging(tags))
<1>1. merged \in Seq(Entries)
      /\ Range(merged) \subseteq
            Stay(list, "tags", Belonging(tags)) \union {Entry("tags", n, 0, 0) : n \in HereIn(tags)}
    <2>1. \A x \in TagSteps : x.serial \in Numbers
        BY DEF TagSteps
    <2> QED BY <2>1, MergedRange, BelongingSteps
<1>2. WithTags(list, tags) = Trimmed(merged)
    BY DEF WithTags
<1> HIDE DEF merged
<1> QED
    BY <1>1, <1>2, TrimmedList

LEMMA DetachedList ==
    ASSUME NEW list \in Seq(Entries)
    PROVE  /\ Detached(list) \in Seq(Entries) /\ Len(Detached(list)) <= Len(list)
           /\ Range(Detached(list)) = {[e EXCEPT !.link = 0] : e \in {d \in Range(list) : d.source # "speakers"}}
           /\ \A time : InOrder(list, time) => InOrder(Detached(list), time)
<1> DEFINE S == {e \in Range(list) : e.source # "speakers"}
<1> DEFINE kept == Only(list, S)
<1>1. kept \in Seq(Entries) /\ Len(kept) <= Len(list) /\ Range(kept) = S
    BY OnlyRange
<1>2. \A time : InOrder(list, time) => InOrder(kept, time)
    BY OnlyInOrder
<1>3. Detached(list) = [i \in DOMAIN kept |-> [kept[i] EXCEPT !.link = 0]]
    BY DEF Detached
<1> HIDE DEF kept
<1>4. \A e \in Entries : /\ [e EXCEPT !.link = 0] \in Entries
                         /\ [e EXCEPT !.link = 0].serial = e.serial
    BY UndoAssumption DEF Entries, Values
<1>5. \A i \in DOMAIN kept : kept[i] \in Entries
    BY <1>1
<1>6. DOMAIN kept = 1 .. Len(kept) /\ Len(kept) \in Nat
    BY <1>1
<1>7. Detached(list) \in Seq(Entries) /\ Len(Detached(list)) = Len(kept)
    BY <1>3, <1>4, <1>5, <1>6
<1>8. Range(Detached(list)) = {[e EXCEPT !.link = 0] : e \in S}
    BY <1>1, <1>3 DEF Range
<1>9. \A time : InOrder(kept, time) => InOrder(Detached(list), time)
    <2>1. DOMAIN Detached(list) = DOMAIN kept /\ \A i \in DOMAIN kept : Detached(list)[i].serial = kept[i].serial
        BY <1>3, <1>4, <1>5
    <2> QED BY <2>1 DEF InOrder
<1> QED
    BY <1>1, <1>2, <1>7, <1>8, <1>9

LEMMA AbsorbingList ==
    ASSUME NEW list \in Seq(Entries), NEW entry \in Entries
    PROVE  /\ Absorbing(list, entry) \in Seq(Entries)
           /\ Range(Absorbing(list, entry)) =
                  {e \in Range(list) : ~(e.source = "speakers" /\ e.serial = entry.link)} \union {entry}
<1> DEFINE S == {e \in Range(list) : ~(e.source = "speakers" /\ e.serial = entry.link)}
<1> DEFINE kept == Only(list, S)
<1>1. kept \in Seq(Entries) /\ Range(kept) = S
    BY OnlyRange
<1>2. Absorbing(list, entry) = Append(kept, entry)
    BY DEF Absorbing
<1> HIDE DEF kept
<1>3. Append(kept, entry) \in Seq(Entries) /\ Range(Append(kept, entry)) = Range(kept) \union {entry}
    BY <1>1, AppendRange
<1> QED
    BY <1>1, <1>2, <1>3

\* undo() at the end compares both stacks once more.
LEMMA SettledList ==
    ASSUME NEW list \in Seq(Entries), NEW ed \in Seq(EditorSteps), NEW tags \in Seq(TagSteps)
    PROVE  LET l == WithTags(WithEditor(list, ed), tags)
           IN  /\ l \in Seq(Entries) /\ Len(l) <= MaxEntries
               /\ \A e \in Range(l) :
                    \/ e \in Range(list) /\ (e.source = "speakers" => e.serial \in Serials(ed))
                                         /\ (e.source = "tags" => e.serial \in HereIn(tags))
                    \/ \E n \in Serials(ed) : e = Entry("speakers", n, 0, 0)
                    \/ \E n \in HereIn(tags) : e = Entry("tags", n, 0, 0)
<1> DEFINE m == WithEditor(list, ed)
<1> DEFINE l == WithTags(m, tags)
<1>1. m \in Seq(Entries)
      /\ Range(m) \subseteq Stay(list, "speakers", ed) \union {Entry("speakers", n, 0, 0) : n \in Serials(ed)}
    BY WithEditorRange
<1> HIDE DEF m
<1>2. /\ l \in Seq(Entries) /\ Len(l) <= MaxEntries
      /\ Range(l) \subseteq Stay(m, "tags", Belonging(tags)) \union {Entry("tags", n, 0, 0) : n \in HereIn(tags)}
    BY <1>1, WithTagsRange
<1>3. Serials(Belonging(tags)) = HereIn(tags)
    BY BelongingSteps
<1> HIDE DEF l
<1>4. \A n : Entry("speakers", n, 0, 0).source # "tags"
    BY DEF Entry
<1>5. ASSUME NEW e \in Range(l), e \notin {Entry("tags", n, 0, 0) : n \in HereIn(tags)},
             e \notin {Entry("speakers", n, 0, 0) : n \in Serials(ed)}
      PROVE  e \in Range(list) /\ (e.source = "speakers" => e.serial \in Serials(ed))
                               /\ (e.source = "tags" => e.serial \in HereIn(tags))
    <2>1. e \in Stay(m, "tags", Belonging(tags))
        BY <1>2, <1>5
    <2>2. e \in Range(m) /\ (e.source = "tags" => e.serial \in HereIn(tags))
        BY <2>1, <1>3 DEF Stay
    <2>3. e \in Stay(list, "speakers", ed)
        BY <1>1, <1>5, <2>2
    <2> QED BY <2>2, <2>3 DEF Stay
<1> QED
    BY <1>2, <1>5 DEF l, m
----------------------------------------------------------------------------
(* The stacks *)

\* r: the steps of stack but the first d.
Shifted(r, stack, d) ==
    Len(r) = Len(stack) + 1 - d /\ \A k \in 1 .. Len(stack) - d : r[k] = stack[k + d]

\* The limited stack is the stack itself or all but its first step, with the new one on top.
LEMMA LimitedStack ==
    ASSUME NEW A, NEW stack \in Seq(A), NEW x \in A, NEW limit \in Nat \ {0}, Len(stack) <= limit,
           NEW r, r = Limited(Append(stack, x), limit)
    PROVE  /\ r \in Seq(A) /\ Len(r) <= limit /\ r # <<>> /\ Last(r) = x
           /\ Range(r) \subseteq Range(stack) \union {x}
           /\ \E d \in {0, 1} : Shifted(r, stack, d)
<1> DEFINE a == Append(stack, x)
<1>0. r = Limited(a, limit)
    OBVIOUS
<1>1. /\ a \in Seq(A) /\ Len(a) = Len(stack) + 1 /\ a[Len(stack) + 1] = x
      /\ Len(stack) \in Nat /\ \A k \in 1 .. Len(stack) : a[k] = stack[k]
    OBVIOUS
<1> HIDE DEF a
<1> DEFINE d == IF Len(a) > limit THEN 1 ELSE 0
<1>2. d \in {0, 1}
    OBVIOUS
<1>3. r \in Seq(A) /\ Len(r) = Len(stack) + 1 - d /\ Len(r) \in Nat \ {0} /\ Len(r) <= limit
    BY <1>0, <1>1 DEF Limited
<1>4. \A k \in 1 .. Len(stack) + 1 - d : r[k] = a[k + d]
    BY <1>0, <1>1 DEF Limited
<1> HIDE DEF d
<1>5. Last(r) = x
    BY <1>1, <1>2, <1>3, <1>4 DEF Last
<1>6. \A k \in 1 .. Len(stack) - d : r[k] = stack[k + d]
    BY <1>1, <1>2, <1>4
<1>7. Range(r) \subseteq Range(stack) \union {x}
    <2> SUFFICES ASSUME NEW k \in 1 .. Len(r) PROVE r[k] \in Range(stack) \union {x}
        BY <1>3 DEF Range
    <2>1. CASE k = Len(r)
        BY <2>1, <1>5 DEF Last
    <2>2. CASE k # Len(r)
        <3>1. k \in 1 .. Len(stack) - d /\ k + d \in 1 .. Len(stack)
            BY <1>1, <1>2, <1>3, <2>2
        <3> QED BY <3>1, <1>6 DEF Range
    <2> QED BY <2>1, <2>2
<1>8. r # <<>>
    BY <1>3
<1> QED
    BY <1>2, <1>3, <1>5, <1>6, <1>7, <1>8 DEF Shifted

LEMMA FrontOfStack ==
    ASSUME NEW A, NEW stack \in Seq(A), stack # <<>>
    PROVE  /\ Front(stack) \in Seq(A) /\ Len(Front(stack)) = Len(stack) - 1 /\ Len(stack) \in Nat \ {0}
           /\ \A k \in 1 .. Len(stack) - 1 : Front(stack)[k] = stack[k]
           /\ Last(stack) \in A /\ Last(stack) = stack[Len(stack)]
           /\ Range(stack) = Range(Front(stack)) \union {Last(stack)}
<1>0. Len(stack) \in Nat \ {0}
    OBVIOUS
<1>1. /\ Front(stack) \in Seq(A) /\ Len(Front(stack)) = Len(stack) - 1 /\ Len(stack) \in Nat \ {0}
      /\ \A k \in 1 .. Len(stack) - 1 : Front(stack)[k] = stack[k]
    <2> DEFINE f == SubSeq(stack, 1, Len(stack) - 1)
    <2>1. Len(stack) - 1 \in Nat /\ DOMAIN stack = 1 .. Len(stack)
        BY <1>0
    <2>2. f \in Seq(A) /\ Len(f) = Len(stack) - 1
        BY <2>1
    <2>3. \A k \in 1 .. Len(stack) - 1 : f[k] = stack[k]
        BY <2>1
    <2> HIDE DEF f
    <2> QED BY <1>0, <2>2, <2>3 DEF Front, f
<1>2. Last(stack) \in A /\ Last(stack) = stack[Len(stack)]
    BY DEF Last
<1>3. Range(stack) = Range(Front(stack)) \union {Last(stack)}
    <2>1. DOMAIN stack = 1 .. Len(stack) /\ DOMAIN Front(stack) = 1 .. Len(stack) - 1
        BY <1>1
    <2> QED BY <1>1, <1>2, <2>1 DEF Range
<1> QED
    BY <1>1, <1>2, <1>3

LEMMA SerialsInRange ==
    ASSUME NEW stack
    PROVE  Serials(stack) = {step.serial : step \in Range(stack)}
BY DEF Serials, Range

\* The most recent number of a stack.
LEMMA TopOfStack ==
    ASSUME NEW A, NEW stack \in Seq(A), stack # <<>>
    PROVE  TopSerial(stack) = Last(stack).serial /\ Last(stack) \in Range(stack)
           /\ TopSerial(stack) \in Serials(stack)
<1>1. Last(stack) \in Range(stack)
    BY FrontOfStack
<1> QED
    BY <1>1, SerialsInRange DEF TopSerial

----------------------------------------------------------------------------
(* Types *)

\* What is redone fits on the stack again.
Room == Len(edUndo) + Len(edRedo) <= EditorLimit

LEMMA SerialTypes ==
    ASSUME TypeOK
    PROVE  Serials(edUndo) \union Serials(edRedo) \union Serials(tagUndo) \subseteq Numbers
<1>1. \A i \in DOMAIN edUndo : edUndo[i] \in EditorSteps
    BY DEF TypeOK
<1>2. \A i \in DOMAIN edRedo : edRedo[i] \in EditorSteps
    BY DEF TypeOK
<1>3. \A i \in DOMAIN tagUndo : tagUndo[i] \in TagSteps
    BY DEF TypeOK
<1> QED
    BY <1>1, <1>2, <1>3 DEF Serials, EditorSteps, TagSteps

LEMMA TickTime ==
    ASSUME TypeOK, NEW n \in {1, 2}, Tick(n)
    PROVE  /\ clock \in Nat /\ clock' = clock + n /\ clock' \in Numbers /\ clock' \in Values
           /\ clock + 1 \in Numbers /\ clock + 1 \in Values
BY UndoAssumption DEF TypeOK, Tick, Numbers, Values

LEMMA NotedTypes ==
    ASSUME TypeOK, NEW serial \in Numbers, NEW before \in Meetings, NEW after \in Meetings,
           clock' \in Values, Noted(serial, before, after)
    PROVE  /\ {was', is'} \subseteq [Numbers -> Meetings] /\ made' \in [Numbers -> Values]
BY DEF TypeOK, Noted

LEMMA PushTypes ==
    ASSUME TypeOK, NEW serial \in Numbers
    PROVE  LET r == Limited(Append(edUndo, EditorStep(serial, now.overlay)), EditorLimit)
           IN  r \in Seq(EditorSteps) /\ Len(r) <= EditorLimit
<1>1. EditorStep(serial, now.overlay) \in EditorSteps
    BY DEF TypeOK, EditorStep, EditorSteps, Meetings, Numbers, Values
<1>2. edUndo \in Seq(EditorSteps) /\ Len(edUndo) <= EditorLimit /\ EditorLimit \in Nat \ {0}
    BY UndoAssumption DEF TypeOK
<1> QED
    BY <1>1, <1>2, LimitedStack

LEMMA UndoneTypes ==
    ASSUME TypeOK, EditorUndone
    PROVE  /\ edUndo' \in Seq(EditorSteps) /\ edRedo' \in Seq(EditorSteps) /\ Len(edUndo') <= EditorLimit
           /\ Last(edUndo) \in EditorSteps /\ Last(edUndo).before \in Values
           /\ Len(edUndo') + Len(edRedo') = Len(edUndo) + Len(edRedo)
<1>1. edUndo \in Seq(EditorSteps) /\ Len(edUndo) <= EditorLimit /\ EditorLimit \in Nat /\ edRedo \in Seq(EditorSteps)
      /\ edUndo # <<>>
    BY UndoAssumption DEF TypeOK, EditorUndone
<1>2. Last(edUndo) \in EditorSteps /\ Front(edUndo) \in Seq(EditorSteps) /\ Len(Front(edUndo)) = Len(edUndo) - 1
    BY <1>1, FrontOfStack
<1>3. edUndo' = Front(edUndo) /\ edRedo' = Append(edRedo, Last(edUndo))
    BY DEF EditorUndone
<1>4. Append(edRedo, Last(edUndo)) \in Seq(EditorSteps)
    BY <1>1, <1>2
<1>5. Last(edUndo).before \in Values
    BY <1>2 DEF EditorSteps
<1>6. Len(Front(edUndo)) <= EditorLimit
    BY <1>1, <1>2
<1>7. Len(Front(edUndo)) + Len(Append(edRedo, Last(edUndo))) = Len(edUndo) + Len(edRedo)
    BY <1>1, <1>2
<1> QED
    BY <1>2, <1>3, <1>4, <1>5, <1>6, <1>7

LEMMA TagsUndoneTypes ==
    ASSUME TypeOK, NEW refused \in BOOLEAN, TagsUndone(refused)
    PROVE  /\ tagUndo' \in Seq(TagSteps) /\ Len(tagUndo') <= TagLimit
           /\ TagsBefore(refused) \in Values /\ tagUndo # <<>> /\ Last(tagUndo) \in TagSteps
<1>1. tagUndo \in Seq(TagSteps) /\ Len(tagUndo) <= TagLimit /\ TagLimit \in Nat /\ tagUndo # <<>>
    BY UndoAssumption DEF TypeOK, TagsUndone
<1>2. /\ Last(tagUndo) \in TagSteps /\ Front(tagUndo) \in Seq(TagSteps)
      /\ Len(Front(tagUndo)) = Len(tagUndo) - 1 /\ Len(tagUndo) \in Nat
    BY <1>1, FrontOfStack
<1>3. tagUndo' \in Seq(TagSteps) /\ Len(tagUndo') <= TagLimit
    BY <1>1, <1>2 DEF TagsUndone
<1>4. TagsBefore(refused) \in Values
    BY <1>2 DEF TagsBefore, TagSteps, TypeOK, Meetings
<1> QED
    BY <1>1, <1>2, <1>3, <1>4

LEMMA FollowTypes ==
    ASSUME TypeOK, NEW list \in Seq(Entries), Len(list) <= MaxEntries, Follow(list)
    PROVE  entries' \in Seq(Entries) /\ Len(entries') <= MaxEntries /\ lost' \in BOOLEAN
BY DEF Follow, TypeOK

LEMMA FollowTagsTypes ==
    ASSUME TypeOK, tagUndo' \in Seq(TagSteps), FollowTags
    PROVE  entries' \in Seq(Entries) /\ Len(entries') <= MaxEntries /\ lost' \in BOOLEAN
<1>1. entries \in Seq(Entries) /\ MaxEntries \in Nat
    BY UndoAssumption DEF TypeOK
<1>2. CASE service
    <2>1. WithTags(entries, tagUndo') \in Seq(Entries) /\ Len(WithTags(entries, tagUndo')) <= MaxEntries
        BY <1>1, WithTagsRange
    <2>2. Follow(WithTags(entries, tagUndo'))
        BY <1>2 DEF FollowTags
    <2> QED BY <2>1, <2>2, FollowTypes
<1>3. CASE ~service
    <2>1. <<>> \in Seq(Entries) /\ Len(<<>>) <= MaxEntries
        BY <1>1
    <2>2. Follow(<<>>)
        BY <1>3 DEF FollowTags
    <2> QED BY <2>1, <2>2, FollowTypes
<1> QED
    BY <1>2, <1>3

LEMMA SettleTypes ==
    ASSUME TypeOK, NEW list \in Seq(Entries), edUndo' \in Seq(EditorSteps), tagUndo' \in Seq(TagSteps),
           Settle(list)
    PROVE  entries' \in Seq(Entries) /\ Len(entries') <= MaxEntries /\ lost' \in BOOLEAN
<1>1. Follow(WithTags(WithEditor(list, edUndo'), tagUndo'))
    BY DEF Settle
<1> QED
    BY <1>1, SettledList, FollowTypes

\* An own step of the participants, made now.
LEMMA ParticipantsEntry ==
    ASSUME TypeOK, NEW serial \in Numbers, NEW link \in Values
    PROVE  Entry("participants", serial, now.parts, link) \in Entries
BY DEF TypeOK, Entry, Entries, Meetings

LEMMA LatestOfUsable ==
    ASSUME TypeOK, {j \in DOMAIN entries : Usable(j)} # {}
    PROVE  /\ LatestUsable \in DOMAIN entries /\ Usable(LatestUsable) /\ entries[LatestUsable] \in Entries
           /\ LatestUsable # 0 /\ \A j \in DOMAIN entries : Usable(j) => j <= LatestUsable
<1> DEFINE usable == {i \in DOMAIN entries : Usable(i)}
<1>1. usable # {} /\ LatestUsable = CHOOSE i \in usable : \A j \in usable : j <= i
    BY DEF LatestUsable
<1>2. entries \in Seq(Entries) /\ DOMAIN entries = 1 .. Len(entries) /\ Len(entries) \in Nat
    BY DEF TypeOK
<1>3. \E i \in usable : \A j \in usable : j <= i
    <2> DEFINE T == {Len(entries) - i : i \in usable}
    <2>1. T \in SUBSET Nat /\ T # {}
        <3> HIDE DEF usable
        <3>1. \A i \in usable : i \in 1 .. Len(entries)
            BY <1>2 DEF usable
        <3> QED BY <1>1, <1>2, <3>1
    <2>2. PICK n \in T : \A m \in T : n <= m
        <3> HIDE DEF T
        <3> QED BY <2>1, LeastNumber
    <2>3. PICK i \in usable : n = Len(entries) - i
        OBVIOUS
    <2>4. ASSUME NEW j \in usable PROVE j <= i
        <3>1. Len(entries) - i <= Len(entries) - j
            BY <2>2, <2>3
        <3> QED BY <3>1, <1>2
    <2> QED BY <2>3, <2>4
<1>4. LatestUsable \in usable /\ \A j \in usable : j <= LatestUsable
    <2> HIDE DEF usable
    <2> QED BY <1>1, <1>3
<1> QED
    BY <1>2, <1>4

LEMMA LatestIsEntry ==
    ASSUME TypeOK, LatestUsable # 0
    PROVE  /\ LatestUsable \in DOMAIN entries /\ Usable(LatestUsable) /\ entries[LatestUsable] \in Entries
           /\ \A j \in DOMAIN entries : Usable(j) => j <= LatestUsable
<1>1. {j \in DOMAIN entries : Usable(j)} # {}
    BY DEF LatestUsable
<1> QED
    BY <1>1, LatestOfUsable

\* Every field of now but the named ones stays.
LEMMA MeetingTypes ==
    ASSUME TypeOK, NEW v \in Values, NEW w \in Values
    PROVE  /\ [now EXCEPT !.overlay = v] \in Meetings /\ [now EXCEPT !.tags = v] \in Meetings
           /\ [now EXCEPT !.parts = v] \in Meetings /\ [now EXCEPT !.parts = v, !.overlay = w] \in Meetings
BY DEF TypeOK, Meetings

LEMMA EditorTypes ==
    ASSUME TypeOK, Room, Edit \/ UndoInEditor \/ Redo \/ Reload
    PROVE  TypeOK' /\ Room'
<1>0. /\ entries \in Seq(Entries) /\ edUndo \in Seq(EditorSteps) /\ edRedo \in Seq(EditorSteps)
      /\ now \in Meetings /\ Len(edUndo) \in Nat /\ Len(edRedo) \in Nat
      /\ Len(edUndo) + Len(edRedo) <= EditorLimit
    BY DEF TypeOK, Room
<1>1. CASE Edit
    <2> DEFINE step == EditorStep(clock', now.overlay)
    <2>1. clock' \in Numbers /\ clock' \in Values
        BY <1>1, TickTime DEF Edit
    <2>2. edUndo' \in Seq(EditorSteps) /\ Len(edUndo') <= EditorLimit /\ edRedo' = <<>>
        BY <1>1, <2>1, PushTypes DEF Edit
    <2>3. now' \in Meetings
        BY <1>1, <2>1, MeetingTypes DEF Edit
    <2>4. {was', is'} \subseteq [Numbers -> Meetings] /\ made' \in [Numbers -> Values]
        BY <1>0, <1>1, <2>1, <2>3, NotedTypes DEF Edit
    <2>5. entries' \in Seq(Entries) /\ Len(entries') <= MaxEntries /\ lost' \in BOOLEAN
        BY <1>0, <1>1, <2>2, WithEditorRange, FollowTypes DEF Edit
    <2>6. Len(edRedo') = 0 /\ edRedo' \in Seq(EditorSteps) /\ Len(edUndo') \in Nat
        BY <2>2
    <2> QED BY <1>1, <2>1, <2>2, <2>3, <2>4, <2>5, <2>6, UndoAssumption DEF TypeOK, Room, Edit
<1>2. CASE UndoInEditor
    <2>1. edUndo' \in Seq(EditorSteps) /\ Len(edUndo') <= EditorLimit /\ edRedo' \in Seq(EditorSteps)
        BY <1>2, UndoneTypes DEF UndoInEditor
    <2>2. now' \in Meetings
        BY <1>2, UndoneTypes, MeetingTypes DEF UndoInEditor
    <2>3. entries' \in Seq(Entries) /\ Len(entries') <= MaxEntries /\ lost' \in BOOLEAN
        BY <1>0, <1>2, <2>1, WithEditorRange, FollowTypes DEF UndoInEditor
    <2>4. Len(edUndo') + Len(edRedo') <= EditorLimit
        BY <1>0, <1>2, UndoneTypes DEF UndoInEditor
    <2> QED BY <1>2, <2>1, <2>2, <2>3, <2>4 DEF TypeOK, Room, UndoInEditor, history
<1>3. CASE Redo
    <2>1. clock' \in Numbers /\ clock' \in Values
        BY <1>3, TickTime DEF Redo
    <2>2. Last(edRedo) \in EditorSteps /\ Front(edRedo) \in Seq(EditorSteps)
        BY <1>0, <1>3, FrontOfStack DEF Redo
    <2>3. edUndo' \in Seq(EditorSteps) /\ edRedo' \in Seq(EditorSteps)
          /\ Len(edUndo') = Len(edUndo) + 1 /\ Len(edRedo') = Len(edRedo) - 1
        BY <1>0, <1>3, <2>2, AppendRange, FrontOfStack DEF Redo
    <2>4. Len(edUndo') + Len(edRedo') <= EditorLimit /\ Len(edUndo') <= EditorLimit
        BY <1>0, <2>3, UndoAssumption
    <2>5. Last(edRedo).serial \in Numbers /\ Last(edRedo).after \in Values
        BY <2>2 DEF EditorSteps
    <2>6. now' \in Meetings
        BY <1>3, <2>5, MeetingTypes DEF Redo
    <2>7. {was', is'} \subseteq [Numbers -> Meetings] /\ made' \in [Numbers -> Values]
        BY <1>0, <1>3, <2>1, <2>5, <2>6, NotedTypes DEF Redo
    <2>8. entries' \in Seq(Entries) /\ Len(entries') <= MaxEntries /\ lost' \in BOOLEAN
        BY <1>0, <1>3, <2>3, WithEditorRange, FollowTypes DEF Redo
    <2> QED BY <1>3, <2>1, <2>3, <2>4, <2>6, <2>7, <2>8 DEF TypeOK, Room, Redo
<1>4. CASE Reload
    <2>1. clock' \in Values
        BY <1>4, TickTime DEF Reload
    <2>2. now' \in Meetings
        BY <1>4, <2>1, MeetingTypes DEF Reload
    <2>3. <<>> \in Seq(EditorSteps) /\ Len(<<>>) = 0 /\ EditorLimit \in Nat
        BY UndoAssumption
    <2>4. entries' \in Seq(Entries) /\ Len(entries') <= MaxEntries /\ lost' \in BOOLEAN
        BY <1>0, <1>4, <2>3, WithEditorRange, FollowTypes DEF Reload
    <2> QED BY <1>4, <2>1, <2>2, <2>3, <2>4 DEF TypeOK, Room, Reload, history
<1> QED
    BY <1>1, <1>2, <1>3, <1>4
LEMMA OpenTypes ==
    ASSUME TypeOK, Room, OpenEditor \/ CloseEditor \/ EditorDestroyed \/ CreateService
    PROVE  TypeOK' /\ Room'
<1>0. /\ entries \in Seq(Entries) /\ Len(entries) <= MaxEntries /\ MaxEntries \in Nat /\ Len(entries) \in Nat
      /\ <<>> \in Seq(EditorSteps) /\ Len(<<>>) = 0 /\ <<>> \in Seq(Entries) /\ EditorLimit \in Nat
    BY UndoAssumption DEF TypeOK
<1>1. Serials(tagUndo) \subseteq Numbers
    BY SerialTypes
<1>2. Detached(entries) \in Seq(Entries) /\ Len(Detached(entries)) <= MaxEntries
    <2>1. Detached(entries) \in Seq(Entries) /\ Len(Detached(entries)) <= Len(entries)
        BY <1>0, DetachedList
    <2>2. Len(Detached(entries)) \in Nat
        BY <2>1
    <2> QED BY <1>0, <2>1, <2>2
<1>3. CASE OpenEditor
    <2>1. entries' \in Seq(Entries) /\ Len(entries') <= MaxEntries /\ lost' \in BOOLEAN
        BY <1>2, <1>3, FollowTypes DEF OpenEditor
    <2> QED BY <1>0, <1>1, <1>3, <2>1 DEF TypeOK, Room, OpenEditor, Opened, history
<1>4. CASE CloseEditor
    BY <1>4 DEF TypeOK, Room, CloseEditor, stacks, history
<1>5. CASE EditorDestroyed
    <2>1. entries' \in Seq(Entries) /\ Len(entries') <= MaxEntries /\ lost' \in BOOLEAN
        BY <1>2, <1>5, FollowTypes DEF EditorDestroyed
    <2> QED BY <1>0, <1>5, <2>1 DEF TypeOK, Room, EditorDestroyed, history
<1>6. CASE CreateService
    BY <1>0, <1>1, <1>6 DEF TypeOK, Room, CreateService, stacks, history
<1> QED
    BY <1>3, <1>4, <1>5, <1>6

LEMMA TagTypes ==
    ASSUME TypeOK, Room, TagStep(TRUE) \/ TagStep(FALSE) \/ UndoInTags
    PROVE  TypeOK' /\ Room'
<1>1. ASSUME NEW here \in BOOLEAN, TagStep(here) PROVE TypeOK' /\ Room'
    <2> DEFINE step == [serial |-> clock', here |-> here, before |-> now.tags]
    <2>1. clock' \in Numbers /\ clock' \in Values
        BY <1>1, TickTime DEF TagStep
    <2>2. step \in TagSteps
        BY <2>1 DEF TypeOK, TagSteps, Meetings
    <2>3. tagUndo' = Limited(Append(tagUndo, step), TagLimit)
        BY <1>1 DEF TagStep
    <2> HIDE DEF step
    <2>4. tagUndo' \in Seq(TagSteps) /\ Len(tagUndo') <= TagLimit
        <3>1. tagUndo \in Seq(TagSteps) /\ Len(tagUndo) <= TagLimit /\ TagLimit \in Nat \ {0}
            BY UndoAssumption DEF TypeOK
        <3> QED BY <2>2, <2>3, <3>1, LimitedStack
    <2>5. now' \in Meetings /\ now \in Meetings
        BY <1>1, <2>1, MeetingTypes DEF TagStep, TypeOK
    <2>6. {was', is'} \subseteq [Numbers -> Meetings] /\ made' \in [Numbers -> Values]
        BY <1>1, <2>1, <2>5, NotedTypes DEF TagStep
    <2>7. entries' \in Seq(Entries) /\ Len(entries') <= MaxEntries /\ lost' \in BOOLEAN
        BY <1>1, <2>4, FollowTagsTypes DEF TagStep
    <2> QED BY <1>1, <2>1, <2>4, <2>5, <2>6, <2>7 DEF TypeOK, Room, TagStep
<1>2. CASE UndoInTags
    <2>1. tagUndo' \in Seq(TagSteps) /\ Len(tagUndo') <= TagLimit /\ TagsBefore(FALSE) \in Values
        BY <1>2, TagsUndoneTypes DEF UndoInTags
    <2>2. now' \in Meetings
        BY <1>2, <2>1, MeetingTypes DEF UndoInTags
    <2>3. entries' \in Seq(Entries) /\ Len(entries') <= MaxEntries /\ lost' \in BOOLEAN
        BY <1>2, <2>1, FollowTagsTypes DEF UndoInTags
    <2> QED BY <1>2, <2>1, <2>2, <2>3 DEF TypeOK, Room, UndoInTags, history
<1> QED
    BY <1>1, <1>2

LEMMA ParticipantTypes ==
    ASSUME TypeOK, Room, ChangeParticipants \/ ChangeBoth \/ ChangeBehind
    PROVE  TypeOK' /\ Room'
<1>0. /\ entries \in Seq(Entries) /\ edUndo \in Seq(EditorSteps) /\ now \in Meetings
      /\ Serials(tagUndo) \subseteq Numbers
    BY SerialTypes DEF TypeOK
<1>1. CASE ChangeParticipants
    <2> DEFINE entry == Entry("participants", clock', now.parts, 0)
    <2>1. clock' \in Numbers /\ clock' \in Values
        BY <1>1, TickTime DEF ChangeParticipants
    <2>2. entry \in Entries
        BY <2>1, UndoAssumption, ParticipantsEntry DEF Values
    <2>3. now' \in Meetings
        BY <1>1, <2>1, MeetingTypes DEF ChangeParticipants
    <2>4. {was', is'} \subseteq [Numbers -> Meetings] /\ made' \in [Numbers -> Values]
        BY <1>0, <1>1, <2>1, <2>3, NotedTypes DEF ChangeParticipants
    <2>5. Follow(Trimmed(Append(WithEditor(entries, edUndo), entry)))
        BY <1>1 DEF ChangeParticipants
    <2> HIDE DEF entry
    <2>6. Append(WithEditor(entries, edUndo), entry) \in Seq(Entries)
        BY <1>0, <2>2, WithEditorRange, AppendRange
    <2>7. entries' \in Seq(Entries) /\ Len(entries') <= MaxEntries /\ lost' \in BOOLEAN
        BY <2>5, <2>6, TrimmedList, FollowTypes
    <2> QED BY <1>0, <1>1, <2>1, <2>3, <2>4, <2>7 DEF TypeOK, Room, ChangeParticipants, stacks
<1>2. CASE ChangeBoth
    <2> DEFINE link == clock + 1
    <2> DEFINE entry == Entry("participants", clock', now.parts, link)
    <2>1. clock' \in Numbers /\ clock' \in Values /\ link \in Numbers /\ link \in Values
        BY <1>2, TickTime DEF ChangeBoth
    <2>2. entry \in Entries
        <3> HIDE DEF link
        <3> QED BY <2>1, ParticipantsEntry
    <2>3. EditorStep(link, now.overlay).serial = link /\ EditorStep(link, now.overlay).after = link
        BY DEF EditorStep
    <2>4. /\ edUndo' = Limited(Append(edUndo, EditorStep(link, now.overlay)), EditorLimit) /\ edRedo' = <<>>
          /\ now' = [now EXCEPT !.parts = clock', !.overlay = link]
          /\ Follow(Trimmed(Absorbing(WithEditor(WithEditor(entries, edUndo'), edUndo'), entry)))
        BY <1>2, <2>3 DEF ChangeBoth
    <2> HIDE DEF link, entry
    <2>5. edUndo' \in Seq(EditorSteps) /\ Len(edUndo') <= EditorLimit
        BY <2>1, <2>4, PushTypes
    <2>6. now' \in Meetings
        BY <2>1, <2>4, MeetingTypes
    <2>7. {was', is'} \subseteq [Numbers -> Meetings] /\ made' \in [Numbers -> Values]
        BY <1>0, <1>2, <2>1, <2>6, NotedTypes DEF ChangeBoth
    <2>8. WithEditor(WithEditor(entries, edUndo'), edUndo') \in Seq(Entries)
        BY <1>0, <2>5, WithEditorRange
    <2>9. entries' \in Seq(Entries) /\ Len(entries') <= MaxEntries /\ lost' \in BOOLEAN
        BY <2>2, <2>4, <2>8, AbsorbingList, TrimmedList, FollowTypes
    <2>10. Len(edRedo') = 0 /\ edRedo' \in Seq(EditorSteps) /\ Len(edUndo') \in Nat
        BY <2>4, <2>5
    <2> QED BY <1>2, <2>1, <2>5, <2>6, <2>7, <2>9, <2>10, UndoAssumption DEF TypeOK, Room, ChangeBoth
<1>3. CASE ChangeBehind
    <2>1. clock' \in Values
        BY <1>3, TickTime DEF ChangeBehind
    <2>2. now' \in Meetings
        BY <1>3, <2>1, MeetingTypes DEF ChangeBehind
    <2> QED BY <1>3, <2>1, <2>2 DEF TypeOK, Room, ChangeBehind, stacks, history
<1> QED
    BY <1>1, <1>2, <1>3
LEMMA SharedTypes ==
    ASSUME TypeOK, Room, UndoSpeakers \/ UndoTags \/ UndoParticipants
    PROVE  TypeOK' /\ Room'
<1> DEFINE i == LatestUsable
<1>0. /\ entries \in Seq(Entries) /\ edUndo \in Seq(EditorSteps) /\ edRedo \in Seq(EditorSteps)
      /\ tagUndo \in Seq(TagSteps) /\ now \in Meetings
    BY DEF TypeOK
<1>1. i \in DOMAIN entries /\ entries[i] \in Entries
    BY LatestIsEntry DEF UndoSpeakers, UndoTags, UndoParticipants
<1>2. Rest(i) \in Seq(Entries)
    <2> HIDE DEF i
    <2> QED BY <1>0, <1>1, RestOfList
<1>3. CASE UndoSpeakers
    <2>1. /\ edUndo' \in Seq(EditorSteps) /\ Len(edUndo') <= EditorLimit /\ edRedo' \in Seq(EditorSteps)
          /\ Len(edUndo') + Len(edRedo') <= EditorLimit
        BY <1>3, UndoneTypes DEF UndoSpeakers, Room
    <2>2. now' \in Meetings
        BY <1>3, UndoneTypes, MeetingTypes DEF UndoSpeakers
    <2>3. tagUndo' \in Seq(TagSteps)
        BY <1>0, <1>3 DEF UndoSpeakers
    <2>4. WithEditor(Rest(i), edUndo') \in Seq(Entries)
        <3> HIDE DEF i
        <3> QED BY <1>2, <2>1, WithEditorRange
    <2>5. entries' \in Seq(Entries) /\ Len(entries') <= MaxEntries /\ lost' \in BOOLEAN
        BY <1>3, <2>1, <2>3, <2>4, SettleTypes DEF UndoSpeakers
    <2> QED BY <1>3, <2>1, <2>2, <2>5 DEF TypeOK, Room, UndoSpeakers, history
<1>4. CASE UndoTags
    <2>1. PICK refused \in BOOLEAN :
            /\ TagsUndone(refused)
            /\ IF refused THEN PutBack(TopSerial(tagUndo)) ELSE UNCHANGED <<clock, history>>
            /\ now' = [now EXCEPT !.tags = TagsBefore(refused)]
            /\ Settle(IF refused THEN Rest(i) ELSE WithTags(Rest(i), tagUndo'))
        BY <1>4 DEF UndoTags
    <2>2. /\ tagUndo' \in Seq(TagSteps) /\ Len(tagUndo') <= TagLimit /\ TagsBefore(refused) \in Values
          /\ tagUndo # <<>> /\ Last(tagUndo) \in TagSteps
        BY <2>1, TagsUndoneTypes
    <2>3. now' \in Meetings
        BY <2>1, <2>2, MeetingTypes
    <2>4. clock' \in Values /\ {was', is'} \subseteq [Numbers -> Meetings] /\ made' \in [Numbers -> Values]
        <3>1. CASE refused
            <4>1. clock' \in Values
                BY <2>1, <3>1, TickTime DEF PutBack
            <4> QED BY <2>1, <3>1, <4>1 DEF PutBack, TypeOK
        <3>2. CASE ~refused
            BY <2>1, <3>2 DEF TypeOK, history
        <3> QED BY <3>1, <3>2
    <2>5. edUndo' \in Seq(EditorSteps)
        BY <1>0, <1>4 DEF UndoTags
    <2>6. (IF refused THEN Rest(i) ELSE WithTags(Rest(i), tagUndo')) \in Seq(Entries)
        <3> HIDE DEF i
        <3> QED BY <1>2, <2>2, WithTagsRange
    <2>7. entries' \in Seq(Entries) /\ Len(entries') <= MaxEntries /\ lost' \in BOOLEAN
        BY <2>1, <2>2, <2>5, <2>6, SettleTypes
    <2> QED BY <1>4, <2>2, <2>3, <2>4, <2>7 DEF TypeOK, Room, UndoTags
<1>5. CASE UndoParticipants
    <2> DEFINE both == entries[i].link # 0 /\ entries[i].link = TopSerial(edUndo)
    <2>1. /\ IF both THEN EditorUndone ELSE UNCHANGED <<edUndo, edRedo>>
          /\ now' = [now EXCEPT !.parts = entries[i].before,
                                !.overlay = IF both THEN Last(edUndo).before ELSE @]
          /\ Settle(IF both THEN WithEditor(Rest(i), edUndo') ELSE Rest(i))
        BY <1>5 DEF UndoParticipants
    <2> HIDE DEF both, i
    <2>2. /\ edUndo' \in Seq(EditorSteps) /\ Len(edUndo') <= EditorLimit /\ edRedo' \in Seq(EditorSteps)
          /\ Len(edUndo') + Len(edRedo') <= EditorLimit
        <3>1. CASE both
            BY <2>1, <3>1, UndoneTypes DEF Room
        <3>2. CASE ~both
            BY <2>1, <3>2, <1>0 DEF Room, TypeOK
        <3> QED BY <3>1, <3>2
    <2>3. now' \in Meetings
        <3>1. entries[i].before \in Values
            BY <1>1 DEF Entries
        <3>2. both => Last(edUndo).before \in Values
            BY <2>1, UndoneTypes
        <3>3. (IF both THEN Last(edUndo).before ELSE now.overlay) \in Values
            BY <1>0, <3>2 DEF Meetings
        <3>4. now' = [now EXCEPT !.parts = entries[i].before,
                                 !.overlay = IF both THEN Last(edUndo).before ELSE now.overlay]
            BY <1>0, <2>1 DEF Meetings
        <3> QED BY <3>1, <3>3, <3>4, MeetingTypes
    <2>4. tagUndo' \in Seq(TagSteps)
        BY <1>0, <1>5 DEF UndoParticipants
    <2>5. (IF both THEN WithEditor(Rest(i), edUndo') ELSE Rest(i)) \in Seq(Entries)
        BY <1>2, <2>2, WithEditorRange
    <2>6. entries' \in Seq(Entries) /\ Len(entries') <= MaxEntries /\ lost' \in BOOLEAN
        BY <2>1, <2>2, <2>4, <2>5, SettleTypes
    <2> QED BY <1>5, <2>2, <2>3, <2>6 DEF TypeOK, Room, UndoParticipants, history
<1> QED
    BY <1>3, <1>4, <1>5

LEMMA InitTypes == Init => TypeOK /\ Room
<1> SUFFICES ASSUME Init PROVE TypeOK /\ Room
    OBVIOUS
<1>1. {EditorLimit, TagLimit, MaxEntries} \subseteq Nat \ {0} /\ 0 \in Values /\ MaxClock \in Nat
    BY UndoAssumption DEF Values
<1>2. now \in Meetings
    BY <1>1 DEF Init, Meetings
<1>3. {was, is} \subseteq [Numbers -> Meetings] /\ made \in [Numbers -> Values]
    BY <1>1, <1>2 DEF Init, Numbers
<1>4. /\ edUndo \in Seq(EditorSteps) /\ edRedo \in Seq(EditorSteps) /\ tagUndo \in Seq(TagSteps)
      /\ entries \in Seq(Entries) /\ Len(edUndo) = 0 /\ Len(edRedo) = 0 /\ Len(tagUndo) = 0 /\ Len(entries) = 0
    BY DEF Init
<1>5. 0 <= EditorLimit /\ 0 <= TagLimit /\ 0 <= MaxEntries /\ 0 + 0 <= EditorLimit
    BY <1>1
<1>6. Room
    BY <1>4, <1>5 DEF Room
<1> QED
    BY <1>1, <1>2, <1>3, <1>4, <1>5, <1>6 DEF Init, TypeOK

LEMMA NextTypes == TypeOK /\ Room /\ [Next]_vars => TypeOK' /\ Room'
<1> SUFFICES ASSUME TypeOK, Room, [Next]_vars PROVE TypeOK' /\ Room'
    OBVIOUS
<1>1. CASE UNCHANGED vars
    BY <1>1 DEF TypeOK, Room, vars, stacks, history
<1>2. CASE Next
    BY <1>2, EditorTypes, OpenTypes, TagTypes, ParticipantTypes, SharedTypes DEF Next
<1> QED
    BY <1>1, <1>2

\* The list, the stacks and the history keep their types; no stack outgrows its limit.
THEOREM TypeCorrect == Spec => []TypeOK
<1>1. TypeOK /\ Room /\ [Next]_vars => (TypeOK /\ Room)'
    BY NextTypes
<1> QED
    BY <1>1, InitTypes, PTL DEF Spec
----------------------------------------------------------------------------
(* The stack of the editor: order, and the overlay between undo and redo *)

InTurn(stack) == \A i, j \in DOMAIN stack : i < j => stack[i].serial < stack[j].serial

\* Steps are undone and redone in the order in which they were made.
Stacked ==
    /\ InTurn(edUndo)
    /\ \A i, j \in DOMAIN edRedo : i < j => edRedo[j].serial < edRedo[i].serial
    /\ \A i \in DOMAIN edUndo, j \in DOMAIN edRedo : edUndo[i].serial < edRedo[j].serial

\* Each step begins where the one under it ended; the overlay is where undo ends and redo begins.
Chained ==
    /\ \A i \in DOMAIN edUndo : edUndo[i].after = edUndo[i].serial
    /\ \A i \in DOMAIN edRedo : edRedo[i].after = edRedo[i].serial
    /\ edUndo # <<>> => Last(edUndo).after = now.overlay
    /\ \A i \in 1 .. Len(edUndo) - 1 : edUndo[i + 1].before = edUndo[i].after
    /\ edRedo # <<>> => Last(edRedo).before = now.overlay
    /\ \A i \in 1 .. Len(edRedo) - 1 : edRedo[i].before = edRedo[i + 1].after

EditorSerials == Serials(edUndo) \union Serials(edRedo)

\* What commit and redo do to the stacks.
EditorPushed(n) ==
    edUndo' = Limited(Append(edUndo, EditorStep(n, now.overlay)), EditorLimit) /\ edRedo' = <<>>
EditorRedone ==
    edRedo # <<>> /\ edRedo' = Front(edRedo) /\ edUndo' = Append(edUndo, Last(edRedo))

LEMMA PushedStack ==
    ASSUME TypeOK, Stacked, Chained, NEW n \in Numbers, \A s \in EditorSerials : s < n,
           EditorPushed(n), now'.overlay = n
    PROVE  /\ Stacked' /\ Chained'
           /\ Range(edUndo') \subseteq Range(edUndo) \union {EditorStep(n, now.overlay)}
           /\ edUndo' # <<>> /\ Last(edUndo') = EditorStep(n, now.overlay)
<1> DEFINE x == EditorStep(n, now.overlay)
<1> DEFINE m == Len(edUndo)
<1>1. x \in EditorSteps /\ x.serial = n /\ x.before = now.overlay /\ x.after = n
    BY DEF TypeOK, EditorStep, EditorSteps, Meetings, Numbers, Values
<1>2. edUndo \in Seq(EditorSteps) /\ m <= EditorLimit /\ EditorLimit \in Nat \ {0} /\ m \in Nat
    BY UndoAssumption DEF TypeOK
<1> HIDE DEF x
<1>3. /\ edUndo' \in Seq(EditorSteps) /\ edUndo' # <<>> /\ Last(edUndo') = x
      /\ Range(edUndo') \subseteq Range(edUndo) \union {x}
    <2>1. edUndo' = Limited(Append(edUndo, x), EditorLimit)
        BY DEF x, EditorPushed
    <2>2. edUndo \in Seq(EditorSteps) /\ Len(edUndo) <= EditorLimit /\ EditorLimit \in Nat \ {0} /\ x \in EditorSteps
        BY <1>1, <1>2
    <2> HIDE DEF m
    <2> QED BY <2>1, <2>2, LimitedStack
<1>4. PICK d \in {0, 1} : /\ Len(edUndo') = m + 1 - d
                          /\ \A k \in 1 .. m - d : edUndo'[k] = edUndo[k + d]
    <2>1. \E d \in {0, 1} : Shifted(edUndo', edUndo, d)
        BY <1>1, <1>2, LimitedStack DEF x, EditorPushed
    <2> QED BY <2>1 DEF Shifted
<1>5. edUndo'[m + 1 - d] = x /\ DOMAIN edUndo' = 1 .. m + 1 - d /\ DOMAIN edUndo = 1 .. m
    BY <1>2, <1>3, <1>4 DEF Last
<1>6. edRedo' = <<>> /\ DOMAIN edRedo' = {} /\ Len(edRedo') = 0
    BY DEF EditorPushed
<1>7. \A k \in 1 .. m - d : k + d \in 1 .. m
    BY <1>2
<1>8. \A i \in 1 .. m : edUndo[i].serial < n /\ edUndo[i].serial \in Nat /\ edUndo[i].after = edUndo[i].serial
    <2> TAKE i \in 1 .. m
    <2>1. edUndo[i] \in EditorSteps /\ i \in DOMAIN edUndo
        BY <1>2
    <2>2. edUndo[i].serial \in EditorSerials
        BY <2>1 DEF EditorSerials, Serials
    <2>3. edUndo[i].after = edUndo[i].serial
        BY <2>1 DEF Chained
    <2>4. edUndo[i].serial \in Nat
        BY <2>1 DEF EditorSteps, Numbers
    <2> QED BY <2>2, <2>3, <2>4
<1> HIDE DEF m
<1>9. InTurn(edUndo')
    <2> SUFFICES ASSUME NEW i \in 1 .. m + 1 - d, NEW j \in 1 .. m + 1 - d, i < j
                 PROVE  edUndo'[i].serial < edUndo'[j].serial
        BY <1>5 DEF InTurn
    <2>1. i \in 1 .. m - d /\ edUndo'[i] = edUndo[i + d] /\ i + d \in 1 .. m
        BY <1>2, <1>4, <1>7
    <2>2. CASE j = m + 1 - d
        BY <2>1, <2>2, <1>1, <1>5, <1>8
    <2>3. CASE j # m + 1 - d
        <3>1. j \in 1 .. m - d /\ edUndo'[j] = edUndo[j + d] /\ j + d \in 1 .. m /\ i + d < j + d
            BY <1>2, <1>4, <1>7, <2>3
        <3> QED BY <2>1, <3>1, <1>5 DEF Stacked, InTurn
    <2> QED BY <2>2, <2>3
<1>10. \A i \in DOMAIN edUndo' : edUndo'[i].after = edUndo'[i].serial
    <2> SUFFICES ASSUME NEW i \in 1 .. m + 1 - d PROVE edUndo'[i].after = edUndo'[i].serial
        BY <1>5
    <2>1. CASE i = m + 1 - d
        BY <2>1, <1>1, <1>5
    <2>2. CASE i # m + 1 - d
        <3>1. i \in 1 .. m - d
            BY <1>2, <2>2
        <3> QED BY <3>1, <1>4, <1>7, <1>8
    <2> QED BY <2>1, <2>2
<1>11. \A i \in 1 .. Len(edUndo') - 1 : edUndo'[i + 1].before = edUndo'[i].after
    <2> SUFFICES ASSUME NEW i \in 1 .. m - d PROVE edUndo'[i + 1].before = edUndo'[i].after
        BY <1>2, <1>4
    <2>1. edUndo'[i] = edUndo[i + d] /\ i + d \in 1 .. m
        BY <1>4, <1>7
    <2>2. CASE i = m - d
        <3>1. i + d = m /\ i + 1 = m + 1 - d /\ edUndo # <<>>
            BY <1>2, <2>1, <2>2 DEF m
        <3>2. edUndo[m].after = now.overlay
            BY <3>1 DEF Chained, Last, m
        <3> QED BY <2>1, <3>1, <3>2, <1>1, <1>5
    <2>3. CASE i # m - d
        <3>1. i + 1 \in 1 .. m - d /\ (i + 1) + d = (i + d) + 1 /\ i + d \in 1 .. m - 1
            BY <1>2, <2>3
        <3>2. edUndo[(i + d) + 1].before = edUndo[i + d].after
            BY <3>1 DEF Chained, m
        <3> QED BY <2>1, <3>1, <3>2, <1>4
    <2> QED BY <2>2, <2>3
<1>12. Stacked'
    BY <1>6, <1>9 DEF Stacked, InTurn
<1>13. Chained'
    BY <1>1, <1>3, <1>6, <1>10, <1>11 DEF Chained
<1> QED
    BY <1>3, <1>12, <1>13 DEF x

LEMMA UndoneStack ==
    ASSUME TypeOK, Stacked, Chained, EditorUndone, now'.overlay = Last(edUndo).before
    PROVE  /\ Stacked' /\ Chained'
           /\ Range(edUndo') \subseteq Range(edUndo) /\ Range(edRedo') = Range(edRedo) \union {Last(edUndo)}
           /\ Serials(edUndo) = Serials(edUndo') \union {TopSerial(edUndo)} /\ TopSerial(edUndo) \notin Serials(edUndo')
           /\ TopSerial(edUndo) = now.overlay
<1> DEFINE m == Len(edUndo)
<1> DEFINE n == Len(edRedo)
<1>1. edUndo \in Seq(EditorSteps) /\ edRedo \in Seq(EditorSteps) /\ edUndo # <<>> /\ m \in Nat \ {0} /\ n \in Nat
    BY DEF TypeOK, EditorUndone
<1>2. /\ edUndo' \in Seq(EditorSteps) /\ Len(edUndo') = m - 1 /\ \A k \in 1 .. m - 1 : edUndo'[k] = edUndo[k]
      /\ Last(edUndo) = edUndo[m] /\ Last(edUndo) \in EditorSteps /\ Range(edUndo) = Range(edUndo') \union {Last(edUndo)}
    BY <1>1, FrontOfStack DEF EditorUndone
<1>3. edRedo' = Append(edRedo, edUndo[m])
    BY <1>2 DEF EditorUndone
<1>4. /\ edRedo' \in Seq(EditorSteps) /\ Len(edRedo') = n + 1 /\ edRedo'[n + 1] = edUndo[m]
      /\ \A k \in 1 .. n : edRedo'[k] = edRedo[k]
    BY <1>1, <1>2, <1>3
<1>5. /\ DOMAIN edUndo = 1 .. m /\ DOMAIN edRedo = 1 .. n
      /\ DOMAIN edUndo' = 1 .. m - 1 /\ DOMAIN edRedo' = 1 .. n + 1
    BY <1>1, <1>2, <1>4
<1>6. Range(edRedo') = Range(edRedo) \union {Last(edUndo)}
    BY <1>1, <1>2, <1>3, AppendRange
<1>7. edUndo # <<>> /\ Last(edUndo).after = now.overlay /\ now'.overlay = edUndo[m].before
    BY <1>1, <1>2 DEF Chained
<1>8. /\ \A i, j \in 1 .. m : i < j => edUndo[i].serial < edUndo[j].serial
      /\ \A i, j \in 1 .. n : i < j => edRedo[j].serial < edRedo[i].serial
      /\ \A i \in 1 .. m, j \in 1 .. n : edUndo[i].serial < edRedo[j].serial
    BY <1>5 DEF Stacked, InTurn
<1>9. /\ \A i \in 1 .. m : edUndo[i].after = edUndo[i].serial
      /\ \A i \in 1 .. n : edRedo[i].after = edRedo[i].serial
      /\ \A i \in 1 .. m - 1 : edUndo[i + 1].before = edUndo[i].after
      /\ \A i \in 1 .. n - 1 : edRedo[i].before = edRedo[i + 1].after
      /\ n # 0 => edRedo[n].before = edUndo[m].after
    BY <1>1, <1>2, <1>5, <1>7 DEF Chained, Last
<1>0. m \in Nat /\ m # 0 /\ n \in Nat
    BY <1>1
<1> HIDE DEF m, n
<1>10. Stacked'
    <2>1. \A i, j \in 1 .. m - 1 : i < j => edUndo'[i].serial < edUndo'[j].serial
        BY <1>0, <1>2, <1>8
    <2>2. \A i, j \in 1 .. n + 1 : i < j => edRedo'[j].serial < edRedo'[i].serial
        <3> TAKE i, j \in 1 .. n + 1
        <3> HAVE i < j
        <3>1. i \in 1 .. n /\ edRedo'[i] = edRedo[i]
            BY <1>0, <1>4
        <3>2. CASE j = n + 1
            BY <3>1, <3>2, <1>0, <1>4, <1>8
        <3>3. CASE j \in 1 .. n
            BY <3>1, <3>3, <1>4, <1>8
        <3> QED BY <3>2, <3>3, <1>0
    <2>3. \A i \in 1 .. m - 1, j \in 1 .. n + 1 : edUndo'[i].serial < edRedo'[j].serial
        <3> TAKE i \in 1 .. m - 1, j \in 1 .. n + 1
        <3>1. i \in 1 .. m /\ i < m /\ m \in 1 .. m /\ edUndo'[i] = edUndo[i]
            BY <1>0, <1>2
        <3>2. CASE j = n + 1
            BY <3>1, <3>2, <1>4, <1>8
        <3>3. CASE j \in 1 .. n
            BY <3>1, <3>3, <1>4, <1>8
        <3> QED BY <3>2, <3>3, <1>0
    <2> QED BY <2>1, <2>2, <2>3, <1>5 DEF Stacked, InTurn
<1>11. Chained'
    <2>1. \A i \in 1 .. m - 1 : edUndo'[i].after = edUndo'[i].serial
        BY <1>0, <1>2, <1>9
    <2>2. \A i \in 1 .. n + 1 : edRedo'[i].after = edRedo'[i].serial
        <3> TAKE i \in 1 .. n + 1
        <3>1. CASE i = n + 1
            BY <3>1, <1>0, <1>4, <1>9
        <3>2. CASE i \in 1 .. n
            BY <3>2, <1>4, <1>9
        <3> QED BY <3>1, <3>2, <1>0
    <2>3. m # 1 => edUndo'[m - 1].after = now'.overlay
        <3> HAVE m # 1
        <3>1. m - 1 \in 1 .. m - 1 /\ (m - 1) + 1 = m
            BY <1>0
        <3>2. edUndo[m].before = edUndo[m - 1].after
            BY <1>9, <3>1
        <3> QED BY <3>1, <3>2, <1>2, <1>7
    <2>4. \A i \in 1 .. (m - 1) - 1 : edUndo'[i + 1].before = edUndo'[i].after
        <3> TAKE i \in 1 .. (m - 1) - 1
        <3>1. i \in 1 .. m - 1 /\ i + 1 \in 1 .. m - 1
            BY <1>0
        <3> QED BY <3>1, <1>2, <1>9
    <2>5. edRedo'[n + 1].before = now'.overlay
        BY <1>4, <1>7
    <2>6. \A i \in 1 .. (n + 1) - 1 : edRedo'[i].before = edRedo'[i + 1].after
        <3> TAKE i \in 1 .. (n + 1) - 1
        <3>1. CASE i = n
            BY <3>1, <1>0, <1>4, <1>9
        <3>2. CASE i \in 1 .. n - 1
            BY <3>2, <1>0, <1>4, <1>9
        <3> QED BY <3>1, <3>2, <1>0
    <2>7. (edUndo' # <<>> => m # 1) /\ Last(edUndo') = edUndo'[m - 1] /\ Last(edRedo') = edRedo'[n + 1]
        BY <1>0, <1>2, <1>4 DEF Last
    <2> QED BY <2>1, <2>2, <2>3, <2>4, <2>5, <2>6, <2>7, <1>2, <1>4, <1>5 DEF Chained
<1>12. TopSerial(edUndo) = edUndo[m].serial /\ TopSerial(edUndo) = now.overlay
    BY <1>1, <1>2, <1>7, <1>9 DEF TopSerial
<1>13. Serials(edUndo) = Serials(edUndo') \union {TopSerial(edUndo)}
    BY <1>2, <1>12, SerialsInRange
<1>14. TopSerial(edUndo) \notin Serials(edUndo')
    <2>1. \A k \in 1 .. m - 1 : edUndo'[k].serial < edUndo[m].serial
        BY <1>1, <1>2, <1>8
    <2>2. edUndo[m].serial \in Nat
        BY <1>2 DEF EditorSteps, Numbers
    <2> QED BY <2>1, <2>2, <1>5, <1>12 DEF Serials
<1> QED
    BY <1>2, <1>6, <1>10, <1>11, <1>12, <1>13, <1>14

LEMMA RedoneStack ==
    ASSUME TypeOK, Stacked, Chained, EditorRedone, now'.overlay = Last(edRedo).after
    PROVE  /\ Stacked' /\ Chained'
           /\ Range(edUndo') = Range(edUndo) \union {Last(edRedo)} /\ Range(edRedo') \subseteq Range(edRedo)
           /\ Last(edRedo).before = now.overlay /\ Last(edRedo).after = Last(edRedo).serial
           /\ Last(edRedo).serial \notin Serials(edUndo) \union Serials(edRedo')
           /\ Serials(edUndo') = Serials(edUndo) \union {Last(edRedo).serial}
<1> DEFINE m == Len(edUndo)
<1> DEFINE n == Len(edRedo)
<1>1. edUndo \in Seq(EditorSteps) /\ edRedo \in Seq(EditorSteps) /\ m \in Nat /\ n \in Nat \ {0}
    BY DEF TypeOK, EditorRedone
<1>2. /\ edRedo' \in Seq(EditorSteps) /\ Len(edRedo') = n - 1 /\ \A k \in 1 .. n - 1 : edRedo'[k] = edRedo[k]
      /\ Last(edRedo) = edRedo[n] /\ Last(edRedo) \in EditorSteps /\ Range(edRedo) = Range(edRedo') \union {Last(edRedo)}
    BY <1>1, FrontOfStack DEF EditorRedone
<1>3. edRedo # <<>> /\ edUndo' = Append(edUndo, edRedo[n])
    BY <1>2 DEF EditorRedone
<1>4. /\ edUndo' \in Seq(EditorSteps) /\ Len(edUndo') = m + 1 /\ edUndo'[m + 1] = edRedo[n]
      /\ \A k \in 1 .. m : edUndo'[k] = edUndo[k]
    BY <1>1, <1>2, <1>3
<1>5. /\ DOMAIN edUndo = 1 .. m /\ DOMAIN edRedo = 1 .. n
      /\ DOMAIN edUndo' = 1 .. m + 1 /\ DOMAIN edRedo' = 1 .. n - 1
    BY <1>1, <1>2, <1>4
<1>6. Range(edUndo') = Range(edUndo) \union {Last(edRedo)}
    BY <1>1, <1>2, <1>3, AppendRange
<1>7. edRedo[n].before = now.overlay /\ now'.overlay = edRedo[n].after
    BY <1>1, <1>2, <1>3 DEF Chained
<1>8. /\ \A i, j \in 1 .. m : i < j => edUndo[i].serial < edUndo[j].serial
      /\ \A i, j \in 1 .. n : i < j => edRedo[j].serial < edRedo[i].serial
      /\ \A i \in 1 .. m, j \in 1 .. n : edUndo[i].serial < edRedo[j].serial
    BY <1>5 DEF Stacked, InTurn
<1>9. /\ \A i \in 1 .. m : edUndo[i].after = edUndo[i].serial
      /\ \A i \in 1 .. n : edRedo[i].after = edRedo[i].serial
      /\ \A i \in 1 .. m - 1 : edUndo[i + 1].before = edUndo[i].after
      /\ \A i \in 1 .. n - 1 : edRedo[i].before = edRedo[i + 1].after
      /\ m # 0 => edUndo[m].after = edRedo[n].before
    BY <1>1, <1>2, <1>5, <1>7 DEF Chained, Last
<1>0. m \in Nat /\ n # 0 /\ n \in Nat
    BY <1>1
<1> HIDE DEF m, n
<1>10. Stacked'
    <2>1. \A i, j \in 1 .. n - 1 : i < j => edRedo'[j].serial < edRedo'[i].serial
        BY <1>0, <1>2, <1>8
    <2>2. \A i, j \in 1 .. m + 1 : i < j => edUndo'[i].serial < edUndo'[j].serial
        <3> TAKE i, j \in 1 .. m + 1
        <3> HAVE i < j
        <3>1. i \in 1 .. m /\ edUndo'[i] = edUndo[i] /\ n \in 1 .. n
            BY <1>0, <1>4
        <3>2. CASE j = m + 1
            BY <3>1, <3>2, <1>0, <1>4, <1>8
        <3>3. CASE j \in 1 .. m
            BY <3>1, <3>3, <1>4, <1>8
        <3> QED BY <3>2, <3>3, <1>0
    <2>3. \A i \in 1 .. m + 1, j \in 1 .. n - 1 : edUndo'[i].serial < edRedo'[j].serial
        <3> TAKE i \in 1 .. m + 1, j \in 1 .. n - 1
        <3>1. j \in 1 .. n /\ j < n /\ n \in 1 .. n /\ edRedo'[j] = edRedo[j]
            BY <1>0, <1>2
        <3>2. CASE i = m + 1
            BY <3>1, <3>2, <1>4, <1>8
        <3>3. CASE i \in 1 .. m
            BY <3>1, <3>3, <1>4, <1>8
        <3> QED BY <3>2, <3>3, <1>0
    <2> QED BY <2>1, <2>2, <2>3, <1>5 DEF Stacked, InTurn
<1>11. Chained'
    <2>1. \A i \in 1 .. n - 1 : edRedo'[i].after = edRedo'[i].serial
        BY <1>0, <1>2, <1>9
    <2>2. \A i \in 1 .. m + 1 : edUndo'[i].after = edUndo'[i].serial
        <3> TAKE i \in 1 .. m + 1
        <3>1. CASE i = m + 1
            BY <3>1, <1>0, <1>4, <1>9
        <3>2. CASE i \in 1 .. m
            BY <3>2, <1>4, <1>9
        <3> QED BY <3>1, <3>2, <1>0
    <2>3. n # 1 => edRedo'[n - 1].before = now'.overlay
        <3> HAVE n # 1
        <3>1. n - 1 \in 1 .. n - 1 /\ (n - 1) + 1 = n
            BY <1>0
        <3>2. edRedo[n - 1].before = edRedo[n].after
            BY <1>9, <3>1
        <3> QED BY <3>1, <3>2, <1>2, <1>7
    <2>4. \A i \in 1 .. (n - 1) - 1 : edRedo'[i].before = edRedo'[i + 1].after
        <3> TAKE i \in 1 .. (n - 1) - 1
        <3>1. i \in 1 .. n - 1 /\ i + 1 \in 1 .. n - 1
            BY <1>0
        <3> QED BY <3>1, <1>2, <1>9
    <2>5. edUndo'[m + 1].after = now'.overlay
        BY <1>4, <1>7
    <2>6. \A i \in 1 .. (m + 1) - 1 : edUndo'[i + 1].before = edUndo'[i].after
        <3> TAKE i \in 1 .. (m + 1) - 1
        <3>1. CASE i = m
            BY <3>1, <1>0, <1>4, <1>9
        <3>2. CASE i \in 1 .. m - 1
            BY <3>2, <1>0, <1>4, <1>9
        <3> QED BY <3>1, <3>2, <1>0
    <2>7. (edRedo' # <<>> => n # 1) /\ Last(edRedo') = edRedo'[n - 1] /\ Last(edUndo') = edUndo'[m + 1]
        BY <1>0, <1>2, <1>4 DEF Last
    <2> QED BY <2>1, <2>2, <2>3, <2>4, <2>5, <2>6, <2>7, <1>2, <1>4, <1>5 DEF Chained
<1>12. Last(edRedo).serial \notin Serials(edUndo) \union Serials(edRedo')
    <2>1. \A k \in 1 .. n - 1 : edRedo[n].serial < edRedo'[k].serial
        BY <1>1, <1>2, <1>8
    <2>2. \A k \in 1 .. m : edUndo[k].serial < edRedo[n].serial
        BY <1>1, <1>8
    <2>3. edRedo[n].serial \in Nat
        BY <1>2 DEF EditorSteps, Numbers
    <2> QED BY <2>1, <2>2, <2>3, <1>2, <1>5 DEF Serials
<1>13. Last(edRedo).after = Last(edRedo).serial
    BY <1>1, <1>2, <1>9
<1>14. Serials(edUndo') = Serials(edUndo) \union {Last(edRedo).serial}
    BY <1>6, SerialsInRange
<1> QED
    BY <1>2, <1>6, <1>7, <1>10, <1>11, <1>12, <1>13, <1>14
----------------------------------------------------------------------------
(* The list against the steps of the sources *)

\* An entry of a source is a step of it: the editor's serials are ed, those of the tags here.
Fits(list, ed, here) ==
    \A e \in Range(list) :
        /\ e.source = "speakers" => e.serial \in ed /\ e.link = 0
        /\ e.source = "tags" => e.serial \in here /\ e.link = 0

\* All steps are there, in the order of time, and none both alone and absorbed.
Mirrors(list, ed, here, time) ==
    /\ InOrder(list, time)
    /\ \A e \in Range(list) : e.source = "speakers" => e.serial <= time[e.serial]
    /\ \A s \in ed : Known(list, "speakers", s)
    /\ \A s \in here : Known(list, "tags", s)
    /\ \A d, e \in Range(list) : d.source = "speakers" /\ e.link # 0 => d.serial # e.link

Times == [Numbers -> Values]

LEMMA EntryTypes ==
    ASSUME NEW list \in Seq(Entries), NEW e \in Range(list)
    PROVE  /\ e \in Entries /\ e.serial \in Numbers /\ e.serial \in Nat /\ e.serial # 0 /\ e.link \in Nat
           /\ e.source \in {"speakers", "tags", "participants"}
<1>1. e \in Entries
    BY DEF Range
<1> QED
    BY <1>1, UndoAssumption DEF Entries, Numbers, Values

\* Later in the list is later in time, and a serial is there once.
LEMMA InOrderWhere ==
    ASSUME NEW list \in Seq(Entries), NEW time \in Times, InOrder(list, time),
           NEW i \in DOMAIN list, NEW j \in DOMAIN list
    PROVE  /\ time[list[i].serial] < time[list[j].serial] => i < j
           /\ i <= j => time[list[i].serial] <= time[list[j].serial]
           /\ list[i].serial = list[j].serial => i = j
<1>1. i \in Nat /\ j \in Nat
    OBVIOUS
<1>2. list[i] \in Range(list) /\ list[j] \in Range(list)
    BY DEF Range
<1>3. list[i].serial \in Numbers /\ list[j].serial \in Numbers
    BY <1>2, EntryTypes
<1>4. time[list[i].serial] \in Nat /\ time[list[j].serial] \in Nat
    BY <1>3, UndoAssumption DEF Times, Values
<1>5. /\ i < j => time[list[i].serial] < time[list[j].serial]
      /\ j < i => time[list[j].serial] < time[list[i].serial]
    BY DEF InOrder
<1> QED
    BY <1>1, <1>4, <1>5

LEMMA InOrderOtherwise ==
    ASSUME NEW list, NEW t, NEW u, InOrder(list, t), \A e \in Range(list) : u[e.serial] = t[e.serial]
    PROVE  InOrder(list, u)
BY DEF InOrder, Range

LEMMA EditorFits ==
    ASSUME NEW list \in Seq(Entries), NEW steps \in Seq(EditorSteps), NEW ed, NEW here, Fits(list, ed, here)
    PROVE  /\ Fits(WithEditor(list, steps), Serials(steps), here)
           /\ \A e \in Range(WithEditor(list, steps)) : e \in Range(list) \/ e.source = "speakers"
<1> SUFFICES ASSUME NEW e \in Range(WithEditor(list, steps))
             PROVE  /\ e.source = "speakers" => e.serial \in Serials(steps) /\ e.link = 0
                    /\ e.source = "tags" => e.serial \in here /\ e.link = 0
                    /\ e \in Range(list) \/ e.source = "speakers"
    BY DEF Fits
<1>1. e \in Stay(list, "speakers", steps) \/ \E n \in Serials(steps) : e = Entry("speakers", n, 0, 0)
    BY WithEditorRange
<1>2. CASE e \in Stay(list, "speakers", steps)
    BY <1>2 DEF Stay, Fits
<1>3. CASE \E n \in Serials(steps) : e = Entry("speakers", n, 0, 0)
    BY <1>3 DEF Entry
<1> QED
    BY <1>1, <1>2, <1>3

LEMMA TagsFit ==
    ASSUME NEW list \in Seq(Entries), NEW tags \in Seq(TagSteps), NEW ed, NEW here, Fits(list, ed, here)
    PROVE  /\ Fits(WithTags(list, tags), ed, HereIn(tags))
           /\ \A e \in Range(WithTags(list, tags)) : e \in Range(list) \/ e.source = "tags"
<1> SUFFICES ASSUME NEW e \in Range(WithTags(list, tags))
             PROVE  /\ e.source = "speakers" => e.serial \in ed /\ e.link = 0
                    /\ e.source = "tags" => e.serial \in HereIn(tags) /\ e.link = 0
                    /\ e \in Range(list) \/ e.source = "tags"
    BY DEF Fits
<1>0. Serials(Belonging(tags)) = HereIn(tags)
    BY BelongingSteps
<1>1. e \in Stay(list, "tags", Belonging(tags)) \/ \E n \in HereIn(tags) : e = Entry("tags", n, 0, 0)
    BY WithTagsRange
<1>2. CASE e \in Stay(list, "tags", Belonging(tags))
    BY <1>0, <1>2 DEF Stay, Fits
<1>3. CASE \E n \in HereIn(tags) : e = Entry("tags", n, 0, 0)
    BY <1>3 DEF Entry
<1> QED
    BY <1>1, <1>2, <1>3

LEMMA EditorSame ==
    ASSUME NEW list \in Seq(Entries), Len(list) <= MaxEntries, NEW steps \in Seq(EditorSteps),
           \A s \in Serials(steps) : Known(list, "speakers", s),
           \A e \in Range(list) : e.source = "speakers" => e.serial \in Serials(steps)
    PROVE  WithEditor(list, steps) = list
<1>1. \A x \in Range(steps) : Known(list, "speakers", x.serial)
    BY DEF Range, Serials
<1>2. Merged(list, "speakers", steps) = list
    BY <1>1, MergedSame
<1> QED
    BY <1>2, TrimmedList DEF WithEditor

LEMMA TagsSame ==
    ASSUME NEW list \in Seq(Entries), Len(list) <= MaxEntries, NEW tags \in Seq(TagSteps),
           \A s \in HereIn(tags) : Known(list, "tags", s),
           \A e \in Range(list) : e.source = "tags" => e.serial \in HereIn(tags)
    PROVE  WithTags(list, tags) = list
<1>0. /\ Belonging(tags) \in Seq(TagSteps) /\ Serials(Belonging(tags)) = HereIn(tags)
      /\ \A x \in Range(Belonging(tags)) : x.serial \in HereIn(tags)
    BY BelongingSteps DEF HereIn
<1>2. Merged(list, "tags", Belonging(tags)) = list
    BY <1>0, MergedSame
<1> QED
    BY <1>2, TrimmedList DEF WithTags

\* Nothing is new: what stays of the list is the list.
LEMMA EditorLess ==
    ASSUME NEW list \in Seq(Entries), Len(list) <= MaxEntries, NEW steps \in Seq(EditorSteps),
           \A s \in Serials(steps) : Known(list, "speakers", s)
    PROVE  /\ WithEditor(list, steps) = Only(list, Stay(list, "speakers", steps))
           /\ Range(WithEditor(list, steps)) = Stay(list, "speakers", steps)
<1> DEFINE kept == Only(list, Stay(list, "speakers", steps))
<1>1. \A x \in Range(steps) : Known(list, "speakers", x.serial)
    BY DEF Range, Serials
<1>2. Merged(list, "speakers", steps) = kept
    BY <1>1, MergedLess
<1>3. kept \in Seq(Entries) /\ Len(kept) <= Len(list) /\ Range(kept) = Stay(list, "speakers", steps)
    BY OnlyRange DEF Stay
<1> HIDE DEF kept
<1>4. Len(kept) <= MaxEntries
    BY <1>3, UndoAssumption
<1>5. WithEditor(list, steps) = kept
    BY <1>2, <1>3, <1>4, TrimmedList DEF WithEditor
<1> QED
    BY <1>3, <1>5 DEF kept

LEMMA TagsLess ==
    ASSUME NEW list \in Seq(Entries), Len(list) <= MaxEntries, NEW tags \in Seq(TagSteps),
           \A s \in HereIn(tags) : Known(list, "tags", s)
    PROVE  /\ WithTags(list, tags) = Only(list, Stay(list, "tags", Belonging(tags)))
           /\ Range(WithTags(list, tags)) = Stay(list, "tags", Belonging(tags))
<1> DEFINE kept == Only(list, Stay(list, "tags", Belonging(tags)))
<1>1. /\ Belonging(tags) \in Seq(TagSteps)
      /\ \A x \in Range(Belonging(tags)) : x.serial \in HereIn(tags)
    BY BelongingSteps DEF HereIn
<1>2. Merged(list, "tags", Belonging(tags)) = kept
    BY <1>1, MergedLess
<1>3. kept \in Seq(Entries) /\ Len(kept) <= Len(list) /\ Range(kept) = Stay(list, "tags", Belonging(tags))
    BY OnlyRange DEF Stay
<1> HIDE DEF kept
<1>4. Len(kept) <= MaxEntries
    BY <1>3, UndoAssumption
<1>5. WithTags(list, tags) = kept
    BY <1>2, <1>3, <1>4, TrimmedList DEF WithTags
<1> QED
    BY <1>3, <1>5 DEF kept
\* A list that is only part of the list: what it must keep.
LEMMA MirrorsOnly ==
    ASSUME NEW list \in Seq(Entries), NEW S, NEW ed, NEW here, NEW time, Mirrors(list, ed, here, time),
           NEW ed2 \in SUBSET ed, NEW here2 \in SUBSET here, 0 \notin ed2,
           \A e \in Range(list) \ S :
                /\ e.link \notin ed2
                /\ e.source = "speakers" => e.serial \notin ed2
                /\ e.source = "tags" => e.serial \notin here2
    PROVE  Mirrors(Only(list, S), ed2, here2, time)
<1> DEFINE new == Only(list, S)
<1>1. Range(new) = Range(list) \intersect S
    BY OnlyRange
<1>2. InOrder(new, time)
    BY OnlyInOrder DEF Mirrors
<1> HIDE DEF new
<1>3. \A e \in Range(new) : e.source = "speakers" => e.serial <= time[e.serial]
    BY <1>1 DEF Mirrors
<1>4. \A d, e \in Range(new) : d.source = "speakers" /\ e.link # 0 => d.serial # e.link
    BY <1>1 DEF Mirrors
<1>5. \A s \in ed2 : Known(new, "speakers", s)
    <2> SUFFICES ASSUME NEW s \in ed2 PROVE Known(new, "speakers", s)
        OBVIOUS
    <2>1. Known(list, "speakers", s)
        BY DEF Mirrors
    <2>2. PICK e \in Range(list) : (e.source = "speakers" /\ e.serial = s) \/ e.link = s
        BY <2>1, KnownIn
    <2>3. e \in Range(new)
        BY <1>1, <2>2
    <2> QED BY <2>2, <2>3, KnownIn
<1>6. \A s \in here2 : Known(new, "tags", s)
    <2> SUFFICES ASSUME NEW s \in here2 PROVE Known(new, "tags", s)
        OBVIOUS
    <2>1. Known(list, "tags", s)
        BY DEF Mirrors
    <2>2. PICK e \in Range(list) : e.source = "tags" /\ e.serial = s
        BY <2>1, KnownIn
    <2>3. e \in Range(new)
        BY <1>1, <2>2
    <2> QED BY <2>2, <2>3, KnownIn
<1>7. Mirrors(new, ed2, here2, time)
    BY <1>2, <1>3, <1>4, <1>5, <1>6 DEF Mirrors
<1> QED
    BY <1>7 DEF new

\* One more entry on top, the latest.
LEMMA MirrorsAppend ==
    ASSUME NEW list \in Seq(Entries), NEW x \in Entries, NEW ed, NEW here, NEW t, Mirrors(list, ed, here, t),
           NEW ed2, NEW here2, NEW u,
           \A e \in Range(list) : u[e.serial] = t[e.serial] /\ t[e.serial] < u[x.serial],
           x.source = "speakers" => /\ x.serial <= u[x.serial] /\ x.link = 0
                                    /\ \A e \in Range(list) : e.link # x.serial,
           x.link # 0 => \A d \in Range(list) : d.source = "speakers" => d.serial # x.link,
           \A s \in ed2 : s \in ed \/ (x.source = "speakers" /\ s = x.serial) \/ s = x.link,
           \A s \in here2 : s \in here \/ (x.source = "tags" /\ s = x.serial)
    PROVE  Mirrors(Append(list, x), ed2, here2, u)
<1> DEFINE new == Append(list, x)
<1>1. Range(new) = Range(list) \union {x}
    BY AppendRange
<1>2. InOrder(new, u)
    <2>1. InOrder(list, u)
        BY InOrderOtherwise DEF Mirrors
    <2> QED BY <2>1, AppendInOrder
<1> HIDE DEF new
<1>3. \A e \in Range(new) : e.source = "speakers" => e.serial <= u[e.serial]
    BY <1>1 DEF Mirrors
<1>4. \A d, e \in Range(new) : d.source = "speakers" /\ e.link # 0 => d.serial # e.link
    <2> TAKE d, e \in Range(new)
    <2> HAVE d.source = "speakers" /\ e.link # 0
    <2>1. CASE d = x
        BY <1>1, <2>1
    <2>2. CASE e = x
        BY <1>1, <2>2
    <2>3. CASE d \in Range(list) /\ e \in Range(list)
        BY <2>3 DEF Mirrors
    <2> QED BY <1>1, <2>1, <2>2, <2>3
<1>5. \A s \in ed2 : Known(new, "speakers", s)
    <2> SUFFICES ASSUME NEW s \in ed2 PROVE Known(new, "speakers", s)
        OBVIOUS
    <2>1. CASE s \in ed
        <3>1. Known(list, "speakers", s)
            BY <2>1 DEF Mirrors
        <3> QED BY <1>1, <3>1, KnownIn
    <2>2. CASE (x.source = "speakers" /\ s = x.serial) \/ s = x.link
        BY <1>1, <2>2, KnownIn
    <2> QED BY <2>1, <2>2
<1>6. \A s \in here2 : Known(new, "tags", s)
    <2> SUFFICES ASSUME NEW s \in here2 PROVE Known(new, "tags", s)
        OBVIOUS
    <2>1. CASE s \in here
        <3>1. Known(list, "tags", s)
            BY <2>1 DEF Mirrors
        <3> QED BY <1>1, <3>1, KnownIn
    <2>2. CASE x.source = "tags" /\ s = x.serial
        BY <1>1, <2>2, KnownIn
    <2> QED BY <2>1, <2>2
<1>7. Mirrors(new, ed2, here2, u)
    BY <1>2, <1>3, <1>4, <1>5, <1>6 DEF Mirrors
<1> QED
    BY <1>7 DEF new

\* Steps that are gone take their entries with them, and nothing else changes.
LEMMA MirrorsLessEditor ==
    ASSUME NEW list \in Seq(Entries), Len(list) <= MaxEntries, NEW steps \in Seq(EditorSteps),
           NEW ed, NEW here, NEW time, Fits(list, ed, here), Mirrors(list, ed, here, time),
           0 \notin ed, Serials(steps) \subseteq ed
    PROVE  Mirrors(WithEditor(list, steps), Serials(steps), here, time)
<1> DEFINE S == Stay(list, "speakers", steps)
<1>1. \A s \in Serials(steps) : Known(list, "speakers", s)
    BY DEF Mirrors
<1>2. WithEditor(list, steps) = Only(list, S)
    BY <1>1, EditorLess
<1>3. \A e \in Range(list) \ S : e.source = "speakers" /\ e.serial \notin Serials(steps) /\ e.link = 0
    BY DEF Stay, Fits
<1> HIDE DEF S
<1>4. \A e \in Range(list) \ S :
            /\ e.link \notin Serials(steps)
            /\ e.source = "speakers" => e.serial \notin Serials(steps)
            /\ e.source = "tags" => e.serial \notin here
    BY <1>3
<1> QED
    BY <1>2, <1>4, MirrorsOnly

LEMMA MirrorsLessTags ==
    ASSUME NEW list \in Seq(Entries), Len(list) <= MaxEntries, NEW tags \in Seq(TagSteps),
           NEW ed, NEW here, NEW time, Fits(list, ed, here), Mirrors(list, ed, here, time),
           0 \notin ed, HereIn(tags) \subseteq here
    PROVE  Mirrors(WithTags(list, tags), ed, HereIn(tags), time)
<1> DEFINE S == Stay(list, "tags", Belonging(tags))
<1>1. \A s \in HereIn(tags) : Known(list, "tags", s)
    BY DEF Mirrors
<1>2. WithTags(list, tags) = Only(list, S)
    BY <1>1, TagsLess
<1>3. \A e \in Range(list) \ S : e.source = "tags" /\ e.serial \notin HereIn(tags) /\ e.link = 0
    BY BelongingSteps DEF Stay, Fits
<1> HIDE DEF S
<1>4. \A e \in Range(list) \ S :
            /\ e.link \notin ed
            /\ e.source = "speakers" => e.serial \notin ed
            /\ e.source = "tags" => e.serial \notin HereIn(tags)
    BY <1>3
<1> QED
    BY <1>2, <1>4, MirrorsOnly

\* One step is new.
LEMMA OneNew ==
    ASSUME NEW list \in Seq(Entries), NEW source \in {"speakers", "tags"}, NEW T, \A x \in T : x.serial \in Numbers,
           NEW steps \in Seq(T), InTurn(steps), NEW n \in Serials(steps), ~Known(list, source, n),
           \A s \in Serials(steps) \ {n} : Known(list, source, s)
    PROVE  LET kept == Only(list, Stay(list, source, steps))
               x == Entry(source, n, 0, 0)
           IN  /\ x \in Entries /\ kept \in Seq(Entries) /\ Len(kept) <= Len(list)
               /\ Range(kept) = Stay(list, source, steps)
               /\ Merged(list, source, steps) = Append(kept, x)
               /\ x \in Range(Trimmed(Merged(list, source, steps)))
               /\ Len(list) < MaxEntries => Trimmed(Merged(list, source, steps)) = Append(kept, x)
<1> DEFINE kept == Only(list, Stay(list, source, steps))
<1> DEFINE x == Entry(source, n, 0, 0)
<1>1. PICK i \in DOMAIN steps : steps[i].serial = n
    BY DEF Serials
<1>2. \A j \in DOMAIN steps : steps[j].serial = n => j = i
    <2> TAKE j \in DOMAIN steps
    <2>1. i \in Nat /\ j \in Nat /\ steps[i].serial \in Nat /\ steps[j].serial \in Nat
        <3>1. steps[i] \in T /\ steps[j] \in T
            OBVIOUS
        <3> QED BY <3>1 DEF Numbers
    <2>2. /\ i < j => steps[i].serial < steps[j].serial
          /\ j < i => steps[j].serial < steps[i].serial
        BY DEF InTurn
    <2> QED BY <1>1, <2>1, <2>2
<1>3. \A j \in DOMAIN steps : ~Known(list, source, steps[j].serial) <=> j = i
    BY <1>1, <1>2 DEF Serials
<1>4. Merged(list, source, steps) = Append(kept, x)
    BY <1>1, <1>3, MergedOne
<1>5. n \in Numbers
    BY <1>1
<1>6. x \in Entries
    BY <1>5, EntryIsOne
<1>7. kept \in Seq(Entries) /\ Len(kept) <= Len(list) /\ Range(kept) = Stay(list, source, steps)
    BY OnlyRange DEF Stay
<1> HIDE DEF kept, x
<1>8. /\ Append(kept, x) \in Seq(Entries) /\ Append(kept, x) # <<>> /\ Last(Append(kept, x)) = x
      /\ Len(Append(kept, x)) = Len(kept) + 1
    BY <1>6, <1>7, AppendRange
<1>9. /\ x \in Range(Trimmed(Append(kept, x)))
      /\ Len(Append(kept, x)) <= MaxEntries => Trimmed(Append(kept, x)) = Append(kept, x)
    <2> DEFINE a == Append(kept, x)
    <2>1. a \in Seq(Entries) /\ a # <<>> /\ Last(a) = x
        BY <1>8
    <2> HIDE DEF a
    <2>2. x \in Range(Trimmed(a)) /\ (Len(a) <= MaxEntries => Trimmed(a) = a)
        BY <2>1, TrimmedList
    <2> QED BY <2>2 DEF a
<1>10. Len(list) < MaxEntries => Len(kept) + 1 <= MaxEntries
    BY <1>7, UndoAssumption
<1> QED
    BY <1>4, <1>6, <1>7, <1>8, <1>9, <1>10 DEF kept, x
\* The new entry of the editor is in the list, and the list still mirrors the stacks if nothing was dropped.
LEMMA MirrorsMoreEditor ==
    ASSUME NEW list \in Seq(Entries), NEW steps \in Seq(EditorSteps), InTurn(steps), NEW n \in Serials(steps),
           ~Known(list, "speakers", n), NEW ed, NEW here, NEW t, Fits(list, ed, here), Mirrors(list, ed, here, t),
           0 \notin ed, Serials(steps) \ {n} \subseteq ed, NEW u, n <= u[n],
           \A e \in Range(list) : u[e.serial] = t[e.serial] /\ t[e.serial] < u[n]
    PROVE  /\ Entry("speakers", n, 0, 0) \in Range(WithEditor(list, steps))
           /\ Len(list) < MaxEntries => Mirrors(WithEditor(list, steps), Serials(steps), here, u)
<1> DEFINE S == Stay(list, "speakers", steps)
<1> DEFINE kept == Only(list, S)
<1> DEFINE x == Entry("speakers", n, 0, 0)
<1> DEFINE merged == Merged(list, "speakers", steps)
<1>0. \A z \in EditorSteps : z.serial \in Numbers
    BY DEF EditorSteps
<1>1. /\ x \in Entries /\ kept \in Seq(Entries) /\ Range(kept) = S
      /\ x \in Range(Trimmed(merged))
      /\ Len(list) < MaxEntries => Trimmed(merged) = Append(kept, x)
    <2>1. \A s \in Serials(steps) \ {n} : Known(list, "speakers", s)
        BY DEF Mirrors
    <2> QED BY <1>0, <2>1, OneNew
<1>2. WithEditor(list, steps) = Trimmed(merged)
    BY DEF WithEditor
<1>3. \A e \in Range(list) \ S : e.source = "speakers" /\ e.serial \notin Serials(steps) /\ e.link = 0
    BY DEF Stay, Fits
<1>4. x.source = "speakers" /\ x.serial = n /\ x.link = 0
    BY DEF Entry
<1>5. S \subseteq Range(list)
    BY DEF Stay
<1> HIDE DEF S, x, merged
<1>6. Mirrors(kept, Serials(steps) \ {n}, here, t)
    <2>1. \A e \in Range(list) \ S :
            /\ e.link \notin Serials(steps) \ {n}
            /\ e.source = "speakers" => e.serial \notin Serials(steps) \ {n}
            /\ e.source = "tags" => e.serial \notin here
        BY <1>3
    <2> QED BY <2>1, MirrorsOnly
<1> HIDE DEF kept
<1>7. \A e \in Range(kept) : e.link # n
    <2>1. \A e \in Range(list) : e.link # n
        BY KnownIn
    <2> QED BY <2>1, <1>1, <1>5
<1>8. \A e \in Range(kept) : u[e.serial] = t[e.serial] /\ t[e.serial] < u[n]
    BY <1>1, <1>5
<1>9. Mirrors(Append(kept, x), Serials(steps), here, u)
    BY <1>1, <1>4, <1>6, <1>7, <1>8, MirrorsAppend
<1> QED
    BY <1>1, <1>2, <1>9 DEF x

LEMMA MirrorsMoreTags ==
    ASSUME NEW list \in Seq(Entries), NEW tags \in Seq(TagSteps), InTurn(tags), NEW n \in HereIn(tags),
           ~Known(list, "tags", n), NEW ed, NEW here, NEW t, Fits(list, ed, here), Mirrors(list, ed, here, t),
           0 \notin ed, HereIn(tags) \ {n} \subseteq here, NEW u,
           \A e \in Range(list) : u[e.serial] = t[e.serial] /\ t[e.serial] < u[n]
    PROVE  /\ Entry("tags", n, 0, 0) \in Range(WithTags(list, tags))
           /\ Len(list) < MaxEntries => Mirrors(WithTags(list, tags), ed, HereIn(tags), u)
<1> DEFINE steps == Belonging(tags)
<1> DEFINE S == Stay(list, "tags", steps)
<1> DEFINE kept == Only(list, S)
<1> DEFINE x == Entry("tags", n, 0, 0)
<1> DEFINE merged == Merged(list, "tags", steps)
<1>0. \A z \in TagSteps : z.serial \in Numbers
    BY DEF TagSteps
<1>1. steps \in Seq(TagSteps) /\ Serials(steps) = HereIn(tags)
    BY BelongingSteps
<1>2. InTurn(steps)
    <2>1. InOrder(tags, [s \in Numbers |-> s])
        BY <1>0 DEF InTurn, InOrder
    <2>2. InOrder(steps, [s \in Numbers |-> s])
        BY <2>1, OnlyInOrder DEF Belonging
    <2> HIDE DEF steps
    <2>3. \A i \in DOMAIN steps : steps[i].serial \in Numbers
        BY <1>0, <1>1
    <2> QED BY <2>2, <2>3 DEF InTurn, InOrder
<1> HIDE DEF steps
<1>3. /\ x \in Entries /\ kept \in Seq(Entries) /\ Range(kept) = S
      /\ x \in Range(Trimmed(merged))
      /\ Len(list) < MaxEntries => Trimmed(merged) = Append(kept, x)
    <2>1. \A s \in Serials(steps) \ {n} : Known(list, "tags", s)
        BY <1>1 DEF Mirrors
    <2> QED BY <1>0, <1>1, <1>2, <2>1, OneNew
<1>4. WithTags(list, tags) = Trimmed(merged)
    BY DEF WithTags, steps
<1>5. \A e \in Range(list) \ S : e.source = "tags" /\ e.serial \notin HereIn(tags) /\ e.link = 0
    BY <1>1 DEF Stay, Fits
<1>6. x.source = "tags" /\ x.serial = n /\ x.link = 0
    BY DEF Entry
<1>7. S \subseteq Range(list)
    BY DEF Stay
<1> HIDE DEF S, x, merged
<1>8. Mirrors(kept, ed, HereIn(tags) \ {n}, t)
    <2>1. \A e \in Range(list) \ S :
            /\ e.link \notin ed
            /\ e.source = "speakers" => e.serial \notin ed
            /\ e.source = "tags" => e.serial \notin HereIn(tags) \ {n}
        BY <1>5
    <2> QED BY <2>1, MirrorsOnly
<1> HIDE DEF kept
<1>9. \A e \in Range(kept) : u[e.serial] = t[e.serial] /\ t[e.serial] < u[n]
    BY <1>3, <1>7
<1>10. Mirrors(Append(kept, x), ed, HereIn(tags), u)
    BY <1>3, <1>6, <1>8, <1>9, MirrorsAppend
<1> QED
    BY <1>3, <1>4, <1>10 DEF x
----------------------------------------------------------------------------
(* Numbers and the history *)

OfEditor == Range(edUndo) \union Range(edRedo)

\* Nobody comes to the list before its service, and only an editor has steps of its own.
Owned ==
    /\ ~service => entries = <<>> /\ editor = "none"
    /\ editor = "none" => edUndo = <<>> /\ edRedo = <<>>

\* What a new number cannot meet.
Bounds ==
    /\ \A step \in OfEditor : step.serial <= clock /\ step.before <= clock
    /\ \A step \in Range(tagUndo) : step.serial <= clock
    /\ \A s \in ignored : s <= clock
    /\ EditorSerials \intersect Serials(tagUndo) = {}
    /\ now.overlay <= clock
    /\ \A s \in Numbers : made[s] <= clock /\ is[s].overlay <= clock

\* What a step leads back to is what was there, once the history has noted it as a step of its own.
StepKept(step) ==
    is[step.serial].overlay = step.serial => was[step.serial] = [is[step.serial] EXCEPT !.overlay = step.before]
TagKept(step) == step.here => was[step.serial] = [is[step.serial] EXCEPT !.tags = step.before]
Kept ==
    /\ \A step \in OfEditor : StepKept(step)
    /\ \A step \in Range(tagUndo) : TagKept(step)

Numbered == TypeOK /\ Room /\ Owned /\ Bounds /\ Stacked /\ InTurn(tagUndo) /\ Chained /\ Kept

\* What every action does with numbers: new steps have new ones, and the history of a step that is
\* not on a stack stays.
NewSteps(n) ==
    /\ \A step \in OfEditor' : \/ step \in OfEditor
                               \/ clock < step.serial /\ step.serial <= clock' /\ step.before <= clock'
    /\ \A step \in Range(tagUndo') : \/ step \in Range(tagUndo)
                                     \/ clock < step.serial /\ step.serial <= clock'
    /\ OfEditor' \subseteq OfEditor \/ Range(tagUndo') \subseteq Range(tagUndo)
    /\ \A s \in ignored' : s \in ignored \/ s \in Serials(tagUndo)
    /\ n \in EditorSerials \union Serials(tagUndo) \/ clock < n
    /\ \A s \in Numbers \ {n} : was'[s] = was[s] /\ is'[s] = is[s] /\ made'[s] = made[s]
    /\ made'[n] \in {made[n], clock'} /\ is'[n] \in {is[n], now'}
Ahead == clock <= clock' /\ now'.overlay <= clock' /\ \E n \in Numbers \union {MaxClock + 1} : NewSteps(n)

LEMMA NumberTypes ==
    ASSUME TypeOK
    PROVE  /\ clock \in Nat /\ MaxClock \in Nat /\ now \in Meetings /\ now.overlay \in Nat
           /\ \A step \in OfEditor : step \in EditorSteps /\ step.serial \in Numbers /\ step.serial \in Nat /\ step.before \in Nat
           /\ \A step \in Range(tagUndo) : step \in TagSteps /\ step.serial \in Numbers /\ step.serial \in Nat
           /\ \A s \in Numbers : /\ s \in Nat /\ was[s] \in Meetings /\ is[s] \in Meetings
                                 /\ is[s].overlay \in Nat /\ made[s] \in Nat
           /\ EditorSerials = {step.serial : step \in OfEditor}
           /\ Serials(tagUndo) = {step.serial : step \in Range(tagUndo)}
<1>1. clock \in Nat /\ MaxClock \in Nat /\ now \in Meetings /\ now.overlay \in Nat
    BY UndoAssumption DEF TypeOK, Values, Meetings
<1>2. \A step \in OfEditor : step \in EditorSteps /\ step.serial \in Numbers /\ step.serial \in Nat /\ step.before \in Nat
    <2>1. \A step \in OfEditor : step \in EditorSteps
        BY DEF TypeOK, OfEditor, Range
    <2> QED BY <2>1, UndoAssumption DEF EditorSteps, Numbers, Values
<1>3. \A step \in Range(tagUndo) : step \in TagSteps /\ step.serial \in Numbers /\ step.serial \in Nat
    <2>1. \A step \in Range(tagUndo) : step \in TagSteps
        BY DEF TypeOK, Range
    <2> QED BY <2>1, UndoAssumption DEF TagSteps, Numbers
<1>4. \A s \in Numbers : /\ s \in Nat /\ was[s] \in Meetings /\ is[s] \in Meetings
                         /\ is[s].overlay \in Nat /\ made[s] \in Nat
    BY UndoAssumption DEF TypeOK, Numbers, Values, Meetings
<1>5. EditorSerials = {step.serial : step \in OfEditor} /\ Serials(tagUndo) = {step.serial : step \in Range(tagUndo)}
    BY SerialsInRange DEF EditorSerials, OfEditor
<1> QED
    BY <1>1, <1>2, <1>3, <1>4, <1>5

LEMMA AheadBounds ==
    ASSUME TypeOK, TypeOK', Bounds, Ahead
    PROVE  Bounds'
<1>1. PICK n \in Numbers \union {MaxClock + 1} : NewSteps(n)
    BY DEF Ahead
<1>2. clock \in Nat /\ clock' \in Nat /\ clock <= clock' /\ now'.overlay <= clock'
    BY NumberTypes DEF Ahead, TypeOK, Values
<1>3. /\ \A step \in OfEditor : step.serial \in Nat /\ step.before \in Nat
      /\ \A step \in Range(tagUndo) : step.serial \in Nat
      /\ EditorSerials = {step.serial : step \in OfEditor}
      /\ Serials(tagUndo) = {step.serial : step \in Range(tagUndo)}
    BY NumberTypes
<1>4. /\ \A step \in OfEditor' : step.serial \in Nat /\ step.before \in Nat
      /\ \A step \in Range(tagUndo') : step.serial \in Nat
      /\ EditorSerials' = {step.serial : step \in OfEditor'}
      /\ Serials(tagUndo') = {step.serial : step \in Range(tagUndo')}
    <2>1. OfEditor' = Range(edUndo') \union Range(edRedo') /\ EditorSerials' = Serials(edUndo') \union Serials(edRedo')
        BY DEF OfEditor, EditorSerials
    <2>2. \A step \in Range(edUndo') \union Range(edRedo') : step \in EditorSteps
        BY DEF TypeOK, Range
    <2>3. \A step \in Range(tagUndo') : step \in TagSteps
        BY DEF TypeOK, Range
    <2>4. \A step \in EditorSteps : step.serial \in Nat /\ step.before \in Nat
        BY UndoAssumption DEF EditorSteps, Numbers, Values
    <2>5. \A step \in TagSteps : step.serial \in Nat
        BY UndoAssumption DEF TagSteps, Numbers
    <2>6. EditorSerials' = {step.serial : step \in OfEditor'} /\ Serials(tagUndo') = {step.serial : step \in Range(tagUndo')}
        BY <2>1, SerialsInRange
    <2> QED BY <2>1, <2>2, <2>3, <2>4, <2>5, <2>6
<1>5. \A step \in OfEditor' : step.serial <= clock' /\ step.before <= clock'
    BY <1>1, <1>2, <1>3, <1>4 DEF NewSteps, Bounds
<1>6. \A step \in Range(tagUndo') : step.serial <= clock'
    BY <1>1, <1>2, <1>3, <1>4 DEF NewSteps, Bounds
<1>7. \A s \in ignored' : s <= clock'
    <2> TAKE s \in ignored'
    <2>1. s \in Nat
        BY UndoAssumption DEF TypeOK, Numbers
    <2>2. s <= clock
        BY <1>1, <1>3 DEF NewSteps, Bounds
    <2> QED BY <1>2, <2>1, <2>2
<1>8. EditorSerials' \intersect Serials(tagUndo') = {}
    <2> SUFFICES ASSUME NEW e \in OfEditor', NEW t \in Range(tagUndo'), e.serial = t.serial PROVE FALSE
        BY <1>4
    <2>1. e \notin OfEditor => clock < e.serial /\ t \in Range(tagUndo)
        BY <1>1 DEF NewSteps
    <2>2. t \notin Range(tagUndo) => clock < t.serial
        BY <1>1 DEF NewSteps
    <2>3. CASE e \in OfEditor /\ t \in Range(tagUndo)
        BY <1>3, <2>3 DEF Bounds
    <2>4. CASE e \notin OfEditor
        BY <1>2, <1>3, <2>1, <2>4 DEF Bounds
    <2>5. CASE e \in OfEditor /\ t \notin Range(tagUndo)
        BY <1>2, <1>3, <2>2, <2>5 DEF Bounds
    <2> QED BY <2>3, <2>4, <2>5
<1>9. \A s \in Numbers : made'[s] <= clock' /\ is'[s].overlay <= clock'
    <2> TAKE s \in Numbers
    <2>1. made[s] \in Nat /\ is[s].overlay \in Nat /\ made[s] <= clock /\ is[s].overlay <= clock
        BY NumberTypes DEF Bounds
    <2>2. made'[s] \in {made[s], clock'} /\ is'[s] \in {is[s], now'}
        BY <1>1 DEF NewSteps
    <2> QED BY <1>2, <2>1, <2>2
<1> QED
    BY <1>2, <1>5, <1>6, <1>7, <1>8, <1>9 DEF Bounds
----------------------------------------------------------------------------
(* What an entry says *)

\* A step of the participants: when it was made, what was before it, and the step of the editor it absorbed.
Linked(e) ==
    e.source = "participants" =>
        /\ e.serial <= clock /\ e.serial \notin EditorSerials \union Serials(tagUndo)
        /\ made[e.serial] = e.serial
        /\ was[e.serial].parts = e.before /\ was[e.serial].tags = is[e.serial].tags
        /\ e.link # 0 =>
            /\ e.link + 1 = e.serial
            /\ is[e.serial].overlay = e.link /\ was[e.serial].overlay # e.link
            /\ \A step \in OfEditor : step.serial = e.link => step.before = was[e.serial].overlay

Told == Fits(entries, Serials(edUndo), HereIn(tagUndo)) /\ \A e \in Range(entries) : Linked(e)

Mirror == service /\ ~lost => Mirrors(entries, Serials(edUndo), HereIn(tagUndo), made)

LEMMA LinkedStays ==
    ASSUME TypeOK, TypeOK', Ahead, NEW e \in Entries, Linked(e)
    PROVE  Linked(e)'
<1> SUFFICES ASSUME e.source = "participants" PROVE Linked(e)'
    BY DEF Linked
<1>1. PICK n \in Numbers \union {MaxClock + 1} : NewSteps(n)
    BY DEF Ahead
<1>2. clock \in Nat /\ clock' \in Nat /\ clock <= clock' /\ MaxClock \in Nat
    BY NumberTypes DEF Ahead, TypeOK, Values
<1>3. e.serial \in Numbers /\ e.serial \in Nat /\ e.link \in Nat
    BY UndoAssumption DEF Entries, Numbers, Values
<1>4. /\ e.serial <= clock /\ e.serial \notin EditorSerials \union Serials(tagUndo)
      /\ made[e.serial] = e.serial
      /\ was[e.serial].parts = e.before /\ was[e.serial].tags = is[e.serial].tags
      /\ e.link # 0 =>
            /\ e.link + 1 = e.serial
            /\ is[e.serial].overlay = e.link /\ was[e.serial].overlay # e.link
            /\ \A step \in OfEditor : step.serial = e.link => step.before = was[e.serial].overlay
    BY DEF Linked
<1>5. e.serial # n
    <2>1. n \in Nat
        BY <1>2 DEF Numbers
    <2> QED BY <1>1, <1>2, <1>3, <1>4, <2>1 DEF NewSteps
<1>6. was'[e.serial] = was[e.serial] /\ is'[e.serial] = is[e.serial] /\ made'[e.serial] = made[e.serial]
    BY <1>1, <1>3, <1>5 DEF NewSteps
<1>7. /\ EditorSerials = {step.serial : step \in OfEditor}
      /\ Serials(tagUndo) = {step.serial : step \in Range(tagUndo)}
    BY NumberTypes
<1>8. /\ EditorSerials' = {step.serial : step \in OfEditor'}
      /\ Serials(tagUndo') = {step.serial : step \in Range(tagUndo')}
      /\ \A step \in OfEditor' : step.serial \in Nat
      /\ \A step \in Range(tagUndo') : step.serial \in Nat
    <2>1. OfEditor' = Range(edUndo') \union Range(edRedo') /\ EditorSerials' = Serials(edUndo') \union Serials(edRedo')
        BY DEF OfEditor, EditorSerials
    <2>2. \A step \in Range(edUndo') \union Range(edRedo') : step \in EditorSteps
        BY DEF TypeOK, Range
    <2>3. \A step \in Range(tagUndo') : step \in TagSteps
        BY DEF TypeOK, Range
    <2>4. \A step \in EditorSteps \union TagSteps : step.serial \in Nat
        BY DEF EditorSteps, TagSteps, Numbers
    <2> QED BY <2>1, <2>2, <2>3, <2>4, SerialsInRange
<1>9. e.serial \notin EditorSerials' \union Serials(tagUndo')
    <2>1. \A step \in OfEditor' : step.serial # e.serial
        <3> TAKE step \in OfEditor'
        <3>1. step \in OfEditor \/ clock < step.serial
            BY <1>1 DEF NewSteps
        <3> QED BY <3>1, <1>2, <1>3, <1>4, <1>7, <1>8
    <2>2. \A step \in Range(tagUndo') : step.serial # e.serial
        <3> TAKE step \in Range(tagUndo')
        <3>1. step \in Range(tagUndo) \/ clock < step.serial
            BY <1>1 DEF NewSteps
        <3> QED BY <3>1, <1>2, <1>3, <1>4, <1>7, <1>8
    <2> QED BY <2>1, <2>2, <1>8
<1>10. ASSUME e.link # 0, NEW step \in OfEditor', step.serial = e.link
       PROVE  step.before = was'[e.serial].overlay
    <2>1. step \in OfEditor \/ clock < step.serial
        BY <1>1 DEF NewSteps
    <2>2. ~(clock < step.serial)
        BY <1>2, <1>3, <1>4, <1>10
    <2> QED BY <2>1, <2>2, <1>4, <1>6, <1>10
<1>11. e.serial <= clock'
    BY <1>2, <1>3, <1>4
<1> QED
    BY <1>4, <1>6, <1>9, <1>10, <1>11 DEF Linked

\* An entry that lost the step it absorbed still says what is its own.
LEMMA LinkedAlone ==
    ASSUME NEW e \in Entries, Linked(e)
    PROVE  Linked([e EXCEPT !.link = 0])
BY DEF Linked, Entries

\* The history after a step was recorded.
LEMMA NotedStep ==
    ASSUME TypeOK, NEW n \in Numbers, NEW before, NEW after, Noted(n, before, after)
    PROVE  /\ \A s \in Numbers \ {n} : was'[s] = was[s] /\ is'[s] = is[s] /\ made'[s] = made[s]
           /\ was'[n] = before /\ is'[n] = after /\ made'[n] = clock'
BY DEF TypeOK, Noted
----------------------------------------------------------------------------
(* Every action keeps the numbers in order *)

KeepsNumbers == Ahead /\ Stacked' /\ InTurn(tagUndo)' /\ Chained' /\ Kept'

LEMMA SameEditor ==
    ASSUME Stacked, Chained, edUndo' = edUndo, edRedo' = edRedo, now'.overlay = now.overlay
    PROVE  Stacked' /\ Chained' /\ OfEditor' = OfEditor
BY DEF Stacked, InTurn, Chained, OfEditor

LEMMA ClearedEditor ==
    ASSUME edUndo' = <<>>, edRedo' = <<>>
    PROVE  Stacked' /\ Chained' /\ OfEditor' = {}
<1>1. DOMAIN edUndo' = {} /\ DOMAIN edRedo' = {} /\ Len(edUndo') = 0 /\ Len(edRedo') = 0
    OBVIOUS
<1>2. Stacked'
    BY <1>1 DEF Stacked, InTurn
<1>3. Chained'
    BY <1>1 DEF Chained
<1>4. OfEditor' = {}
    BY <1>1 DEF OfEditor, Range
<1> QED
    BY <1>2, <1>3, <1>4

\* Nothing is new on the stacks, and the history stays.
LEMMA NothingNew ==
    ASSUME Numbered, TypeOK', clock <= clock', now'.overlay <= clock',
           OfEditor' \subseteq OfEditor, Range(tagUndo') \subseteq Range(tagUndo),
           ignored' \in {ignored, Serials(tagUndo)}, was' = was, is' = is,
           made' = made \/ \E n \in Serials(tagUndo) : made' = [made EXCEPT ![n] = clock']
    PROVE  Ahead /\ Kept'
<1>1. Ahead
    <2>1. CASE made' = made
        <3>1. NewSteps(MaxClock + 1)
            <4>1. clock < MaxClock + 1
                BY UndoAssumption DEF Numbered, TypeOK, Values
            <4> QED BY <2>1, <4>1 DEF NewSteps
        <3> QED BY <3>1 DEF Ahead
    <2>2. CASE \E n \in Serials(tagUndo) : made' = [made EXCEPT ![n] = clock']
        <3>1. PICK n \in Serials(tagUndo) : made' = [made EXCEPT ![n] = clock']
            BY <2>2
        <3>2. n \in Numbers
            BY SerialTypes DEF Numbered
        <3>3. made'[n] = clock' /\ \A s \in Numbers \ {n} : made'[s] = made[s]
            BY <3>1, <3>2 DEF Numbered, TypeOK
        <3>4. NewSteps(n)
            BY <3>3 DEF NewSteps
        <3> QED BY <3>2, <3>4 DEF Ahead
    <2> QED BY <2>1, <2>2
<1>2. Kept'
    BY DEF Numbered, Kept, StepKept, TagKept
<1> QED
    BY <1>1, <1>2

\* A new step of the editor.
LEMMA EditorGrows ==
    ASSUME Numbered, NEW n \in Numbers, clock < n, EditorPushed(n), now'.overlay = n
    PROVE  /\ Stacked' /\ Chained' /\ OfEditor' \subseteq OfEditor \union {EditorStep(n, now.overlay)}
           /\ edUndo' # <<>> /\ Last(edUndo') = EditorStep(n, now.overlay) /\ TopSerial(edUndo') = n
           /\ Serials(edUndo') \subseteq Serials(edUndo) \union {n} /\ n \in Serials(edUndo') /\ InTurn(edUndo')
<1> DEFINE x == EditorStep(n, now.overlay)
<1>1. \A s \in EditorSerials : s < n
    <2>1. clock \in Nat /\ n \in Nat /\ EditorSerials = {step.serial : step \in OfEditor}
          /\ \A step \in OfEditor : step.serial \in Nat
        BY NumberTypes DEF Numbered, Numbers
    <2>2. \A step \in OfEditor : step.serial <= clock
        BY DEF Numbered, Bounds
    <2> QED BY <2>1, <2>2
<1>2. /\ Stacked' /\ Chained' /\ Range(edUndo') \subseteq Range(edUndo) \union {x}
      /\ edUndo' # <<>> /\ Last(edUndo') = x
    BY <1>1, PushedStack DEF Numbered
<1>3. Range(edRedo') = {}
    BY DEF EditorPushed, Range
<1>4. OfEditor' \subseteq OfEditor \union {x}
    BY <1>2, <1>3 DEF OfEditor
<1>5. x.serial = n
    BY DEF EditorStep
<1>6. edUndo' \in Seq(EditorSteps)
    <2>1. Limited(Append(edUndo, x), EditorLimit) \in Seq(EditorSteps)
        BY PushTypes DEF Numbered
    <2> QED BY <2>1 DEF EditorPushed
<1>7. TopSerial(edUndo') = n
    BY <1>2, <1>5 DEF TopSerial
<1>8. n \in Serials(edUndo')
    BY <1>2, <1>6, <1>7, TopOfStack
<1>9. Serials(edUndo') \subseteq Serials(edUndo) \union {n}
    BY <1>2, <1>5, SerialsInRange
<1>10. InTurn(edUndo')
    BY <1>2 DEF Stacked, InTurn
<1> QED
    BY <1>2, <1>4, <1>7, <1>8, <1>9, <1>10

LEMMA Put ==
    ASSUME NEW m \in Meetings, NEW v
    PROVE  /\ [[m EXCEPT !.overlay = v] EXCEPT !.overlay = m.overlay] = m
           /\ [[m EXCEPT !.tags = v] EXCEPT !.tags = m.tags] = m
           /\ [m EXCEPT !.overlay = v].overlay = v /\ [m EXCEPT !.tags = v].overlay = m.overlay
           /\ [m EXCEPT !.parts = v].overlay = m.overlay
BY DEF Meetings

LEMMA EditNumbers ==
    ASSUME Numbered, TypeOK', Edit
    PROVE  KeepsNumbers
<1> DEFINE n == clock'
<1> DEFINE x == EditorStep(n, now.overlay)
<1>1. /\ clock \in Nat /\ n = clock + 1 /\ n \in Numbers /\ clock < n
    BY TickTime DEF Numbered, Edit
<1>2. EditorPushed(n) /\ now' = [now EXCEPT !.overlay = n] /\ Noted(n, now, now')
      /\ UNCHANGED <<service, editor, tagUndo, ignored>>
    BY DEF Edit, EditorPushed
<1>3. now \in Meetings
    BY DEF Numbered, TypeOK
<1>4. now'.overlay = n /\ [now' EXCEPT !.overlay = now.overlay] = now
    BY <1>2, <1>3, Put
<1>5. Stacked' /\ Chained' /\ OfEditor' \subseteq OfEditor \union {x}
    BY <1>1, <1>2, <1>4, EditorGrows
<1>6. /\ \A s \in Numbers \ {n} : was'[s] = was[s] /\ is'[s] = is[s] /\ made'[s] = made[s]
      /\ was'[n] = now /\ is'[n] = now' /\ made'[n] = clock'
    BY <1>1, <1>2, NotedStep DEF Numbered
<1>7. now.overlay <= clock /\ now.overlay \in Nat
    BY NumberTypes DEF Numbered, Bounds
<1>8. x.serial = n /\ x.before = now.overlay
    BY DEF EditorStep
<1> HIDE DEF x
<1>9. Ahead
    <2>1. clock <= n /\ now'.overlay <= n /\ now.overlay <= n /\ n <= n
        BY <1>1, <1>4, <1>7
    <2>2. NewSteps(n)
        BY <1>1, <1>2, <1>5, <1>6, <1>8, <2>1 DEF NewSteps
    <2> QED BY <1>1, <2>1, <2>2 DEF Ahead
<1>10. \A step \in OfEditor : StepKept(step)'
    <2> TAKE step \in OfEditor
    <2>1. step.serial \in Numbers /\ step.serial # n
        BY <1>1, NumberTypes DEF Numbered, Bounds
    <2>2. was'[step.serial] = was[step.serial] /\ is'[step.serial] = is[step.serial]
        BY <1>6, <2>1
    <2>3. StepKept(step)
        BY DEF Numbered, Kept
    <2> QED BY <2>2, <2>3 DEF StepKept
<1>11. \A step : step = x => StepKept(step)'
    BY <1>4, <1>6, <1>8 DEF StepKept
<1>12. \A step \in Range(tagUndo) : TagKept(step)'
    <2> TAKE step \in Range(tagUndo)
    <2>1. step.serial \in Numbers /\ step.serial # n
        BY <1>1, NumberTypes DEF Numbered, Bounds
    <2>2. was'[step.serial] = was[step.serial] /\ is'[step.serial] = is[step.serial]
        BY <1>6, <2>1
    <2>3. TagKept(step)
        BY DEF Numbered, Kept
    <2> QED BY <2>2, <2>3 DEF TagKept
<1>13. Kept'
    BY <1>2, <1>5, <1>10, <1>11, <1>12 DEF Kept
<1>14. InTurn(tagUndo)'
    BY <1>2 DEF Numbered, InTurn
<1> QED
    BY <1>5, <1>9, <1>13, <1>14 DEF KeepsNumbers
LEMMA EditorBack ==
    ASSUME Numbered, EditorUndone, now'.overlay = Last(edUndo).before
    PROVE  Stacked' /\ Chained' /\ OfEditor' \subseteq OfEditor /\ now'.overlay <= clock
<1>1. /\ Stacked' /\ Chained'
      /\ Range(edUndo') \subseteq Range(edUndo) /\ Range(edRedo') = Range(edRedo) \union {Last(edUndo)}
    BY UndoneStack DEF Numbered
<1>2. Last(edUndo) \in OfEditor
    <2>1. edUndo \in Seq(EditorSteps) /\ edUndo # <<>>
        BY DEF Numbered, TypeOK, EditorUndone
    <2> QED BY <2>1, TopOfStack DEF OfEditor
<1>3. OfEditor' \subseteq OfEditor
    BY <1>1, <1>2 DEF OfEditor
<1> QED
    BY <1>1, <1>2, <1>3 DEF Numbered, Bounds

LEMMA TagsBack ==
    ASSUME Numbered, NEW refused \in BOOLEAN, TagsUndone(refused)
    PROVE  /\ InTurn(tagUndo)' /\ Range(tagUndo') \subseteq Range(tagUndo)
           /\ Last(tagUndo) \in Range(tagUndo) /\ tagUndo # <<>>
           /\ ~refused => /\ \A t \in Range(tagUndo) : t.serial # TopSerial(tagUndo) => t \in Range(tagUndo')
                          /\ TopSerial(tagUndo) \notin Serials(tagUndo')
<1> DEFINE m == Len(tagUndo)
<1>1. tagUndo \in Seq(TagSteps) /\ tagUndo # <<>> /\ m \in Nat /\ m # 0 /\ DOMAIN tagUndo = 1 .. m
    BY DEF Numbered, TypeOK, TagsUndone
<1>2. /\ Front(tagUndo) \in Seq(TagSteps) /\ Len(Front(tagUndo)) = m - 1
      /\ \A k \in 1 .. m - 1 : Front(tagUndo)[k] = tagUndo[k]
      /\ Last(tagUndo) = tagUndo[m] /\ Range(tagUndo) = Range(Front(tagUndo)) \union {Last(tagUndo)}
    BY <1>1, FrontOfStack
<1> HIDE DEF m
<1>3. \A i, j \in 1 .. m : i < j => tagUndo[i].serial < tagUndo[j].serial
    BY <1>1 DEF Numbered, InTurn
<1>4. TopSerial(tagUndo) = tagUndo[m].serial
    BY <1>1, <1>2 DEF TopSerial
<1>5. CASE refused
    <2>1. tagUndo' = tagUndo
        BY <1>5 DEF TagsUndone
    <2> QED BY <1>1, <1>2, <1>5, <2>1 DEF Numbered, InTurn
<1>6. CASE ~refused
    <2> DEFINE f == Front(tagUndo)
    <2>1. tagUndo' = f
        BY <1>6 DEF TagsUndone
    <2>2. DOMAIN f = 1 .. m - 1 /\ \A k \in 1 .. m - 1 : f[k] = tagUndo[k]
        BY <1>2
    <2> HIDE DEF f
    <2>3. InTurn(f)
        BY <1>1, <1>3, <2>2 DEF InTurn
    <2>4. \A k \in 1 .. m - 1 : f[k].serial # tagUndo[m].serial
        <3> TAKE k \in 1 .. m - 1
        <3>1. k \in 1 .. m /\ m \in 1 .. m /\ k < m
            BY <1>1
        <3>2. tagUndo[k].serial < tagUndo[m].serial
            BY <3>1, <1>3
        <3>3. tagUndo[m] \in TagSteps
            BY <3>1, <1>1
        <3>4. tagUndo[m].serial \in Nat
            BY <3>3 DEF TagSteps, Numbers
        <3> QED BY <3>2, <3>4, <2>2
    <2>5. TopSerial(tagUndo) \notin Serials(f)
        BY <2>2, <2>4, <1>4 DEF Serials
    <2>6. \A t \in Range(tagUndo) : t.serial # TopSerial(tagUndo) => t \in Range(f)
        BY <1>2, <1>4 DEF f
    <2>7. InTurn(tagUndo)'
        BY <2>1, <2>3 DEF InTurn
    <2>8. Range(tagUndo') \subseteq Range(tagUndo)
        BY <2>1, <1>2 DEF f
    <2> QED BY <2>1, <2>5, <2>6, <2>7, <2>8, <1>1, <1>2
<1> QED
    BY <1>5, <1>6

\* Nobody adds a step: undo, reload, open, close, and what changes behind everybody's back.
LEMMA QuietNumbers ==
    ASSUME Numbered, TypeOK',
           \/ UndoInEditor \/ Reload \/ OpenEditor \/ CloseEditor \/ EditorDestroyed
           \/ UndoInTags \/ CreateService \/ ChangeBehind
    PROVE  KeepsNumbers
<1>0. clock \in Nat /\ now.overlay <= clock /\ clock <= clock
    BY NumberTypes DEF Numbered, Bounds
<1>1. CASE UndoInEditor
    <2>1. now'.overlay = Last(edUndo).before
        BY <1>1 DEF UndoInEditor, Numbered, TypeOK, Meetings
    <2>2. Stacked' /\ Chained' /\ OfEditor' \subseteq OfEditor /\ now'.overlay <= clock
        BY <1>1, <2>1, EditorBack DEF UndoInEditor
    <2>3. tagUndo' = tagUndo /\ ignored' = ignored /\ clock' = clock /\ was' = was /\ is' = is /\ made' = made
        BY <1>1 DEF UndoInEditor, history
    <2>4. Ahead /\ Kept'
        BY <1>0, <2>2, <2>3, NothingNew
    <2> QED BY <2>2, <2>3, <2>4 DEF KeepsNumbers, Numbered, InTurn
<1>2. CASE Reload
    <2>1. clock' = clock + 1 /\ now' = [now EXCEPT !.overlay = clock'] /\ edUndo' = <<>> /\ edRedo' = <<>>
        BY <1>2 DEF Reload, Tick
    <2>2. now'.overlay = clock'
        BY <2>1 DEF Numbered, TypeOK, Meetings
    <2>3. clock <= clock' /\ now'.overlay <= clock'
        BY <1>0, <2>1, <2>2
    <2>4. Stacked' /\ Chained' /\ OfEditor' = {}
        BY <2>1, ClearedEditor
    <2>5. tagUndo' = tagUndo /\ ignored' = ignored /\ was' = was /\ is' = is /\ made' = made
        BY <1>2 DEF Reload, history
    <2>6. Ahead /\ Kept'
        BY <2>3, <2>4, <2>5, NothingNew
    <2> QED BY <2>4, <2>5, <2>6 DEF KeepsNumbers, Numbered, InTurn
<1>3. CASE OpenEditor \/ EditorDestroyed
    <2>1. /\ edUndo' = <<>> /\ edRedo' = <<>> /\ tagUndo' = tagUndo /\ ignored' \in {ignored, Serials(tagUndo)}
          /\ now' = now /\ clock' = clock /\ was' = was /\ is' = is /\ made' = made
        BY <1>3 DEF OpenEditor, Opened, EditorDestroyed, history
    <2>2. Stacked' /\ Chained' /\ OfEditor' = {}
        BY <2>1, ClearedEditor
    <2>3. Ahead /\ Kept'
        BY <1>0, <2>1, <2>2, NothingNew
    <2> QED BY <2>1, <2>2, <2>3 DEF KeepsNumbers, Numbered, InTurn
<1>4. CASE CloseEditor \/ CreateService
    <2>1. /\ edUndo' = edUndo /\ edRedo' = edRedo /\ tagUndo' = tagUndo /\ ignored' \in {ignored, Serials(tagUndo)}
          /\ now' = now /\ clock' = clock /\ was' = was /\ is' = is /\ made' = made
        BY <1>4 DEF CloseEditor, CreateService, stacks, history
    <2>2. Stacked' /\ Chained' /\ OfEditor' = OfEditor
        BY <2>1, SameEditor DEF Numbered
    <2>3. Ahead /\ Kept'
        BY <1>0, <2>1, <2>2, NothingNew
    <2> QED BY <2>1, <2>2, <2>3 DEF KeepsNumbers, Numbered, InTurn
<1>5. CASE UndoInTags
    <2>1. /\ edUndo' = edUndo /\ edRedo' = edRedo /\ ignored' = ignored
          /\ clock' = clock /\ was' = was /\ is' = is /\ made' = made /\ TagsUndone(FALSE)
        BY <1>5 DEF UndoInTags, history
    <2>2. now'.overlay = now.overlay
        BY <1>5 DEF UndoInTags, Numbered, TypeOK, Meetings
    <2>3. Stacked' /\ Chained' /\ OfEditor' = OfEditor
        BY <2>1, <2>2, SameEditor DEF Numbered
    <2>4. InTurn(tagUndo)' /\ Range(tagUndo') \subseteq Range(tagUndo)
        BY <2>1, TagsBack
    <2>5. Ahead /\ Kept'
        BY <1>0, <2>1, <2>2, <2>3, <2>4, NothingNew
    <2> QED BY <2>3, <2>4, <2>5 DEF KeepsNumbers
<1>6. CASE ChangeBehind
    <2>1. /\ edUndo' = edUndo /\ edRedo' = edRedo /\ tagUndo' = tagUndo /\ ignored' = ignored
          /\ clock' = clock + 1 /\ was' = was /\ is' = is /\ made' = made
        BY <1>6 DEF ChangeBehind, Tick, stacks, history
    <2>2. now'.overlay = now.overlay
        BY <1>6 DEF ChangeBehind, Numbered, TypeOK, Meetings
    <2>3. Stacked' /\ Chained' /\ OfEditor' = OfEditor
        BY <2>1, <2>2, SameEditor DEF Numbered
    <2>4. now.overlay \in Nat
        BY NumberTypes DEF Numbered
    <2>5. clock <= clock' /\ now'.overlay <= clock'
        BY <1>0, <2>1, <2>2, <2>4
    <2>6. Ahead /\ Kept'
        BY <2>1, <2>3, <2>5, NothingNew
    <2> QED BY <2>1, <2>3, <2>6 DEF KeepsNumbers, Numbered, InTurn
<1> QED
    BY <1>1, <1>2, <1>3, <1>4, <1>5, <1>6
\* The steps of before keep what they lead back to: the history of their numbers stays.
LEMMA OldKept ==
    ASSUME Numbered, NEW n, \A s \in Numbers \ {n} : was'[s] = was[s] /\ is'[s] = is[s]
    PROVE  /\ \A step \in OfEditor : step.serial # n => StepKept(step)'
           /\ \A step \in Range(tagUndo) : step.serial # n => TagKept(step)'
<1>1. ASSUME NEW step \in OfEditor, step.serial # n PROVE StepKept(step)'
    <2>1. step.serial \in Numbers
        BY NumberTypes DEF Numbered
    <2>2. was'[step.serial] = was[step.serial] /\ is'[step.serial] = is[step.serial]
        BY <1>1, <2>1
    <2>3. StepKept(step)
        BY DEF Numbered, Kept
    <2> QED BY <2>2, <2>3 DEF StepKept
<1>2. ASSUME NEW step \in Range(tagUndo), step.serial # n PROVE TagKept(step)'
    <2>1. step.serial \in Numbers
        BY NumberTypes DEF Numbered
    <2>2. was'[step.serial] = was[step.serial] /\ is'[step.serial] = is[step.serial]
        BY <1>2, <2>1
    <2>3. TagKept(step)
        BY DEF Numbered, Kept
    <2> QED BY <2>2, <2>3 DEF TagKept
<1> QED
    BY <1>1, <1>2

\* The number of the step that is redone is not that of any other.
LEMMA RedoneNumber ==
    ASSUME Numbered, EditorRedone, now'.overlay = Last(edRedo).after
    PROVE  /\ Last(edRedo) \in OfEditor /\ Last(edRedo).serial \in EditorSerials
           /\ Last(edRedo).before = now.overlay /\ Last(edRedo).after = Last(edRedo).serial
           /\ Stacked' /\ Chained' /\ OfEditor' \subseteq OfEditor
           /\ \A step \in OfEditor' : step.serial = Last(edRedo).serial => step = Last(edRedo)
           /\ Serials(edUndo') = Serials(edUndo) \union {Last(edRedo).serial} /\ InTurn(edUndo')
           /\ Last(edRedo).serial \notin Serials(edUndo) /\ Last(edRedo).serial \notin Serials(tagUndo)
<1> DEFINE x == Last(edRedo)
<1>1. /\ Stacked' /\ Chained'
      /\ Range(edUndo') = Range(edUndo) \union {x} /\ Range(edRedo') \subseteq Range(edRedo)
      /\ x.before = now.overlay /\ x.after = x.serial
      /\ x.serial \notin Serials(edUndo) \union Serials(edRedo')
      /\ Serials(edUndo') = Serials(edUndo) \union {x.serial}
    BY RedoneStack DEF Numbered
<1>2. x \in OfEditor
    <2>1. edRedo \in Seq(EditorSteps) /\ edRedo # <<>>
        BY DEF Numbered, TypeOK, EditorRedone
    <2> QED BY <2>1, TopOfStack DEF OfEditor
<1> HIDE DEF x
<1>3. x.serial \in EditorSerials
    BY <1>2, NumberTypes DEF Numbered
<1>4. OfEditor' \subseteq OfEditor
    BY <1>1, <1>2 DEF OfEditor
<1>5. \A step \in OfEditor' : step.serial = x.serial => step = x
    BY <1>1, SerialsInRange DEF OfEditor
<1>6. x.serial \notin Serials(tagUndo)
    BY <1>3 DEF Numbered, Bounds
<1>7. InTurn(edUndo')
    BY <1>1 DEF Stacked, InTurn
<1> QED
    BY <1>1, <1>2, <1>3, <1>4, <1>5, <1>6, <1>7 DEF x

LEMMA RedoNumbers ==
    ASSUME Numbered, TypeOK', Redo
    PROVE  KeepsNumbers
<1> DEFINE x == Last(edRedo)
<1> DEFINE n == x.serial
<1>1. clock \in Nat /\ clock' = clock + 1
    BY TickTime DEF Numbered, Redo
<1>2. /\ EditorRedone /\ now' = [now EXCEPT !.overlay = x.after] /\ Noted(n, now, now')
      /\ UNCHANGED <<service, editor, tagUndo, ignored>>
    BY DEF Redo, EditorRedone
<1>3. now \in Meetings
    BY DEF Numbered, TypeOK
<1>4. now'.overlay = x.after /\ [now' EXCEPT !.overlay = now.overlay] = now
    BY <1>2, <1>3, Put
<1>5. /\ x \in OfEditor /\ n \in EditorSerials /\ x.before = now.overlay /\ x.after = n
      /\ Stacked' /\ Chained' /\ OfEditor' \subseteq OfEditor
      /\ \A step \in OfEditor' : step.serial = n => step = x
      /\ n \notin Serials(tagUndo)
    BY <1>2, <1>4, RedoneNumber
<1> HIDE DEF x
<1>6. n \in Numbers /\ n \in Nat /\ n <= clock
    BY <1>5, NumberTypes DEF Numbered, Bounds
<1>7. /\ \A s \in Numbers \ {n} : was'[s] = was[s] /\ is'[s] = is[s] /\ made'[s] = made[s]
      /\ was'[n] = now /\ is'[n] = now' /\ made'[n] = clock'
    BY <1>2, <1>6, NotedStep DEF Numbered
<1>8. Ahead
    <2>1. NewSteps(n)
        BY <1>2, <1>5, <1>7 DEF NewSteps
    <2>2. clock <= clock' /\ now'.overlay <= clock'
        BY <1>1, <1>4, <1>5, <1>6
    <2> QED BY <1>6, <2>1, <2>2 DEF Ahead
<1>9. /\ \A step \in OfEditor : step.serial # n => StepKept(step)'
      /\ \A step \in Range(tagUndo) : step.serial # n => TagKept(step)'
    BY <1>7, OldKept
<1>10. \A step : step = x => StepKept(step)'
    BY <1>4, <1>5, <1>7 DEF StepKept
<1>11. \A step \in Range(tagUndo) : step.serial # n
    BY <1>5, NumberTypes DEF Numbered
<1>12. Kept'
    BY <1>2, <1>5, <1>9, <1>10, <1>11 DEF Kept
<1>13. InTurn(tagUndo)'
    BY <1>2 DEF Numbered, InTurn
<1> QED
    BY <1>5, <1>8, <1>12, <1>13 DEF KeepsNumbers
\* A step of the tags on top of theirs.
LEMMA TagsGrow ==
    ASSUME Numbered, NEW x \in TagSteps, clock < x.serial, tagUndo' = Limited(Append(tagUndo, x), TagLimit)
    PROVE  InTurn(tagUndo)' /\ Range(tagUndo') \subseteq Range(tagUndo) \union {x} /\ x \in Range(tagUndo')
           /\ tagUndo' \in Seq(TagSteps)
<1> DEFINE m == Len(tagUndo)
<1>1. tagUndo \in Seq(TagSteps) /\ m <= TagLimit /\ TagLimit \in Nat \ {0} /\ m \in Nat /\ DOMAIN tagUndo = 1 .. m
    BY UndoAssumption DEF Numbered, TypeOK
<1>2. /\ tagUndo' \in Seq(TagSteps) /\ tagUndo' # <<>> /\ Last(tagUndo') = x
      /\ Range(tagUndo') \subseteq Range(tagUndo) \union {x}
    <2>1. tagUndo \in Seq(TagSteps) /\ Len(tagUndo) <= TagLimit /\ TagLimit \in Nat \ {0}
        BY <1>1
    <2> HIDE DEF m
    <2>2. tagUndo' \in Seq(TagSteps)
        BY <2>1, LimitedStack
    <2>3. tagUndo' # <<>> /\ Last(tagUndo') = x
        BY <2>1, LimitedStack
    <2>4. Range(tagUndo') \subseteq Range(tagUndo) \union {x}
        BY <2>1, LimitedStack
    <2> QED BY <2>2, <2>3, <2>4
<1>3. \E d \in {0, 1} : Shifted(tagUndo', tagUndo, d)
    BY <1>1, LimitedStack
<1> HIDE DEF m
<1>4. PICK d \in {0, 1} : Len(tagUndo') = m + 1 - d /\ \A k \in 1 .. m - d : tagUndo'[k] = tagUndo[k + d]
    BY <1>3 DEF Shifted, m
<1>5. tagUndo'[m + 1 - d] = x /\ DOMAIN tagUndo' = 1 .. m + 1 - d
    BY <1>2, <1>4 DEF Last
<1>6. \A k \in 1 .. m - d : k + d \in 1 .. m
    BY <1>1
<1>7. \A i \in 1 .. m : tagUndo[i].serial < x.serial
    <2> TAKE i \in 1 .. m
    <2>1. tagUndo[i] \in Range(tagUndo)
        BY <1>1 DEF Range
    <2>2. tagUndo[i].serial \in Nat /\ tagUndo[i].serial <= clock /\ clock \in Nat
        BY <2>1, NumberTypes DEF Numbered, Bounds
    <2>3. x.serial \in Nat
        BY DEF TagSteps, Numbers
    <2> QED BY <2>2, <2>3
<1>8. InTurn(tagUndo')
    <2> SUFFICES ASSUME NEW i \in 1 .. m + 1 - d, NEW j \in 1 .. m + 1 - d, i < j
                 PROVE  tagUndo'[i].serial < tagUndo'[j].serial
        BY <1>5 DEF InTurn
    <2>0. m \in Nat
        BY <1>1
    <2>1. i \in 1 .. m - d
        BY <2>0
    <2>2. tagUndo'[i] = tagUndo[i + d] /\ i + d \in 1 .. m
        BY <2>1, <1>4, <1>6
    <2>3. CASE j = m + 1 - d
        BY <2>2, <2>3, <1>5, <1>7
    <2>4. CASE j # m + 1 - d
        <3>1. j \in 1 .. m - d /\ i + d < j + d
            BY <2>0, <2>4
        <3>2. tagUndo'[j] = tagUndo[j + d] /\ j + d \in 1 .. m
            BY <3>1, <1>4, <1>6
        <3> QED BY <2>2, <3>1, <3>2, <1>1 DEF Numbered, InTurn
    <2> QED BY <2>3, <2>4
<1>9. x \in Range(tagUndo')
    BY <1>2, FrontOfStack
<1>10. InTurn(tagUndo)'
    BY <1>8 DEF InTurn
<1> QED
    BY <1>2, <1>9, <1>10

LEMMA TagNumbers ==
    ASSUME Numbered, TypeOK', NEW here \in BOOLEAN, TagStep(here)
    PROVE  KeepsNumbers
<1> DEFINE n == clock'
<1> DEFINE x == [serial |-> clock', here |-> here, before |-> now.tags]
<1>1. /\ clock \in Nat /\ n = clock + 1 /\ n \in Numbers /\ clock < n
    BY TickTime DEF Numbered, TagStep
<1>2. /\ tagUndo' = Limited(Append(tagUndo, x), TagLimit)
      /\ now' = (IF here THEN [now EXCEPT !.tags = n] ELSE now) /\ Noted(n, now, now')
      /\ UNCHANGED <<service, editor, edUndo, edRedo, ignored>>
    BY DEF TagStep
<1>3. now \in Meetings /\ x \in TagSteps /\ x.serial = n /\ x.before = now.tags /\ x.here = here
    BY <1>1 DEF Numbered, TypeOK, Meetings, TagSteps
<1>4. now'.overlay = now.overlay /\ (here => [now' EXCEPT !.tags = now.tags] = now)
    BY <1>2, <1>3, Put
<1> HIDE DEF x
<1>5. InTurn(tagUndo)' /\ Range(tagUndo') \subseteq Range(tagUndo) \union {x}
    BY <1>1, <1>2, <1>3, TagsGrow
<1>6. /\ \A s \in Numbers \ {n} : was'[s] = was[s] /\ is'[s] = is[s] /\ made'[s] = made[s]
      /\ was'[n] = now /\ is'[n] = now' /\ made'[n] = clock'
    BY <1>1, <1>2, NotedStep DEF Numbered
<1>7. Stacked' /\ Chained' /\ OfEditor' = OfEditor
    BY <1>2, <1>4, SameEditor DEF Numbered
<1>8. Ahead
    <2>1. NewSteps(n)
        BY <1>1, <1>2, <1>3, <1>5, <1>6, <1>7 DEF NewSteps
    <2>2. clock <= clock' /\ now'.overlay <= clock'
        <3>1. now.overlay \in Nat /\ now.overlay <= clock
            BY NumberTypes DEF Numbered, Bounds
        <3> QED BY <1>1, <1>4, <3>1
    <2> QED BY <1>1, <2>1, <2>2 DEF Ahead
<1>9. /\ \A step \in OfEditor : step.serial # n => StepKept(step)'
      /\ \A step \in Range(tagUndo) : step.serial # n => TagKept(step)'
    BY <1>6, OldKept
<1>10. \A step : step = x => TagKept(step)'
    BY <1>3, <1>4, <1>6 DEF TagKept
<1>11. /\ \A step \in OfEditor : step.serial # n
       /\ \A step \in Range(tagUndo) : step.serial # n
    <2>1. /\ \A step \in OfEditor : step.serial \in Nat /\ step.serial <= clock
          /\ \A step \in Range(tagUndo) : step.serial \in Nat /\ step.serial <= clock
        BY NumberTypes DEF Numbered, Bounds
    <2> QED BY <1>1, <2>1
<1>12. Kept'
    BY <1>5, <1>7, <1>9, <1>10, <1>11 DEF Kept
<1> QED
    BY <1>5, <1>7, <1>8, <1>12 DEF KeepsNumbers

LEMMA ParticipantNumbers ==
    ASSUME Numbered, TypeOK', ChangeParticipants \/ ChangeBoth
    PROVE  KeepsNumbers
<1>0. /\ now \in Meetings /\ clock \in Nat /\ now.overlay \in Nat /\ now.overlay <= clock
      /\ \A step \in OfEditor : step.serial \in Nat /\ step.serial <= clock
      /\ \A step \in Range(tagUndo) : step.serial \in Nat /\ step.serial <= clock
    BY NumberTypes DEF Numbered, Bounds
<1> DEFINE n == clock'
<1>1. CASE ChangeParticipants
    <2>1. n = clock + 1 /\ n \in Numbers
        BY <1>1, TickTime DEF Numbered, ChangeParticipants
    <2>2. /\ now' = [now EXCEPT !.parts = n] /\ Noted(n, now, now') /\ ignored' \in {ignored, Serials(tagUndo)}
          /\ edUndo' = edUndo /\ edRedo' = edRedo /\ tagUndo' = tagUndo
        BY <1>1 DEF ChangeParticipants, stacks
    <2>3. now'.overlay = now.overlay
        BY <1>0, <2>2, Put
    <2>4. /\ \A s \in Numbers \ {n} : was'[s] = was[s] /\ is'[s] = is[s] /\ made'[s] = made[s]
          /\ was'[n] = now /\ is'[n] = now' /\ made'[n] = clock'
        BY <2>1, <2>2, NotedStep DEF Numbered
    <2>5. Stacked' /\ Chained' /\ OfEditor' = OfEditor
        BY <2>2, <2>3, SameEditor DEF Numbered
    <2>6. Ahead
        <3>1. clock < n /\ clock <= n /\ now'.overlay <= n
            BY <1>0, <2>1, <2>3
        <3>2. NewSteps(n)
            BY <2>2, <2>4, <2>5, <3>1 DEF NewSteps
        <3> QED BY <2>1, <3>1, <3>2 DEF Ahead
    <2>7. /\ \A step \in OfEditor : step.serial # n => StepKept(step)'
          /\ \A step \in Range(tagUndo) : step.serial # n => TagKept(step)'
        BY <2>4, OldKept
    <2>8. Kept'
        BY <1>0, <2>1, <2>2, <2>5, <2>7 DEF Kept
    <2> QED BY <2>2, <2>5, <2>6, <2>8 DEF KeepsNumbers, Numbered, InTurn
<1>2. CASE ChangeBoth
    <2> DEFINE k == clock + 1
    <2> DEFINE x == EditorStep(k, now.overlay)
    <2>1. n = clock + 2 /\ n \in Numbers /\ k \in Numbers
        BY <1>2, TickTime DEF Numbered, ChangeBoth
    <2>2. /\ now' = [now EXCEPT !.parts = n, !.overlay = k] /\ Noted(n, now, now')
          /\ EditorPushed(k) /\ tagUndo' = tagUndo /\ ignored' = ignored
        BY <1>2 DEF ChangeBoth, EditorPushed, EditorStep
    <2>3. now'.overlay = k
        BY <1>0, <2>2 DEF Meetings
    <2>4. /\ \A s \in Numbers \ {n} : was'[s] = was[s] /\ is'[s] = is[s] /\ made'[s] = made[s]
          /\ was'[n] = now /\ is'[n] = now' /\ made'[n] = clock'
        BY <2>1, <2>2, NotedStep DEF Numbered
    <2>5. clock < k /\ k < n /\ k <= n /\ clock <= n /\ clock < n /\ now.overlay <= n
        BY <1>0, <2>1
    <2>6. Stacked' /\ Chained' /\ OfEditor' \subseteq OfEditor \union {x}
        BY <2>1, <2>2, <2>3, <2>5, EditorGrows
    <2>7. x.serial = k /\ x.before = now.overlay
        BY DEF EditorStep
    <2> HIDE DEF x
    <2>8. Ahead
        <3>1. NewSteps(n)
            BY <2>2, <2>4, <2>5, <2>6, <2>7 DEF NewSteps
        <3> QED BY <2>1, <2>3, <2>5, <3>1 DEF Ahead
    <2>9. /\ \A step \in OfEditor : step.serial # n => StepKept(step)'
          /\ \A step \in Range(tagUndo) : step.serial # n => TagKept(step)'
        BY <2>4, OldKept
    <2>10. \A step : step = x => StepKept(step)'
        <3>1. is'[k] = is[k] /\ is[k].overlay \in Nat /\ is[k].overlay <= clock /\ k \in Nat
            BY <1>0, <2>1, <2>4, <2>5, NumberTypes DEF Numbered, Bounds
        <3>2. is'[k].overlay # k
            BY <1>0, <3>1
        <3> QED BY <2>7, <3>2 DEF StepKept
    <2>11. /\ \A step \in OfEditor : step.serial # n
           /\ \A step \in Range(tagUndo) : step.serial # n
        BY <1>0, <2>1
    <2>12. Kept'
        BY <2>2, <2>6, <2>9, <2>10, <2>11 DEF Kept
    <2> QED BY <2>2, <2>6, <2>8, <2>12 DEF KeepsNumbers, Numbered, InTurn
<1> QED
    BY <1>1, <1>2
LEMMA SharedNumbers ==
    ASSUME Numbered, TypeOK', UndoSpeakers \/ UndoTags \/ UndoParticipants
    PROVE  KeepsNumbers
<1>0. /\ clock \in Nat /\ now.overlay \in Nat /\ now.overlay <= clock /\ clock <= clock /\ now \in Meetings
    BY NumberTypes DEF Numbered, Bounds
<1>1. CASE UndoSpeakers
    <2>1. /\ EditorUndone /\ tagUndo' = tagUndo /\ ignored' = ignored
          /\ clock' = clock /\ was' = was /\ is' = is /\ made' = made
          /\ now' = [now EXCEPT !.overlay = Last(edUndo).before]
        BY <1>1 DEF UndoSpeakers, history
    <2>2. now'.overlay = Last(edUndo).before
        BY <1>0, <2>1 DEF Meetings
    <2>3. Stacked' /\ Chained' /\ OfEditor' \subseteq OfEditor /\ now'.overlay <= clock
        BY <2>1, <2>2, EditorBack
    <2>4. Ahead /\ Kept'
        BY <1>0, <2>1, <2>3, NothingNew
    <2> QED BY <2>1, <2>3, <2>4 DEF KeepsNumbers, Numbered, InTurn
<1>2. CASE UndoTags
    <2>1. PICK refused \in BOOLEAN :
            /\ TagsUndone(refused)
            /\ IF refused THEN PutBack(TopSerial(tagUndo)) ELSE UNCHANGED <<clock, history>>
            /\ now' = [now EXCEPT !.tags = TagsBefore(refused)]
        BY <1>2 DEF UndoTags
    <2>2. edUndo' = edUndo /\ edRedo' = edRedo /\ ignored' = ignored
        BY <1>2 DEF UndoTags
    <2>3. now'.overlay = now.overlay
        BY <1>0, <2>1 DEF Meetings
    <2>4. Stacked' /\ Chained' /\ OfEditor' = OfEditor
        BY <2>2, <2>3, SameEditor DEF Numbered
    <2>5. InTurn(tagUndo)' /\ Range(tagUndo') \subseteq Range(tagUndo) /\ tagUndo # <<>>
        BY <2>1, TagsBack
    <2>6. Ahead /\ Kept'
        <3>1. CASE refused
            <4>1. clock' = clock + 1 /\ made' = [made EXCEPT ![TopSerial(tagUndo)] = clock'] /\ was' = was /\ is' = is
                BY <2>1, <3>1 DEF PutBack, Tick
            <4>2. TopSerial(tagUndo) \in Serials(tagUndo)
                BY <2>5, TopOfStack DEF Numbered, TypeOK
            <4>3. clock <= clock' /\ now'.overlay <= clock'
                BY <1>0, <2>3, <4>1
            <4> QED BY <2>2, <2>4, <2>5, <4>1, <4>2, <4>3, NothingNew
        <3>2. CASE ~refused
            <4>1. clock' = clock /\ made' = made /\ was' = was /\ is' = is
                BY <2>1, <3>2 DEF history
            <4> QED BY <1>0, <2>2, <2>3, <2>4, <2>5, <4>1, NothingNew
        <3> QED BY <3>1, <3>2
    <2> QED BY <2>4, <2>5, <2>6 DEF KeepsNumbers
<1>3. CASE UndoParticipants
    <2> DEFINE e == entries[LatestUsable]
    <2> DEFINE both == e.link # 0 /\ e.link = TopSerial(edUndo)
    <2>1. /\ tagUndo' = tagUndo /\ ignored' = ignored /\ clock' = clock /\ was' = was /\ is' = is /\ made' = made
          /\ IF both THEN EditorUndone ELSE UNCHANGED <<edUndo, edRedo>>
          /\ now' = [now EXCEPT !.parts = e.before,
                                !.overlay = IF both THEN Last(edUndo).before ELSE @]
        BY <1>3 DEF UndoParticipants, history
    <2>2. now'.overlay = IF both THEN Last(edUndo).before ELSE now.overlay
        BY <1>0, <2>1 DEF Meetings
    <2> HIDE DEF both, e
    <2>3. Stacked' /\ Chained' /\ OfEditor' \subseteq OfEditor /\ now'.overlay <= clock
        <3>1. CASE both
            BY <2>1, <2>2, <3>1, EditorBack
        <3>2. CASE ~both
            <4>1. Stacked' /\ Chained' /\ OfEditor' = OfEditor
                BY <2>1, <2>2, <3>2, SameEditor DEF Numbered
            <4> QED BY <4>1, <1>0, <2>2, <3>2
        <3> QED BY <3>1, <3>2
    <2>4. Ahead /\ Kept'
        BY <1>0, <2>1, <2>3, NothingNew
    <2> QED BY <2>1, <2>3, <2>4 DEF KeepsNumbers, Numbered, InTurn
<1> QED
    BY <1>1, <1>2, <1>3

\* An undo needs an entry, and an entry a service.
LEMMA NextOwned ==
    ASSUME TypeOK, Owned, Next
    PROVE  Owned'
<1>1. CASE Edit \/ UndoInEditor \/ Redo \/ Reload \/ ChangeBoth
    <2>1. editor = "open" /\ editor' = editor /\ service' = service
        BY <1>1 DEF Edit, UndoInEditor, Redo, Reload, ChangeBoth
    <2> QED BY <2>1 DEF Owned
<1>2. CASE OpenEditor \/ CloseEditor \/ EditorDestroyed \/ CreateService \/ ChangeBehind
    <2>1. Detached(<<>>) = <<>>
        <3> DEFINE none == <<>>
        <3>1. none \in Seq(Entries) /\ Len(none) = 0
            OBVIOUS
        <3> HIDE DEF none
        <3>2. Detached(none) \in Seq(Entries) /\ Len(Detached(none)) <= 0
            BY <3>1, DetachedList
        <3>3. Detached(none) = <<>>
            BY <3>2
        <3> QED BY <3>3 DEF none
    <2>2. CASE OpenEditor
        BY <2>2 DEF Owned, OpenEditor, Opened
    <2>3. CASE CloseEditor
        BY <2>3 DEF Owned, CloseEditor, stacks
    <2>4. CASE EditorDestroyed
        BY <2>4 DEF Owned, EditorDestroyed
    <2>5. CASE CreateService
        BY <2>5 DEF Owned, CreateService, stacks
    <2>6. CASE ChangeBehind
        BY <2>6 DEF Owned, ChangeBehind, stacks
    <2> QED BY <1>2, <2>2, <2>3, <2>4, <2>5, <2>6
<1>3. CASE TagStep(TRUE) \/ TagStep(FALSE) \/ UndoInTags
    <2>1. FollowTags /\ UNCHANGED <<service, editor, edUndo, edRedo>>
        BY <1>3 DEF TagStep, UndoInTags
    <2>2. ~service => entries' = <<>>
        BY <2>1 DEF FollowTags, Follow
    <2> QED BY <2>1, <2>2 DEF Owned
<1>4. CASE ChangeParticipants
    BY <1>4 DEF Owned, ChangeParticipants, stacks
<1>5. CASE UndoSpeakers \/ UndoTags \/ UndoParticipants
    <2>1. LatestUsable # 0 /\ UNCHANGED <<service, editor>>
        BY <1>5 DEF UndoSpeakers, UndoTags, UndoParticipants
    <2>2. entries # <<>>
        BY <2>1, LatestIsEntry
    <2>3. edUndo = <<>> /\ edRedo = <<>> => edUndo' = <<>> /\ edRedo' = <<>>
        <3>1. CASE UndoSpeakers
            BY <3>1 DEF UndoSpeakers, EditorUndone
        <3>2. CASE UndoTags
            BY <3>2 DEF UndoTags
        <3>3. CASE UndoParticipants
            BY <3>3 DEF UndoParticipants, EditorUndone
        <3> QED BY <1>5, <3>1, <3>2, <3>3
    <2> QED BY <2>1, <2>2, <2>3 DEF Owned
<1> QED
    BY <1>1, <1>2, <1>3, <1>4, <1>5 DEF Next

LEMMA NextNumbers ==
    ASSUME Numbered, Next
    PROVE  Numbered' /\ Ahead
<1>1. TypeOK' /\ Room'
    BY NextTypes DEF Numbered
<1>2. KeepsNumbers
    BY <1>1, EditNumbers, RedoNumbers, TagNumbers, ParticipantNumbers, QuietNumbers, SharedNumbers DEF Next
<1>3. Bounds'
    BY <1>1, <1>2, AheadBounds DEF Numbered, KeepsNumbers
<1>4. Owned'
    BY NextOwned DEF Numbered
<1> QED
    BY <1>1, <1>2, <1>3, <1>4 DEF Numbered, KeepsNumbers
----------------------------------------------------------------------------
(* Every action keeps what the entries say *)

LEMMA ToldAgain ==
    ASSUME TypeOK, TypeOK', Ahead, Told,
           \A e \in Range(entries') : e \in Range(entries) \/ e.source \in {"speakers", "tags"} \/ Linked(e)',
           Fits(entries', Serials(edUndo'), HereIn(tagUndo)')
    PROVE  Told'
<1>1. ASSUME NEW e \in Range(entries') PROVE Linked(e)'
    <2>1. CASE e \in Range(entries)
        <3>1. e \in Entries
            BY <2>1, EntryTypes DEF TypeOK
        <3>2. Linked(e)
            BY <2>1 DEF Told
        <3> QED BY <3>1, <3>2, LinkedStays
    <2>2. CASE e.source \in {"speakers", "tags"}
        BY <2>2 DEF Linked
    <2> QED BY <1>1, <2>1, <2>2
<1> QED
    BY <1>1 DEF Told

LEMMA SameHere ==
    ASSUME ignored' = ignored
    PROVE  HereIn(tagUndo)' = HereIn(tagUndo')
BY DEF HereIn

\* The list follows the editor.
LEMMA ToldEditor ==
    ASSUME Numbered, TypeOK', Ahead, Told, Follow(WithEditor(entries, edUndo')),
           tagUndo' = tagUndo, ignored' = ignored
    PROVE  Told'
<1>1. entries \in Seq(Entries) /\ edUndo' \in Seq(EditorSteps)
    BY DEF Numbered, TypeOK
<1>2. entries' = WithEditor(entries, edUndo')
    BY DEF Follow
<1>3. HereIn(tagUndo)' = HereIn(tagUndo)
    BY SameHere
<1>4. /\ Fits(entries', Serials(edUndo'), HereIn(tagUndo))
      /\ \A e \in Range(entries') : e \in Range(entries) \/ e.source = "speakers"
    BY <1>1, <1>2, EditorFits DEF Told
<1> QED
    BY <1>3, <1>4, ToldAgain DEF Numbered

LEMMA ToldTags ==
    ASSUME Numbered, TypeOK', Ahead, Told, FollowTags, edUndo' = edUndo, ignored' = ignored
    PROVE  Told'
<1>1. entries \in Seq(Entries) /\ tagUndo' \in Seq(TagSteps)
    BY DEF Numbered, TypeOK
<1>2. HereIn(tagUndo)' = HereIn(tagUndo')
    BY SameHere
<1>3. CASE service
    <2>1. entries' = WithTags(entries, tagUndo')
        BY <1>3 DEF FollowTags, Follow
    <2>2. /\ Fits(entries', Serials(edUndo), HereIn(tagUndo'))
          /\ \A e \in Range(entries') : e \in Range(entries) \/ e.source = "tags"
        BY <1>1, <2>1, TagsFit DEF Told
    <2> QED BY <1>2, <2>2, ToldAgain DEF Numbered
<1>4. CASE ~service
    <2>1. Range(entries') = {}
        BY <1>4 DEF FollowTags, Follow, Range
    <2> QED BY <2>1 DEF Told, Fits
<1> QED
    BY <1>3, <1>4

\* Both sources are compared with a part of the list, or with that brought up to date once.
LEMMA ToldSettled ==
    ASSUME Numbered, TypeOK', Ahead, Told, NEW list \in Seq(Entries), NEW ed, NEW here, Fits(list, ed, here),
           \A e \in Range(list) : e \in Range(entries) \/ e.source \in {"speakers", "tags"},
           Settle(list), ignored' = ignored
    PROVE  Told'
<1> DEFINE m == WithEditor(list, edUndo')
<1>1. edUndo' \in Seq(EditorSteps) /\ tagUndo' \in Seq(TagSteps)
    BY DEF TypeOK
<1>2. entries' = WithTags(m, tagUndo')
    BY DEF Settle, Follow
<1>3. /\ m \in Seq(Entries) /\ Fits(m, Serials(edUndo'), here)
      /\ \A e \in Range(m) : e \in Range(list) \/ e.source = "speakers"
    BY <1>1, EditorFits, WithEditorRange
<1> HIDE DEF m
<1>4. /\ Fits(entries', Serials(edUndo'), HereIn(tagUndo'))
      /\ \A e \in Range(entries') : e \in Range(m) \/ e.source = "tags"
    BY <1>1, <1>2, <1>3, TagsFit
<1>5. HereIn(tagUndo)' = HereIn(tagUndo')
    BY SameHere
<1> QED
    BY <1>3, <1>4, <1>5, ToldAgain DEF Numbered

LEMMA ToldDetached ==
    ASSUME Numbered, Numbered', Ahead, Told, Follow(Detached(entries)), edUndo' = <<>>, tagUndo' = tagUndo,
           service => ignored' = ignored
    PROVE  Told'
<1>1. entries \in Seq(Entries)
    BY DEF Numbered, TypeOK
<1>2. entries' = Detached(entries)
    BY DEF Follow
<1>3. Range(entries') = {[e EXCEPT !.link = 0] : e \in {d \in Range(entries) : d.source # "speakers"}}
    BY <1>1, <1>2, DetachedList
<1>4. CASE service
    <2>1. HereIn(tagUndo)' = HereIn(tagUndo)
        BY <1>4, SameHere
    <2>2. ASSUME NEW e \in Range(entries')
          PROVE  Linked(e)' /\ e.source # "speakers" /\ (e.source = "tags" => e.serial \in HereIn(tagUndo) /\ e.link = 0)
        <3>1. PICK d \in Range(entries) : d.source # "speakers" /\ e = [d EXCEPT !.link = 0]
            BY <1>3
        <3>2. d \in Entries /\ Linked(d)
            BY <1>1, EntryTypes DEF Told
        <3>3. e \in Entries /\ e.source = d.source /\ e.serial = d.serial /\ e.link = 0
            BY <3>1, <3>2, UndoAssumption DEF Entries, Values
        <3>4. Linked(e)
            BY <3>1, <3>2, LinkedAlone
        <3>5. Linked(e)'
            BY <3>3, <3>4, LinkedStays DEF Numbered
        <3>6. d.source = "tags" => d.serial \in HereIn(tagUndo)
            BY DEF Told, Fits
        <3> QED BY <3>1, <3>3, <3>5, <3>6
    <2> QED BY <2>1, <2>2 DEF Told, Fits
<1>5. CASE ~service
    <2>1. Range(entries) = {}
        BY <1>5 DEF Numbered, Owned, Range
    <2>2. Range(entries') = {}
        BY <1>3, <2>1
    <2> QED BY <2>2 DEF Told, Fits
<1> QED
    BY <1>4, <1>5
\* The step that is recorded now says what is true.
LEMMA LinkedNow ==
    ASSUME Numbered, Numbered', NEW n \in Numbers, n = clock', clock < n, Noted(n, now, now'), now'.tags = now.tags,
           NEW e \in Entries, e = Entry("participants", n, now.parts, e.link),
           \A s \in EditorSerials' \union Serials(tagUndo') : s # n,
           e.link # 0 => /\ e.link + 1 = n /\ now'.overlay = e.link /\ now.overlay # e.link
                         /\ \A step \in OfEditor' : step.serial = e.link => step.before = now.overlay
    PROVE  Linked(e)'
<1>1. was'[n] = now /\ is'[n] = now' /\ made'[n] = clock'
    BY NotedStep DEF Numbered
<1>2. e.serial = n /\ e.before = now.parts
    BY DEF Entry
<1>3. n <= clock'
    BY DEF Numbers
<1> QED
    BY <1>1, <1>2, <1>3 DEF Linked

LEMMA NewNumber ==
    ASSUME Numbered
    PROVE  /\ \A s \in EditorSerials : s \in Nat /\ s <= clock
           /\ \A s \in Serials(tagUndo) : s \in Nat /\ s <= clock
           /\ 0 \notin Serials(edUndo) /\ 0 \notin EditorSerials
<1>1. /\ EditorSerials = {step.serial : step \in OfEditor}
      /\ Serials(tagUndo) = {step.serial : step \in Range(tagUndo)}
      /\ \A step \in OfEditor : step.serial \in Nat
      /\ \A step \in Range(tagUndo) : step.serial \in Nat
    BY NumberTypes DEF Numbered
<1>2. /\ \A step \in OfEditor : step.serial <= clock
      /\ \A step \in Range(tagUndo) : step.serial <= clock
    BY DEF Numbered, Bounds
<1>3. 0 \notin EditorSerials
    BY SerialTypes DEF Numbered, EditorSerials, Numbers
<1> QED
    BY <1>1, <1>2, <1>3 DEF EditorSerials

LEMMA ToldParticipants ==
    ASSUME Numbered, Numbered', Ahead, Told, ChangeParticipants
    PROVE  Told'
<1> DEFINE n == clock'
<1> DEFINE x == Entry("participants", n, now.parts, 0)
<1> DEFINE m == WithEditor(entries, edUndo)
<1>1. clock \in Nat /\ n = clock + 1 /\ n \in Numbers /\ clock < n
    BY TickTime DEF Numbered, ChangeParticipants
<1>2. /\ now' = [now EXCEPT !.parts = n] /\ Noted(n, now, now')
      /\ ignored' = (IF service THEN ignored ELSE Serials(tagUndo))
      /\ edUndo' = edUndo /\ edRedo' = edRedo /\ tagUndo' = tagUndo
      /\ entries' = Trimmed(Append(m, x))
    BY DEF ChangeParticipants, stacks, Follow
<1>3. entries \in Seq(Entries) /\ edUndo \in Seq(EditorSteps) /\ now \in Meetings
    BY DEF Numbered, TypeOK
<1>4. x \in Entries
    BY <1>1, UndoAssumption, ParticipantsEntry DEF Numbered, Values
<1>5. /\ m \in Seq(Entries) /\ Fits(m, Serials(edUndo), HereIn(tagUndo))
      /\ \A e \in Range(m) : e \in Range(entries) \/ e.source = "speakers"
    BY <1>3, EditorFits, WithEditorRange DEF Told
<1>6. x.source = "participants" /\ x.link = 0 /\ x.serial = n
    BY DEF Entry
<1>7. \A e : e = x => Linked(e)'
    <2> SUFFICES ASSUME NEW e, e = x PROVE Linked(e)'
        OBVIOUS
    <2>1. e \in Entries /\ e.link = 0
        BY <1>4, <1>6
    <2>2. e = Entry("participants", n, now.parts, e.link)
        BY <2>1
    <2>3. now'.tags = now.tags
        BY <1>2, <1>3 DEF Meetings
    <2>4. \A s \in EditorSerials' \union Serials(tagUndo') : s # n
        BY <1>1, <1>2, NewNumber DEF EditorSerials
    <2> HIDE DEF x
    <2> QED BY <1>1, <1>2, <2>1, <2>2, <2>3, <2>4, LinkedNow
<1> HIDE DEF x, m
<1>8. Range(entries') \subseteq Range(m) \union {x}
    <2> DEFINE a == Append(m, x)
    <2>1. a \in Seq(Entries) /\ Range(a) = Range(m) \union {x}
        BY <1>4, <1>5, AppendRange
    <2> HIDE DEF a
    <2>2. Range(Trimmed(a)) \subseteq Range(a)
        BY <2>1, TrimmedList
    <2> QED BY <1>2, <2>1, <2>2 DEF a
<1>9. \A e \in Range(entries') : e \in Range(entries) \/ e.source \in {"speakers", "tags"} \/ Linked(e)'
    BY <1>5, <1>7, <1>8
<1>10. Fits(entries', Serials(edUndo'), HereIn(tagUndo)')
    <2>1. CASE service
        <3>1. HereIn(tagUndo)' = HereIn(tagUndo)
            BY <1>2, <2>1, SameHere
        <3> QED BY <1>2, <1>5, <1>6, <1>8, <3>1 DEF Fits
    <2>2. CASE ~service
        <3>1. Range(entries) = {} /\ edUndo = <<>>
            BY <2>2 DEF Numbered, Owned, Range
        <3>2. \A e \in Range(entries') : e.source # "tags"
            BY <1>5, <1>6, <1>8, <3>1
        <3> QED BY <1>2, <1>5, <1>6, <1>8, <3>2 DEF Fits
    <2> QED BY <2>1, <2>2
<1> QED
    BY <1>9, <1>10, ToldAgain DEF Numbered

LEMMA ToldBoth ==
    ASSUME Numbered, Numbered', Ahead, Told, ChangeBoth
    PROVE  Told'
<1> DEFINE n == clock'
<1> DEFINE k == clock + 1
<1> DEFINE x == Entry("participants", n, now.parts, k)
<1> DEFINE l == WithEditor(entries, edUndo')
<1> DEFINE m == WithEditor(l, edUndo')
<1>1. clock \in Nat /\ n = clock + 2 /\ n \in Numbers /\ k \in Numbers /\ k \in Values /\ clock < n /\ clock < k
    BY TickTime DEF Numbered, ChangeBoth
<1>2. /\ now' = [now EXCEPT !.parts = n, !.overlay = k] /\ Noted(n, now, now')
      /\ EditorPushed(k) /\ tagUndo' = tagUndo /\ ignored' = ignored
      /\ entries' = Trimmed(Absorbing(m, x))
    BY DEF ChangeBoth, EditorPushed, EditorStep, Follow
<1>3. entries \in Seq(Entries) /\ edUndo' \in Seq(EditorSteps) /\ now \in Meetings
    BY DEF Numbered, TypeOK
<1>4. x \in Entries
    BY <1>1, ParticipantsEntry DEF Numbered
<1>5. /\ m \in Seq(Entries) /\ Fits(m, Serials(edUndo'), HereIn(tagUndo))
      /\ \A e \in Range(m) : e \in Range(entries) \/ e.source = "speakers"
    <2>1. /\ l \in Seq(Entries) /\ Fits(l, Serials(edUndo'), HereIn(tagUndo))
          /\ \A e \in Range(l) : e \in Range(entries) \/ e.source = "speakers"
        BY <1>3, EditorFits, WithEditorRange DEF Told
    <2> HIDE DEF l
    <2>2. /\ m \in Seq(Entries) /\ Fits(m, Serials(edUndo'), HereIn(tagUndo))
          /\ \A e \in Range(m) : e \in Range(l) \/ e.source = "speakers"
        BY <1>3, <2>1, EditorFits, WithEditorRange
    <2> QED BY <2>1, <2>2
<1>6. x.source = "participants" /\ x.link = k /\ x.serial = n
    BY DEF Entry
<1>7. now'.overlay = k /\ now'.tags = now.tags
    BY <1>2, <1>3 DEF Meetings
<1>8. \A e : e = x => Linked(e)'
    <2> SUFFICES ASSUME NEW e, e = x PROVE Linked(e)'
        OBVIOUS
    <2>1. e \in Entries /\ e.link = k /\ k + 1 = n
        BY <1>1, <1>4, <1>6
    <2>2. e = Entry("participants", n, now.parts, e.link)
        BY <2>1
    <2>3. OfEditor' \subseteq OfEditor \union {EditorStep(k, now.overlay)}
        BY <1>1, <1>2, <1>7, EditorGrows
    <2>4. \A step \in OfEditor' : step.serial # n /\ (step.serial = k => step.before = now.overlay)
        <3> TAKE step \in OfEditor'
        <3>1. CASE step = EditorStep(k, now.overlay)
            BY <3>1, <1>1 DEF EditorStep
        <3>2. CASE step \in OfEditor
            <4>1. step.serial \in Nat /\ step.serial <= clock
                BY <3>2, NumberTypes DEF Numbered, Bounds
            <4> QED BY <4>1, <1>1
        <3> QED BY <2>3, <3>1, <3>2
    <2>5. \A s \in EditorSerials' \union Serials(tagUndo') : s # n
        <3>1. EditorSerials' = {step.serial : step \in OfEditor'}
            BY SerialsInRange DEF EditorSerials, OfEditor
        <3> QED BY <1>1, <1>2, <2>4, <3>1, NewNumber
    <2>6. now.overlay # k
        <3>1. now.overlay \in Nat /\ now.overlay <= clock
            BY NumberTypes DEF Numbered, Bounds
        <3> QED BY <1>1, <3>1
    <2> HIDE DEF x
    <2> QED BY <1>1, <1>2, <1>7, <2>1, <2>2, <2>4, <2>5, <2>6, LinkedNow
<1> HIDE DEF x, m
<1>9. Range(entries') \subseteq Range(m) \union {x}
    <2> DEFINE a == Absorbing(m, x)
    <2>1. a \in Seq(Entries) /\ Range(a) \subseteq Range(m) \union {x}
        BY <1>4, <1>5, AbsorbingList
    <2> HIDE DEF a
    <2>2. Range(Trimmed(a)) \subseteq Range(a)
        BY <2>1, TrimmedList
    <2> QED BY <1>2, <2>1, <2>2 DEF a
<1>10. \A e \in Range(entries') : e \in Range(entries) \/ e.source \in {"speakers", "tags"} \/ Linked(e)'
    BY <1>5, <1>8, <1>9
<1>11. HereIn(tagUndo)' = HereIn(tagUndo)
    BY <1>2, SameHere
<1>12. Fits(entries', Serials(edUndo'), HereIn(tagUndo)')
    BY <1>5, <1>6, <1>9, <1>11 DEF Fits
<1> QED
    BY <1>10, <1>12, ToldAgain DEF Numbered
LEMMA RestFits ==
    ASSUME entries \in Seq(Entries), NEW i \in DOMAIN entries, NEW ed, NEW here, Fits(entries, ed, here)
    PROVE  Rest(i) \in Seq(Entries) /\ Range(Rest(i)) \subseteq Range(entries) /\ Fits(Rest(i), ed, here)
<1>1. Rest(i) \in Seq(Entries) /\ Range(Rest(i)) \subseteq Range(entries)
    <2>1. Rest(i) \in Seq(Entries) /\ Range(Rest(i)) = {entries[j] : j \in DOMAIN entries \ {i}}
        BY RestOfList
    <2>2. \A j \in DOMAIN entries : entries[j] \in Range(entries)
        BY DEF Range
    <2> QED BY <2>1, <2>2
<1> QED
    BY <1>1 DEF Fits

LEMMA ToldShared ==
    ASSUME Numbered, Numbered', Ahead, Told, UndoSpeakers \/ UndoTags \/ UndoParticipants
    PROVE  Told'
<1> DEFINE i == LatestUsable
<1> DEFINE rest == Rest(i)
<1>1. LatestUsable # 0
    BY DEF UndoSpeakers, UndoTags, UndoParticipants
<1>2. i \in DOMAIN entries /\ entries \in Seq(Entries)
    BY <1>1, LatestIsEntry DEF Numbered, TypeOK
<1>3. /\ rest \in Seq(Entries) /\ Range(rest) \subseteq Range(entries)
      /\ Fits(rest, Serials(edUndo), HereIn(tagUndo))
    BY <1>2, RestFits DEF Told
<1>4. edUndo' \in Seq(EditorSteps) /\ tagUndo' \in Seq(TagSteps)
    BY DEF Numbered, TypeOK
<1> HIDE DEF rest
<1>5. /\ WithEditor(rest, edUndo') \in Seq(Entries)
      /\ Fits(WithEditor(rest, edUndo'), Serials(edUndo'), HereIn(tagUndo))
      /\ \A e \in Range(WithEditor(rest, edUndo')) : e \in Range(rest) \/ e.source = "speakers"
    BY <1>3, <1>4, EditorFits, WithEditorRange
<1>6. /\ WithTags(rest, tagUndo') \in Seq(Entries)
      /\ Fits(WithTags(rest, tagUndo'), Serials(edUndo), HereIn(tagUndo'))
      /\ \A e \in Range(WithTags(rest, tagUndo')) : e \in Range(rest) \/ e.source = "tags"
    BY <1>3, <1>4, TagsFit, WithTagsRange
<1>7. CASE UndoSpeakers
    <2>1. Settle(WithEditor(rest, edUndo')) /\ ignored' = ignored
        BY <1>7 DEF UndoSpeakers, rest
    <2> QED BY <1>3, <1>5, <2>1, ToldSettled DEF Numbered
<1>8. CASE UndoTags
    <2>1. PICK refused \in BOOLEAN : Settle(IF refused THEN rest ELSE WithTags(rest, tagUndo'))
        BY <1>8 DEF UndoTags, rest
    <2>2. ignored' = ignored
        BY <1>8 DEF UndoTags
    <2>3. CASE refused
        BY <1>3, <2>1, <2>2, <2>3, ToldSettled DEF Numbered
    <2>4. CASE ~refused
        BY <1>3, <1>6, <2>1, <2>2, <2>4, ToldSettled DEF Numbered
    <2> QED BY <2>3, <2>4
<1>9. CASE UndoParticipants
    <2> DEFINE both == entries[i].link # 0 /\ entries[i].link = TopSerial(edUndo)
    <2>1. Settle(IF both THEN WithEditor(rest, edUndo') ELSE rest) /\ ignored' = ignored
        BY <1>9 DEF UndoParticipants, rest
    <2>2. CASE both
        BY <1>3, <1>5, <2>1, <2>2, ToldSettled DEF Numbered
    <2>3. CASE ~both
        BY <1>3, <2>1, <2>3, ToldSettled DEF Numbered
    <2> QED BY <2>2, <2>3
<1> QED
    BY <1>7, <1>8, <1>9

LEMMA NextTold ==
    ASSUME Numbered, Numbered', Ahead, Told, Next
    PROVE  Told'
<1>0. TypeOK /\ TypeOK'
    BY DEF Numbered
<1>1. CASE Edit \/ UndoInEditor \/ Redo \/ Reload
    <2>1. Follow(WithEditor(entries, edUndo')) /\ tagUndo' = tagUndo /\ ignored' = ignored
        BY <1>1 DEF Edit, UndoInEditor, Redo, Reload
    <2> QED BY <1>0, <2>1, ToldEditor
<1>2. CASE OpenEditor \/ EditorDestroyed
    <2>1. Follow(Detached(entries)) /\ edUndo' = <<>> /\ tagUndo' = tagUndo /\ (service => ignored' = ignored)
        BY <1>2 DEF OpenEditor, Opened, EditorDestroyed
    <2> QED BY <2>1, ToldDetached
<1>3. CASE CloseEditor \/ ChangeBehind
    <2>1. entries' = entries /\ edUndo' = edUndo /\ tagUndo' = tagUndo /\ ignored' = ignored
        BY <1>3 DEF CloseEditor, ChangeBehind, stacks
    <2>2. HereIn(tagUndo)' = HereIn(tagUndo)
        BY <2>1, SameHere
    <2> QED BY <1>0, <2>1, <2>2, ToldAgain DEF Told
<1>4. CASE TagStep(TRUE) \/ TagStep(FALSE) \/ UndoInTags
    <2>1. FollowTags /\ edUndo' = edUndo /\ ignored' = ignored
        BY <1>4 DEF TagStep, UndoInTags
    <2> QED BY <1>0, <2>1, ToldTags
<1>5. CASE CreateService
    <2>1. Range(entries') = {}
        BY <1>5 DEF CreateService, Range
    <2> QED BY <2>1 DEF Told, Fits
<1> QED
    BY <1>1, <1>2, <1>3, <1>4, <1>5, ToldParticipants, ToldBoth, ToldShared DEF Next
----------------------------------------------------------------------------
(* Every action keeps the list a mirror of the stacks, as long as nothing is dropped *)

LEMMA MirrorsOtherwise ==
    ASSUME NEW list, NEW ed, NEW here, NEW t, NEW u, Mirrors(list, ed, here, t),
           \A e \in Range(list) : u[e.serial] = t[e.serial]
    PROVE  Mirrors(list, ed, here, u)
BY InOrderOtherwise DEF Mirrors

\* A new entry was kept: the list had room for it.
LEMMA HadRoom ==
    ASSUME TypeOK, NEW list, Follow(list), ~lost', NEW x \in Range(list), ~Known(entries, x.source, x.serial)
    PROVE  ~lost /\ Len(entries) < MaxEntries /\ entries' = list
<1>1. entries' = list /\ ~lost /\ Len(entries) # MaxEntries
    BY DEF Follow
<1>2. Len(entries) \in Nat /\ Len(entries) <= MaxEntries /\ MaxEntries \in Nat
    BY UndoAssumption DEF TypeOK
<1> QED
    BY <1>1, <1>2

LEMMA EntryNumbers ==
    ASSUME Numbered, Told
    PROVE  /\ \A e \in Range(entries) : /\ e \in Entries /\ e.serial \in Numbers /\ e.serial \in Nat
                                        /\ e.serial <= clock /\ e.link \in Nat /\ e.link <= clock
                                        /\ e.link # 0 => e.source = "participants"
                                        /\ made[e.serial] \in Nat /\ made[e.serial] <= clock
                                        /\ e.serial \notin Serials(edRedo)
           /\ HereIn(tagUndo) \subseteq Serials(tagUndo)
<1>1. HereIn(tagUndo) \subseteq Serials(tagUndo)
    BY SerialsInRange DEF HereIn
<1>2. entries \in Seq(Entries) /\ clock \in Nat
    BY NumberTypes DEF Numbered, TypeOK
<1>3. \A s \in Serials(edUndo) : s \notin Serials(edRedo)
    <2> SUFFICES ASSUME NEW i \in DOMAIN edUndo, NEW j \in DOMAIN edRedo, edUndo[i].serial = edRedo[j].serial
                 PROVE  FALSE
        BY DEF Serials
    <2>1. edUndo[i].serial < edRedo[j].serial
        BY DEF Numbered, Stacked
    <2>2. edUndo[i].serial \in Nat
        BY SerialTypes DEF Numbered, Serials, Numbers
    <2> QED BY <2>1, <2>2
<1> SUFFICES ASSUME NEW e \in Range(entries)
             PROVE  /\ e \in Entries /\ e.serial \in Numbers /\ e.serial \in Nat
                    /\ e.serial <= clock /\ e.link \in Nat /\ e.link <= clock
                    /\ e.link # 0 => e.source = "participants"
                    /\ made[e.serial] \in Nat /\ made[e.serial] <= clock
                    /\ e.serial \notin Serials(edRedo)
    BY <1>1
<1>4. /\ e \in Entries /\ e.serial \in Numbers /\ e.serial \in Nat /\ e.link \in Nat
      /\ e.source \in {"speakers", "tags", "participants"}
    BY <1>2, EntryTypes
<1>5. /\ e.source = "speakers" => e.serial \in Serials(edUndo) /\ e.link = 0
      /\ e.source = "tags" => e.serial \in Serials(tagUndo) /\ e.link = 0
      /\ Linked(e)
    BY <1>1 DEF Told, Fits
<1>6. e.serial <= clock /\ e.link <= clock
    <2>1. CASE e.source = "speakers"
        BY <1>2, <1>5, <2>1, NewNumber DEF EditorSerials
    <2>2. CASE e.source = "tags"
        BY <1>2, <1>5, <2>2, NewNumber
    <2>3. CASE e.source = "participants"
        <3>1. e.serial <= clock /\ (e.link # 0 => e.link + 1 = e.serial)
            BY <1>5, <2>3 DEF Linked
        <3> QED BY <1>2, <1>4, <3>1
    <2> QED BY <1>4, <2>1, <2>2, <2>3
<1>7. e.serial \notin Serials(edRedo)
    <2>1. CASE e.source = "speakers"
        BY <1>3, <1>5, <2>1
    <2>2. CASE e.source = "tags"
        BY <1>5, <2>2 DEF Numbered, Bounds, EditorSerials
    <2>3. CASE e.source = "participants"
        BY <1>5, <2>3 DEF Linked, EditorSerials
    <2> QED BY <1>4, <2>1, <2>2, <2>3
<1>8. made[e.serial] \in Nat /\ made[e.serial] <= clock
    BY <1>4, NumberTypes DEF Numbered, Bounds
<1> QED
    BY <1>4, <1>5, <1>6, <1>7, <1>8

\* Steps of the editor went away.
LEMMA MirrorLess ==
    ASSUME Numbered, Numbered', Told, Mirror, Follow(WithEditor(entries, edUndo')),
           Serials(edUndo') \subseteq Serials(edUndo),
           service' = service, tagUndo' = tagUndo, ignored' = ignored, made' = made
    PROVE  Mirror'
<1> SUFFICES ASSUME service', ~lost'
             PROVE  Mirrors(entries', Serials(edUndo'), HereIn(tagUndo)', made')
    BY DEF Mirror
<1>1. service /\ ~lost /\ entries' = WithEditor(entries, edUndo')
    BY DEF Follow
<1>2. Mirrors(entries, Serials(edUndo), HereIn(tagUndo), made) /\ Fits(entries, Serials(edUndo), HereIn(tagUndo))
    BY <1>1 DEF Mirror, Told
<1>3. entries \in Seq(Entries) /\ Len(entries) <= MaxEntries /\ edUndo' \in Seq(EditorSteps) /\ 0 \notin Serials(edUndo)
    BY NewNumber DEF Numbered, TypeOK
<1>4. HereIn(tagUndo)' = HereIn(tagUndo)
    BY SameHere
<1> QED
    BY <1>1, <1>2, <1>3, <1>4, MirrorsLessEditor

\* The editor went away, or another one came.
LEMMA MirrorDetached ==
    ASSUME Numbered, Told, Mirror, Follow(Detached(entries)), edUndo' = <<>>,
           tagUndo' = tagUndo, made' = made, service => ignored' = ignored,
           ~service => service' = FALSE \/ ignored' = Serials(tagUndo)
    PROVE  Mirror'
<1> SUFFICES ASSUME service', ~lost'
             PROVE  Mirrors(entries', Serials(edUndo'), HereIn(tagUndo)', made')
    BY DEF Mirror
<1> DEFINE new == Detached(entries)
<1>1. ~lost /\ entries' = new
    BY DEF Follow
<1>2. entries \in Seq(Entries)
    BY DEF Numbered, TypeOK
<1>3. /\ new \in Seq(Entries) /\ \A time : InOrder(entries, time) => InOrder(new, time)
      /\ Range(new) = {[e EXCEPT !.link = 0] : e \in {d \in Range(entries) : d.source # "speakers"}}
    BY <1>2, DetachedList
<1> HIDE DEF new
<1>4. \A e \in Range(entries) : e.source # "speakers" => /\ [e EXCEPT !.link = 0].source = e.source
                                                         /\ [e EXCEPT !.link = 0].serial = e.serial
                                                         /\ [e EXCEPT !.link = 0].link = 0
    BY <1>2, EntryTypes DEF Entries
<1>5. \A e \in Range(new) : e.source # "speakers" /\ e.link = 0
    BY <1>3, <1>4
<1>6. Serials(edUndo') = {}
    BY DEF Serials
<1>7. CASE service
    <2>1. HereIn(tagUndo)' = HereIn(tagUndo)
        BY <1>7, SameHere
    <2>2. Mirrors(entries, Serials(edUndo), HereIn(tagUndo), made)
        BY <1>1, <1>7 DEF Mirror
    <2>3. \A s \in HereIn(tagUndo) : Known(new, "tags", s)
        <3> SUFFICES ASSUME NEW s \in HereIn(tagUndo) PROVE Known(new, "tags", s)
            OBVIOUS
        <3>1. Known(entries, "tags", s)
            BY <2>2 DEF Mirrors
        <3>2. PICK e \in Range(entries) : e.source = "tags" /\ e.serial = s
            BY <3>1, KnownIn
        <3>3. [e EXCEPT !.link = 0] \in Range(new)
            BY <1>3, <3>2
        <3>4. [e EXCEPT !.link = 0].source = "tags" /\ [e EXCEPT !.link = 0].serial = s
            BY <1>4, <3>2
        <3> QED BY <3>3, <3>4, KnownIn
    <2>4. InOrder(new, made)
        BY <1>3, <2>2 DEF Mirrors
    <2> QED BY <1>1, <1>5, <1>6, <2>1, <2>3, <2>4 DEF Mirrors
<1>8. CASE ~service
    <2>1. HereIn(tagUndo)' = {}
        BY <1>8, SerialsInRange DEF HereIn
    <2>2. Range(entries) = {}
        BY <1>8 DEF Numbered, Owned, Range
    <2>3. Range(new) = {}
        BY <1>3, <2>2
    <2>4. DOMAIN new = {}
        BY <2>3 DEF Range
    <2>5. InOrder(new, made')
        BY <2>4 DEF InOrder
    <2> QED BY <1>1, <1>6, <2>1, <2>3, <2>5 DEF Mirrors
<1> QED
    BY <1>7, <1>8
\* A step that comes on top of the editor's stack and is made now.
LEMMA MirrorMore ==
    ASSUME Numbered, Numbered', Told, Mirror, Follow(WithEditor(entries, edUndo')),
           NEW n \in Numbers, Serials(edUndo') \subseteq Serials(edUndo) \union {n}, n \in Serials(edUndo'),
           ~Known(entries, "speakers", n), \A e \in Range(entries) : e.serial # n,
           clock < clock', n <= clock', made'[n] = clock', \A s \in Numbers \ {n} : made'[s] = made[s],
           service' = service, tagUndo' = tagUndo, ignored' = ignored
    PROVE  Mirror'
<1> SUFFICES ASSUME service', ~lost'
             PROVE  Mirrors(entries', Serials(edUndo'), HereIn(tagUndo)', made')
    BY DEF Mirror
<1> DEFINE x == Entry("speakers", n, 0, 0)
<1> DEFINE list == WithEditor(entries, edUndo')
<1>1. service /\ ~lost
    BY DEF Follow
<1>2. Mirrors(entries, Serials(edUndo), HereIn(tagUndo), made) /\ Fits(entries, Serials(edUndo), HereIn(tagUndo))
    BY <1>1 DEF Mirror, Told
<1>3. /\ entries \in Seq(Entries) /\ edUndo' \in Seq(EditorSteps) /\ 0 \notin Serials(edUndo) /\ InTurn(edUndo')
      /\ clock \in Nat /\ clock' \in Nat
    BY NewNumber, UndoAssumption DEF Numbered, TypeOK, Stacked, InTurn, Values
<1>4. \A e \in Range(entries) : made'[e.serial] = made[e.serial] /\ made[e.serial] < made'[n]
    BY <1>3, EntryNumbers
<1>5. n <= made'[n]
    OBVIOUS
<1>6. Serials(edUndo') \ {n} \subseteq Serials(edUndo)
    OBVIOUS
<1>7. /\ x \in Range(list)
      /\ Len(entries) < MaxEntries => Mirrors(list, Serials(edUndo'), HereIn(tagUndo), made')
    BY <1>2, <1>3, <1>4, <1>5, <1>6, MirrorsMoreEditor
<1>8. x.source = "speakers" /\ x.serial = n
    BY DEF Entry
<1> HIDE DEF x, list
<1>9. Len(entries) < MaxEntries /\ entries' = list
    <2>1. Follow(list)
        BY DEF list
    <2>2. ~Known(entries, x.source, x.serial)
        BY <1>8
    <2> QED BY <1>7, <2>1, <2>2, HadRoom DEF Numbered
<1>10. HereIn(tagUndo)' = HereIn(tagUndo)
    BY SameHere
<1> QED
    BY <1>7, <1>9, <1>10

LEMMA MirrorEditor ==
    ASSUME Numbered, Numbered', Told, Mirror, Edit \/ UndoInEditor \/ Redo \/ Reload
    PROVE  Mirror'
<1>0. /\ Follow(WithEditor(entries, edUndo')) /\ service' = service /\ tagUndo' = tagUndo /\ ignored' = ignored
      /\ now \in Meetings
    BY DEF Edit, UndoInEditor, Redo, Reload, Numbered, TypeOK
<1>1. CASE Edit
    <2> DEFINE n == clock'
    <2>1. clock \in Nat /\ n = clock + 1 /\ n \in Numbers /\ clock < n /\ n <= n
        BY <1>1, TickTime DEF Numbered, Edit
    <2>2. EditorPushed(n) /\ now' = [now EXCEPT !.overlay = n] /\ Noted(n, now, now')
        BY <1>1 DEF Edit, EditorPushed
    <2>3. now'.overlay = n
        BY <1>0, <2>2, Put
    <2>4. Serials(edUndo') \subseteq Serials(edUndo) \union {n} /\ n \in Serials(edUndo')
        BY <2>1, <2>2, <2>3, EditorGrows
    <2>5. made'[n] = clock' /\ \A s \in Numbers \ {n} : made'[s] = made[s]
        BY <2>1, <2>2, NotedStep DEF Numbered
    <2>6. \A e \in Range(entries) : e.serial # n /\ e.link # n
        BY <2>1, EntryNumbers
    <2>7. ~Known(entries, "speakers", n)
        BY <2>6, KnownIn
    <2> QED BY <1>0, <2>1, <2>4, <2>5, <2>6, <2>7, MirrorMore
<1>2. CASE UndoInEditor
    <2>1. EditorUndone /\ made' = made /\ now'.overlay = Last(edUndo).before
        BY <1>0, <1>2 DEF UndoInEditor, history, Meetings
    <2>2. Serials(edUndo') \subseteq Serials(edUndo)
        BY <2>1, UndoneStack DEF Numbered
    <2> QED BY <1>0, <2>1, <2>2, MirrorLess
<1>3. CASE Redo
    <2> DEFINE n == Last(edRedo).serial
    <2>1. clock \in Nat /\ clock' = clock + 1 /\ clock < clock'
        BY <1>3, TickTime DEF Numbered, Redo
    <2>2. EditorRedone /\ Noted(n, now, now') /\ now'.overlay = Last(edRedo).after
        BY <1>0, <1>3 DEF Redo, EditorRedone, Meetings
    <2>3. /\ n \in EditorSerials /\ Serials(edUndo') = Serials(edUndo) \union {n}
          /\ n \in Serials(edRedo)
        <3>1. n \in EditorSerials /\ n \notin Serials(edUndo) /\ Serials(edUndo') = Serials(edUndo) \union {n}
            BY <2>2, RedoneNumber
        <3> HIDE DEF n
        <3> QED BY <3>1 DEF EditorSerials
    <2> HIDE DEF n
    <2>4. n \in Numbers /\ n \in Nat /\ n <= clock
        BY <2>3, SerialTypes, NewNumber DEF Numbered, EditorSerials
    <2>5. made'[n] = clock' /\ \A s \in Numbers \ {n} : made'[s] = made[s]
        BY <2>2, <2>4, NotedStep DEF Numbered
    <2>6. \A e \in Range(entries) : e.serial # n
        BY <2>3, EntryNumbers
    <2>7. CASE ~Known(entries, "speakers", n)
        <3>1. n <= clock'
            BY <2>1, <2>4
        <3> QED BY <1>0, <2>1, <2>3, <2>4, <2>5, <2>6, <2>7, <3>1, MirrorMore
    <2>8. CASE Known(entries, "speakers", n)
        <3> SUFFICES ASSUME service', ~lost'
                     PROVE  Mirrors(entries', Serials(edUndo'), HereIn(tagUndo)', made')
            BY DEF Mirror
        <3>1. service /\ ~lost /\ entries' = WithEditor(entries, edUndo')
            BY <1>0 DEF Follow
        <3>2. /\ Mirrors(entries, Serials(edUndo), HereIn(tagUndo), made)
              /\ Fits(entries, Serials(edUndo), HereIn(tagUndo))
            BY <3>1 DEF Mirror, Told
        <3>3. entries \in Seq(Entries) /\ Len(entries) <= MaxEntries /\ edUndo' \in Seq(EditorSteps)
            BY DEF Numbered, TypeOK
        <3>4. \A s \in Serials(edUndo') : Known(entries, "speakers", s)
            BY <2>3, <2>8, <3>2 DEF Mirrors
        <3>5. \A e \in Range(entries) : e.source = "speakers" => e.serial \in Serials(edUndo')
            BY <2>3, <3>2 DEF Fits
        <3>6. entries' = entries
            BY <3>1, <3>3, <3>4, <3>5, EditorSame
        <3>7. Mirrors(entries, Serials(edUndo), HereIn(tagUndo), made')
            <4>1. \A e \in Range(entries) : made'[e.serial] = made[e.serial]
                BY <2>5, <2>6, EntryNumbers
            <4> QED BY <3>2, <4>1, MirrorsOtherwise
        <3>8. Mirrors(entries, Serials(edUndo'), HereIn(tagUndo), made')
            BY <3>4, <3>7 DEF Mirrors
        <3>9. HereIn(tagUndo)' = HereIn(tagUndo)
            BY <1>0, SameHere
        <3> QED BY <3>6, <3>8, <3>9
    <2> QED BY <2>7, <2>8
<1>4. CASE Reload
    <2>1. made' = made /\ edUndo' = <<>>
        BY <1>4 DEF Reload, history
    <2>2. Serials(edUndo') \subseteq Serials(edUndo)
        BY <2>1 DEF Serials
    <2> QED BY <1>0, <2>1, <2>2, MirrorLess
<1> QED
    BY <1>1, <1>2, <1>3, <1>4
\* The tags went on, or back: steps about this meeting only if here.
LEMMA MirrorTags ==
    ASSUME Numbered, Numbered', Told, Mirror, TagStep(TRUE) \/ TagStep(FALSE) \/ UndoInTags
    PROVE  Mirror'
<1> SUFFICES ASSUME service', ~lost'
             PROVE  Mirrors(entries', Serials(edUndo'), HereIn(tagUndo)', made')
    BY DEF Mirror
<1> DEFINE list == WithTags(entries, tagUndo')
<1>1. /\ FollowTags /\ service' = service /\ edUndo' = edUndo /\ ignored' = ignored
    BY DEF TagStep, UndoInTags
<1>2. service /\ ~lost /\ entries' = list /\ Follow(list)
    BY <1>1 DEF FollowTags, Follow
<1>3. /\ Mirrors(entries, Serials(edUndo), HereIn(tagUndo), made) /\ Fits(entries, Serials(edUndo), HereIn(tagUndo))
    BY <1>2 DEF Mirror, Told
<1>4. /\ entries \in Seq(Entries) /\ Len(entries) <= MaxEntries /\ tagUndo' \in Seq(TagSteps) /\ InTurn(tagUndo')
      /\ 0 \notin Serials(edUndo) /\ clock \in Nat
    BY NewNumber, NumberTypes DEF Numbered, TypeOK, InTurn
<1>5. HereIn(tagUndo)' = HereIn(tagUndo')
    BY <1>1, SameHere
<1>6. CASE UndoInTags
    <2>1. made' = made /\ Range(tagUndo') \subseteq Range(tagUndo)
        <3>1. TagsUndone(FALSE) /\ made' = made
            BY <1>6 DEF UndoInTags, history
        <3> QED BY <3>1, TagsBack
    <2>2. HereIn(tagUndo') \subseteq HereIn(tagUndo)
        BY <2>1 DEF HereIn
    <2>3. Mirrors(list, Serials(edUndo), HereIn(tagUndo'), made)
        BY <1>3, <1>4, <2>2, MirrorsLessTags
    <2> QED BY <1>1, <1>2, <1>5, <2>1, <2>3
<1>7. ASSUME NEW here \in BOOLEAN, TagStep(here)
      PROVE  Mirrors(entries', Serials(edUndo'), HereIn(tagUndo)', made')
    <2> DEFINE n == clock'
    <2> DEFINE x == [serial |-> clock', here |-> here, before |-> now.tags]
    <2>1. n = clock + 1 /\ n \in Numbers /\ clock < n
        BY <1>7, TickTime DEF Numbered, TagStep
    <2>2. tagUndo' = Limited(Append(tagUndo, x), TagLimit) /\ Noted(n, now, now')
        BY <1>7 DEF TagStep
    <2>3. x \in TagSteps /\ x.serial = n /\ x.here = here
        BY <2>1 DEF Numbered, TypeOK, Meetings, TagSteps
    <2> HIDE DEF x
    <2>4. Range(tagUndo') \subseteq Range(tagUndo) \union {x} /\ x \in Range(tagUndo')
        BY <2>1, <2>2, <2>3, TagsGrow
    <2>5. made'[n] = clock' /\ \A s \in Numbers \ {n} : made'[s] = made[s]
        BY <2>1, <2>2, NotedStep DEF Numbered
    <2>6. \A e \in Range(entries) : e.serial # n /\ made'[e.serial] = made[e.serial] /\ made[e.serial] < made'[n]
        BY <1>4, <2>1, <2>5, EntryNumbers
    <2>7. CASE here
        <3>1. n \in HereIn(tagUndo')
            <4>1. n \notin ignored
                BY <1>4, <2>1 DEF Numbered, Bounds
            <4> QED BY <2>3, <2>4, <2>7, <4>1 DEF HereIn
        <3>2. HereIn(tagUndo') \ {n} \subseteq HereIn(tagUndo)
            BY <2>3, <2>4 DEF HereIn
        <3>3. ~Known(entries, "tags", n)
            BY <2>6, KnownIn
        <3> DEFINE y == Entry("tags", n, 0, 0)
        <3>4. /\ y \in Range(list)
              /\ Len(entries) < MaxEntries => Mirrors(list, Serials(edUndo), HereIn(tagUndo'), made')
            BY <1>3, <1>4, <2>6, <3>1, <3>2, <3>3, MirrorsMoreTags
        <3>5. ~Known(entries, y.source, y.serial)
            BY <3>3 DEF Entry
        <3> HIDE DEF y, list
        <3>6. Len(entries) < MaxEntries
            BY <1>2, <3>4, <3>5, HadRoom DEF Numbered
        <3> QED BY <1>1, <1>2, <1>5, <3>4, <3>6
    <2>8. CASE ~here
        <3>1. HereIn(tagUndo') \subseteq HereIn(tagUndo)
            BY <2>3, <2>4, <2>8 DEF HereIn
        <3>2. Mirrors(entries, Serials(edUndo), HereIn(tagUndo), made')
            BY <1>3, <2>6, MirrorsOtherwise
        <3>3. Mirrors(list, Serials(edUndo), HereIn(tagUndo'), made')
            BY <1>3, <1>4, <3>1, <3>2, MirrorsLessTags
        <3> QED BY <1>1, <1>2, <1>5, <3>3
    <2> QED BY <2>7, <2>8
<1> QED
    BY <1>6, <1>7

LEMMA MirrorParticipants ==
    ASSUME Numbered, Numbered', Told, Mirror, ChangeParticipants
    PROVE  Mirror'
<1> SUFFICES ASSUME service', ~lost'
             PROVE  Mirrors(entries', Serials(edUndo'), HereIn(tagUndo)', made')
    BY DEF Mirror
<1> DEFINE n == clock'
<1> DEFINE x == Entry("participants", n, now.parts, 0)
<1> DEFINE m == WithEditor(entries, edUndo)
<1>1. clock \in Nat /\ n = clock + 1 /\ n \in Numbers /\ clock < n
    BY TickTime DEF Numbered, ChangeParticipants
<1>2. /\ Noted(n, now, now') /\ ignored' = (IF service THEN ignored ELSE Serials(tagUndo))
      /\ edUndo' = edUndo /\ tagUndo' = tagUndo /\ Follow(Trimmed(Append(m, x)))
    BY DEF ChangeParticipants, stacks
<1>3. /\ entries \in Seq(Entries) /\ Len(entries) <= MaxEntries /\ edUndo \in Seq(EditorSteps)
      /\ MaxEntries \in Nat
    BY UndoAssumption DEF Numbered, TypeOK
<1>4. x \in Entries
    BY <1>1, UndoAssumption, ParticipantsEntry DEF Numbered, Values
<1>5. x.source = "participants" /\ x.link = 0 /\ x.serial = n
    BY DEF Entry
<1> HIDE DEF x
<1>6. ~lost
    BY <1>2 DEF Follow
<1>7. made'[n] = clock' /\ \A s \in Numbers \ {n} : made'[s] = made[s]
    BY <1>1, <1>2, NotedStep DEF Numbered
<1>8. \A e \in Range(entries) : e.serial # n /\ made'[e.serial] = made[e.serial] /\ made[e.serial] < made'[n]
    BY <1>1, <1>7, EntryNumbers
<1>9. \E here : /\ HereIn(tagUndo)' = here /\ Mirrors(entries, Serials(edUndo), here, made)
                /\ Fits(entries, Serials(edUndo), here)
    <2>1. CASE service
        <3>1. HereIn(tagUndo)' = HereIn(tagUndo)
            BY <1>2, <2>1, SameHere
        <3> QED BY <1>6, <2>1, <3>1 DEF Mirror, Told
    <2>2. CASE ~service
        <3>1. HereIn(tagUndo)' = {}
            BY <1>2, <2>2, SerialsInRange DEF HereIn
        <3>2. entries = <<>> /\ edUndo = <<>>
            BY <2>2 DEF Numbered, Owned
        <3>3. DOMAIN entries = {} /\ Range(entries) = {} /\ Serials(edUndo) = {}
            BY <3>2 DEF Range, Serials
        <3>4. Mirrors(entries, Serials(edUndo), {}, made) /\ Fits(entries, Serials(edUndo), {})
            BY <3>3 DEF Mirrors, Fits, InOrder
        <3> QED BY <3>1, <3>4
    <2> QED BY <2>1, <2>2
<1>10. PICK here : /\ HereIn(tagUndo)' = here /\ Mirrors(entries, Serials(edUndo), here, made)
                   /\ Fits(entries, Serials(edUndo), here)
    BY <1>9
<1>11. m = entries
    BY <1>3, <1>10, EditorSame DEF Mirrors, Fits
<1> DEFINE a == Append(entries, x)
<1>12. a \in Seq(Entries) /\ a # <<>> /\ Last(a) = x /\ Len(a) = Len(entries) + 1
    BY <1>3, <1>4, AppendRange
<1>13. Mirrors(a, Serials(edUndo), here, made')
    <2>1. \A s \in Serials(edUndo) : s \in Serials(edUndo)
        OBVIOUS
    <2> QED BY <1>3, <1>4, <1>5, <1>8, <1>10, MirrorsAppend
<1>14. Follow(Trimmed(a))
    BY <1>2, <1>11
<1> HIDE DEF a
<1>15. x \in Range(Trimmed(a)) /\ (Len(a) <= MaxEntries => Trimmed(a) = a)
    BY <1>12, TrimmedList
<1>16. ~Known(entries, x.source, x.serial)
    BY <1>5, <1>8, KnownIn
<1>17. Len(entries) < MaxEntries /\ entries' = Trimmed(a)
    BY <1>14, <1>15, <1>16, HadRoom DEF Numbered
<1>18. entries' = a
    <2>1. Len(entries) \in Nat
        BY <1>3
    <2> QED BY <1>3, <1>12, <1>15, <1>17, <2>1
<1> QED
    BY <1>2, <1>10, <1>13, <1>18
\* The absorbed step is in the list for a moment, and the participants' step takes its place.
LEMMA AbsorbingMirrors ==
    ASSUME NEW l \in Seq(Entries), Len(l) <= MaxEntries, NEW k \in Nat, NEW x \in Entries, NEW ed, NEW here,
           NEW u, NEW time, Mirrors(l, ed, here, u), 0 \notin ed, Entry("speakers", k, 0, 0) \in Range(l),
           x.source = "participants", x.link = k, \A e \in Range(l) : e.source = "speakers" => e.link = 0,
           \A e \in Range(l) : \/ e = Entry("speakers", k, 0, 0)
                               \/ e.serial # k /\ time[e.serial] = u[e.serial] /\ u[e.serial] < time[x.serial]
    PROVE  /\ Absorbing(l, x) \in Seq(Entries) /\ Len(Absorbing(l, x)) <= MaxEntries /\ x \in Range(Absorbing(l, x))
           /\ Absorbing(l, x) # <<>> /\ Last(Absorbing(l, x)) = x
           /\ Mirrors(Absorbing(l, x), ed, here, time)
<1> DEFINE y == Entry("speakers", k, 0, 0)
<1> DEFINE S == {e \in Range(l) : ~(e.source = "speakers" /\ e.serial = k)}
<1> DEFINE o == Only(l, S)
<1>1. y.source = "speakers" /\ y.serial = k /\ y \in Range(l)
    BY DEF Entry
<1>2. Absorbing(l, x) = Append(o, x)
    BY DEF Absorbing
<1>3. o \in Seq(Entries) /\ Range(o) = S
    BY OnlyRange
<1>4. Len(o) < Len(l)
    BY <1>1, OnlySome
<1>5. \A e \in Range(l) \ S : e.source = "speakers" /\ e.serial = k /\ e.link = 0
    OBVIOUS
<1>6. Mirrors(o, ed \ {k}, here, u)
    <2>1. ed \ {k} \in SUBSET ed /\ here \in SUBSET here /\ 0 \notin ed \ {k}
        OBVIOUS
    <2>2. \A e \in Range(l) \ S : /\ e.link \notin ed \ {k}
                                  /\ e.source = "speakers" => e.serial \notin ed \ {k}
                                  /\ e.source = "tags" => e.serial \notin here
        BY <1>5
    <2> HIDE DEF S
    <2> QED BY <2>1, <2>2, MirrorsOnly
<1>7. \A e \in Range(o) : /\ time[e.serial] = u[e.serial] /\ u[e.serial] < time[x.serial]
                          /\ e.source = "speakers" => e.serial # k
    <2> TAKE e \in Range(o)
    <2>1. e \in Range(l) /\ ~(e.source = "speakers" /\ e.serial = k)
        BY <1>3
    <2>2. e # y
        BY <1>1, <2>1
    <2> QED BY <2>1, <2>2
<1> HIDE DEF o, S, y
<1>8. /\ Append(o, x) \in Seq(Entries) /\ Len(Append(o, x)) = Len(o) + 1
      /\ Range(Append(o, x)) = Range(o) \union {x} /\ Append(o, x) # <<>> /\ Last(Append(o, x)) = x
    BY <1>3, AppendRange
<1>9. Len(Append(o, x)) <= MaxEntries
    <2>1. Len(o) \in Nat /\ Len(l) \in Nat /\ MaxEntries \in Nat
        BY <1>3, UndoAssumption
    <2> QED BY <1>4, <1>8, <2>1
<1>10. Mirrors(Append(o, x), ed, here, time)
    <2>1. \A s \in ed : s \in ed \ {k} \/ s = x.link
        OBVIOUS
    <2> QED BY <1>3, <1>6, <1>7, <2>1, MirrorsAppend
<1> QED
    BY <1>2, <1>8, <1>9, <1>10

LEMMA MirrorBoth ==
    ASSUME Numbered, Numbered', Told, Mirror, ChangeBoth
    PROVE  Mirror'
<1> SUFFICES ASSUME service', ~lost'
             PROVE  Mirrors(entries', Serials(edUndo'), HereIn(tagUndo)', made')
    BY DEF Mirror
<1> DEFINE n == clock'
<1> DEFINE k == clock + 1
<1> DEFINE x == Entry("participants", n, now.parts, k)
<1> DEFINE y == Entry("speakers", k, 0, 0)
<1> DEFINE l == WithEditor(entries, edUndo')
<1> DEFINE u == [made EXCEPT ![k] = k]
<1>1. /\ clock \in Nat /\ n \in Nat /\ k \in Nat /\ n = clock + 2 /\ n \in Numbers /\ k \in Numbers /\ k \in Values
      /\ clock < n /\ clock < k /\ k < n
    BY TickTime DEF Numbered, ChangeBoth
<1>2. /\ now' = [now EXCEPT !.parts = n, !.overlay = k] /\ Noted(n, now, now')
      /\ EditorPushed(k) /\ tagUndo' = tagUndo /\ ignored' = ignored /\ service' = service
      /\ Follow(Trimmed(Absorbing(WithEditor(l, edUndo'), x)))
    BY DEF ChangeBoth, EditorPushed, EditorStep
<1>3. /\ entries \in Seq(Entries) /\ Len(entries) <= MaxEntries /\ edUndo' \in Seq(EditorSteps) /\ now \in Meetings
      /\ 0 \notin Serials(edUndo) /\ 0 \notin Serials(edUndo')
    <2>1. 0 \notin Serials(edUndo')
        <3>1. \A i \in DOMAIN edUndo' : edUndo'[i] \in EditorSteps
            BY DEF Numbered, TypeOK
        <3>2. \A step \in EditorSteps : step.serial # 0
            BY UndoAssumption DEF EditorSteps, Numbers
        <3> QED BY <3>1, <3>2 DEF Serials
    <2> QED BY <2>1, NewNumber DEF Numbered, TypeOK
<1>4. x \in Entries
    BY <1>1, ParticipantsEntry DEF Numbered
<1>5. x.source = "participants" /\ x.link = k /\ x.serial = n /\ y.source = "speakers" /\ y.serial = k /\ y.link = 0
    BY DEF Entry
<1>6. service /\ ~lost
    BY <1>2 DEF Follow
<1>7. /\ Mirrors(entries, Serials(edUndo), HereIn(tagUndo), made) /\ Fits(entries, Serials(edUndo), HereIn(tagUndo))
      /\ HereIn(tagUndo)' = HereIn(tagUndo)
    BY <1>2, <1>6, SameHere DEF Mirror, Told
<1>8. now'.overlay = k
    BY <1>2, <1>3 DEF Meetings
<1>9. Serials(edUndo') \subseteq Serials(edUndo) \union {k} /\ k \in Serials(edUndo') /\ InTurn(edUndo')
    BY <1>1, <1>2, <1>8, EditorGrows
<1>10. u[k] = k /\ \A s \in Numbers \ {k} : u[s] = made[s]
    <2>1. made \in [Numbers -> Values]
        BY DEF Numbered, TypeOK
    <2> QED BY <1>1, <2>1
<1>11. made'[n] = n /\ \A s \in Numbers \ {n} : made'[s] = made[s]
    BY <1>1, <1>2, NotedStep DEF Numbered
<1> HIDE DEF x, y, u
<1>12. \A e \in Range(entries) : /\ e.serial \in Numbers /\ e.serial # k /\ e.serial # n /\ e.link # k
                                 /\ made[e.serial] \in Nat /\ made[e.serial] <= clock
    BY <1>1, EntryNumbers
<1>13. \A e \in Range(entries) : /\ u[e.serial] = made[e.serial] /\ made[e.serial] < u[k]
                                 /\ made'[e.serial] = u[e.serial]
    <2> TAKE e \in Range(entries)
    <2>1. u[e.serial] = made[e.serial] /\ made'[e.serial] = made[e.serial]
        BY <1>10, <1>11, <1>12
    <2>2. made[e.serial] < u[k]
        BY <1>1, <1>10, <1>12
    <2> QED BY <2>1, <2>2
<1>14. ~Known(entries, "speakers", k)
    BY <1>12, KnownIn
<1>15. /\ y \in Range(l)
       /\ Len(entries) < MaxEntries => Mirrors(l, Serials(edUndo'), HereIn(tagUndo), u)
    <2>1. Serials(edUndo') \ {k} \subseteq Serials(edUndo) /\ k <= u[k]
        BY <1>1, <1>9, <1>10
    <2> QED BY <1>3, <1>7, <1>9, <1>13, <1>14, <2>1, MirrorsMoreEditor DEF y
<1>16. /\ l \in Seq(Entries) /\ Len(l) <= MaxEntries
       /\ Range(l) \subseteq Stay(entries, "speakers", edUndo') \union {Entry("speakers", s, 0, 0) : s \in Serials(edUndo')}
       /\ Fits(l, Serials(edUndo'), HereIn(tagUndo))
    BY <1>3, <1>7, WithEditorRange, EditorFits
<1> HIDE DEF l
<1>17. /\ \A e \in Range(l) : e.source = "speakers" => e.serial \in Serials(edUndo') /\ e.link = 0
       /\ \A e \in Range(l) : \/ e = Entry("speakers", k, 0, 0)
                              \/ e.serial # k /\ made'[e.serial] = u[e.serial] /\ u[e.serial] < made'[x.serial]
    <2>1. \A e \in Range(l) : e.source = "speakers" => e.serial \in Serials(edUndo') /\ e.link = 0
        BY <1>16 DEF Fits
    <2>2. \A e \in Range(l) : e \in Range(entries) \/ \E s \in Serials(edUndo') : e = Entry("speakers", s, 0, 0)
        BY <1>16 DEF Stay
    <2> SUFFICES ASSUME NEW e \in Range(l), e # Entry("speakers", k, 0, 0)
                 PROVE  e.serial # k /\ made'[e.serial] = u[e.serial] /\ u[e.serial] < made'[x.serial]
        BY <2>1
    <2>3. CASE e \in Range(entries)
        BY <1>1, <1>5, <1>10, <1>11, <1>12, <1>13, <2>3
    <2>4. ASSUME NEW s \in Serials(edUndo'), e = Entry("speakers", s, 0, 0)
          PROVE  e.serial # k /\ made'[e.serial] = u[e.serial] /\ u[e.serial] < made'[x.serial]
        <3>1. e.serial = s /\ s # k /\ s \in Serials(edUndo)
            BY <1>9, <2>4 DEF Entry
        <3>2. s \in Numbers /\ s <= clock /\ s \in Nat
            BY <3>1, SerialTypes, NewNumber DEF EditorSerials, Numbered
        <3>3. s # n /\ made[s] \in Nat /\ made[s] <= clock
            BY <1>1, <3>2, NumberTypes DEF Numbered, Bounds
        <3>4. u[s] = made[s] /\ made'[s] = made[s]
            BY <1>10, <1>11, <3>1, <3>2, <3>3
        <3> QED BY <1>1, <1>5, <1>11, <3>1, <3>3, <3>4
    <2> QED BY <2>2, <2>3, <2>4
<1> DEFINE a == Absorbing(l, x)
<1>18. Len(entries) < MaxEntries /\ entries' = Trimmed(Absorbing(WithEditor(l, edUndo'), x))
    <2>1. /\ WithEditor(l, edUndo') \in Seq(Entries)
        BY <1>3, <1>16, WithEditorRange
    <2> DEFINE m == WithEditor(l, edUndo')
    <2> DEFINE S == {e \in Range(m) : ~(e.source = "speakers" /\ e.serial = x.link)}
    <2> HIDE DEF m
    <2>2. Absorbing(m, x) = Append(Only(m, S), x)
        BY DEF Absorbing
    <2>3. Only(m, S) \in Seq(Entries)
        BY <2>1, OnlyRange DEF m
    <2> HIDE DEF S
    <2>4. Absorbing(m, x) \in Seq(Entries) /\ Absorbing(m, x) # <<>> /\ Last(Absorbing(m, x)) = x
        BY <1>4, <2>2, <2>3, AppendRange
    <2>5. x \in Range(Trimmed(Absorbing(m, x)))
        BY <2>4, TrimmedList
    <2>6. ~Known(entries, x.source, x.serial)
        BY <1>5, <1>12, KnownIn
    <2>7. Follow(Trimmed(Absorbing(m, x)))
        BY <1>2 DEF m
    <2> QED BY <2>5, <2>6, <2>7, HadRoom DEF Numbered, m
<1>19. Mirrors(l, Serials(edUndo'), HereIn(tagUndo), u)
    BY <1>15, <1>18
<1>20. WithEditor(l, edUndo') = l
    BY <1>3, <1>16, <1>17, <1>19, EditorSame DEF Mirrors
<1>21. a \in Seq(Entries) /\ Len(a) <= MaxEntries /\ Mirrors(a, Serials(edUndo'), HereIn(tagUndo), made')
    BY <1>1, <1>3, <1>4, <1>5, <1>15, <1>16, <1>17, <1>19, AbsorbingMirrors DEF y
<1>22. entries' = a
    <2> HIDE DEF a
    <2>1. Trimmed(a) = a
        BY <1>21, TrimmedList
    <2> QED BY <1>18, <1>20, <2>1 DEF a
<1> QED
    BY <1>7, <1>21, <1>22
\* The list without one entry mirrors the stacks without its step.
LEMMA RestMirrors ==
    ASSUME Numbered, Told, Mirrors(entries, Serials(edUndo), HereIn(tagUndo), made),
           NEW i \in DOMAIN entries, NEW ed2 \in SUBSET Serials(edUndo), NEW here2 \in SUBSET HereIn(tagUndo),
           entries[i].link \notin ed2,
           entries[i].source = "speakers" => entries[i].serial \notin ed2,
           entries[i].source = "tags" => entries[i].serial \notin here2
    PROVE  Mirrors(Rest(i), ed2, here2, made)
<1>1. entries \in Seq(Entries)
    BY DEF Numbered, TypeOK
<1>2. Range(Rest(i)) = {entries[j] : j \in DOMAIN entries \ {i}}
    BY <1>1, RestOfList
<1>3. InOrder(Rest(i), made)
    BY <1>1, RestInOrder DEF Mirrors
<1>4. \A d \in Range(entries) : d # entries[i] => d \in Range(Rest(i))
    BY <1>2 DEF Range
<1>5. Range(Rest(i)) \subseteq Range(entries)
    BY <1>2 DEF Range
<1>6. \A s \in ed2 : Known(Rest(i), "speakers", s)
    <2> TAKE s \in ed2
    <2>1. PICK d \in Range(entries) : (d.source = "speakers" /\ d.serial = s) \/ d.link = s
        BY KnownIn DEF Mirrors
    <2>2. d # entries[i]
        BY <2>1
    <2> QED BY <1>4, <2>1, <2>2, KnownIn
<1>7. \A s \in here2 : Known(Rest(i), "tags", s)
    <2> TAKE s \in here2
    <2>1. PICK d \in Range(entries) : d.source = "tags" /\ d.serial = s
        BY KnownIn DEF Mirrors
    <2>2. d # entries[i]
        BY <2>1
    <2> QED BY <1>4, <2>1, <2>2, KnownIn
<1> QED
    BY <1>3, <1>5, <1>6, <1>7 DEF Mirrors

LEMMA RestAlone ==
    ASSUME Numbered, Mirrors(entries, Serials(edUndo), HereIn(tagUndo), made), NEW i \in DOMAIN entries
    PROVE  /\ Rest(i) \in Seq(Entries) /\ Len(Rest(i)) < MaxEntries /\ Len(Rest(i)) <= MaxEntries
           /\ \A d \in Range(Rest(i)) : d \in Range(entries) /\ d.serial # entries[i].serial
<1>1. /\ entries \in Seq(Entries) /\ made \in Times /\ Len(entries) <= MaxEntries
      /\ Len(entries) \in Nat /\ MaxEntries \in Nat
    BY UndoAssumption DEF Numbered, TypeOK, Times
<1>2. /\ Rest(i) \in Seq(Entries) /\ Len(Rest(i)) = Len(entries) - 1
      /\ Range(Rest(i)) = {entries[j] : j \in DOMAIN entries \ {i}}
    BY <1>1, RestOfList
<1>3. \A j \in DOMAIN entries : entries[j].serial = entries[i].serial => j = i
    BY <1>1, InOrderWhere DEF Mirrors
<1>4. \A j \in DOMAIN entries : entries[j] \in Range(entries)
    BY DEF Range
<1>5. \A d \in Range(Rest(i)) : d \in Range(entries) /\ d.serial # entries[i].serial
    BY <1>2, <1>3, <1>4
<1> QED
    BY <1>1, <1>2, <1>5

\* A list that mirrors the stacks is not changed by comparing it with them.
LEMMA MirrorSettled ==
    ASSUME NEW rest \in Seq(Entries), Len(rest) <= MaxEntries,
           edUndo' \in Seq(EditorSteps), tagUndo' \in Seq(TagSteps), ignored' = ignored,
           Mirrors(rest, Serials(edUndo'), HereIn(tagUndo'), made'),
           Fits(rest, Serials(edUndo'), HereIn(tagUndo')),
           Settle(rest) \/ Settle(WithEditor(rest, edUndo')) \/ Settle(WithTags(rest, tagUndo'))
    PROVE  Mirrors(entries', Serials(edUndo'), HereIn(tagUndo)', made')
<1>1. WithEditor(rest, edUndo') = rest
    BY EditorSame DEF Mirrors, Fits
<1>2. WithTags(rest, tagUndo') = rest
    BY TagsSame DEF Mirrors, Fits
<1>3. entries' = rest
    BY <1>1, <1>2 DEF Settle, Follow
<1>4. HereIn(tagUndo)' = HereIn(tagUndo')
    BY SameHere
<1> QED
    BY <1>3, <1>4

LEMMA MirrorSpeakers ==
    ASSUME Numbered, Numbered', Told, Mirror, UndoSpeakers
    PROVE  Mirror'
<1> SUFFICES ASSUME service', ~lost'
             PROVE  Mirrors(entries', Serials(edUndo'), HereIn(tagUndo)', made')
    BY DEF Mirror
<1> DEFINE i == LatestUsable
<1> DEFINE rest == Rest(i)
<1>1. /\ service' = service /\ tagUndo' = tagUndo /\ ignored' = ignored /\ made' = made /\ EditorUndone
      /\ now' = [now EXCEPT !.overlay = Last(edUndo).before]
      /\ Settle(WithEditor(rest, edUndo')) /\ entries[i].source = "speakers" /\ LatestUsable # 0
    BY DEF UndoSpeakers, history
<1>2. Mirrors(entries, Serials(edUndo), HereIn(tagUndo), made) /\ Fits(entries, Serials(edUndo), HereIn(tagUndo))
    BY <1>1 DEF Settle, Follow, Mirror, Told
<1>3. i \in DOMAIN entries /\ Usable(i) /\ entries[i] \in Range(entries)
    BY <1>1, LatestIsEntry DEF Numbered, Range
<1>4. entries[i].serial = TopSerial(edUndo) /\ entries[i].link = 0 /\ 0 \notin Serials(edUndo)
    BY <1>1, <1>2, <1>3, NewNumber DEF Usable, Fits
<1>5. now'.overlay = Last(edUndo).before
    BY <1>1 DEF Numbered, TypeOK, Meetings
<1>6. Serials(edUndo) = Serials(edUndo') \union {TopSerial(edUndo)} /\ TopSerial(edUndo) \notin Serials(edUndo')
    BY <1>1, <1>5, UndoneStack DEF Numbered
<1> HIDE DEF i
<1>7. Mirrors(rest, Serials(edUndo'), HereIn(tagUndo), made)
    BY <1>1, <1>2, <1>3, <1>4, <1>6, RestMirrors
<1>8. /\ rest \in Seq(Entries) /\ Len(rest) <= MaxEntries
      /\ \A d \in Range(rest) : d \in Range(entries) /\ d.serial # TopSerial(edUndo)
    BY <1>2, <1>3, <1>4, RestAlone
<1> HIDE DEF rest
<1>9. Fits(rest, Serials(edUndo'), HereIn(tagUndo))
    BY <1>2, <1>6, <1>8 DEF Fits
<1>10. edUndo' \in Seq(EditorSteps) /\ tagUndo' \in Seq(TagSteps)
    BY DEF Numbered, TypeOK
<1> QED
    BY <1>1, <1>7, <1>8, <1>9, <1>10, MirrorSettled
LEMMA MirrorSharedTags ==
    ASSUME Numbered, Numbered', Told, Mirror, UndoTags
    PROVE  Mirror'
<1> SUFFICES ASSUME service', ~lost'
             PROVE  Mirrors(entries', Serials(edUndo'), HereIn(tagUndo)', made')
    BY DEF Mirror
<1> DEFINE i == LatestUsable
<1> DEFINE rest == Rest(i)
<1> DEFINE n == TopSerial(tagUndo)
<1>1. /\ service' = service /\ edUndo' = edUndo /\ ignored' = ignored
      /\ entries[i].source = "tags" /\ LatestUsable # 0
    BY DEF UndoTags
<1>2. PICK refused \in BOOLEAN :
        /\ TagsUndone(refused)
        /\ IF refused THEN PutBack(n) ELSE UNCHANGED <<clock, history>>
        /\ Settle(IF refused THEN rest ELSE WithTags(rest, tagUndo'))
    BY DEF UndoTags
<1>3. Mirrors(entries, Serials(edUndo), HereIn(tagUndo), made) /\ Fits(entries, Serials(edUndo), HereIn(tagUndo))
    BY <1>1, <1>2 DEF Settle, Follow, Mirror, Told
<1>4. i \in DOMAIN entries /\ Usable(i) /\ entries[i] \in Range(entries)
    BY <1>1, LatestIsEntry DEF Numbered, Range
<1>5. /\ entries[i].serial = n /\ entries[i].link = 0 /\ 0 \notin Serials(edUndo) /\ n \in HereIn(tagUndo)
      /\ n \in Numbers
    <2>1. entries[i].serial = n /\ entries[i].link = 0 /\ 0 \notin Serials(edUndo) /\ n \in HereIn(tagUndo)
        BY <1>1, <1>3, <1>4, NewNumber DEF Usable, Fits
    <2> QED BY <1>4, <2>1, EntryNumbers
<1>6. edUndo \in Seq(EditorSteps) /\ edUndo' \in Seq(EditorSteps) /\ tagUndo' \in Seq(TagSteps) /\ InTurn(tagUndo)
      /\ tagUndo \in Seq(TagSteps)
    BY DEF Numbered, TypeOK
<1>7. /\ rest \in Seq(Entries) /\ Len(rest) <= MaxEntries /\ Len(rest) < MaxEntries
      /\ \A d \in Range(rest) : d \in Range(entries) /\ d.serial # n
    BY <1>3, <1>4, <1>5, RestAlone
<1> HIDE DEF i, n
<1>8. \A here2 \in SUBSET (HereIn(tagUndo) \ {n}) : Mirrors(rest, Serials(edUndo), here2, made)
    BY <1>1, <1>3, <1>4, <1>5, RestMirrors
<1> HIDE DEF rest
<1>9. CASE ~refused
    <2>1. /\ Range(tagUndo') \subseteq Range(tagUndo)
          /\ \A t \in Range(tagUndo) : t.serial # n => t \in Range(tagUndo')
          /\ n \notin Serials(tagUndo')
        BY <1>2, <1>9, TagsBack DEF n
    <2>2. HereIn(tagUndo') = HereIn(tagUndo) \ {n}
        <3>1. n \notin HereIn(tagUndo')
            BY <2>1, SerialsInRange DEF HereIn
        <3> QED BY <2>1, <3>1 DEF HereIn
    <2>3. made' = made /\ Settle(WithTags(rest, tagUndo'))
        BY <1>2, <1>9 DEF history
    <2>4. Mirrors(rest, Serials(edUndo'), HereIn(tagUndo'), made')
        BY <1>1, <1>8, <2>2, <2>3
    <2>5. Fits(rest, Serials(edUndo'), HereIn(tagUndo'))
        BY <1>1, <1>3, <1>7, <2>2 DEF Fits
    <2> QED BY <1>1, <1>6, <1>7, <2>3, <2>4, <2>5, MirrorSettled
<1>10. CASE refused
    <2>1. /\ tagUndo' = tagUndo /\ clock' = clock + 1 /\ made' = [made EXCEPT ![n] = clock'] /\ Settle(rest)
          /\ clock \in Nat /\ made \in [Numbers -> Values]
        BY <1>2, <1>10, UndoAssumption DEF TagsUndone, PutBack, Tick, Numbered, TypeOK, Values
    <2>2. /\ Mirrors(rest, Serials(edUndo), HereIn(tagUndo) \ {n}, made)
          /\ Fits(rest, Serials(edUndo), HereIn(tagUndo) \ {n})
        <3>1. HereIn(tagUndo) \ {n} \in SUBSET (HereIn(tagUndo) \ {n})
            OBVIOUS
        <3> QED BY <1>3, <1>7, <1>8, <3>1 DEF Fits
    <2>3. \A d \in Range(rest) : made'[d.serial] = made[d.serial] /\ made[d.serial] < made'[n]
        <3> TAKE d \in Range(rest)
        <3>1. d.serial \in Numbers /\ made[d.serial] \in Nat /\ made[d.serial] <= clock /\ d.serial # n
            BY <1>7, EntryNumbers
        <3>2. made'[n] = clock + 1
            BY <1>5, <2>1
        <3> QED BY <2>1, <3>1, <3>2
    <2>4. ~Known(rest, "tags", n)
        BY <1>7, KnownIn
    <2>5. HereIn(tagUndo) \ {n} \subseteq HereIn(tagUndo) \ {n}
        OBVIOUS
    <2>6. Mirrors(WithTags(rest, tagUndo), Serials(edUndo), HereIn(tagUndo), made')
        BY <1>5, <1>6, <1>7, <2>2, <2>3, <2>4, <2>5, MirrorsMoreTags
    <2>7. WithEditor(rest, edUndo) = rest
        BY <1>6, <1>7, <2>2, EditorSame DEF Mirrors, Fits
    <2>8. entries' = WithTags(rest, tagUndo)
        BY <1>1, <2>1, <2>7 DEF Settle, Follow
    <2>9. HereIn(tagUndo)' = HereIn(tagUndo)
        BY <1>1, <2>1, SameHere
    <2> QED BY <1>1, <2>6, <2>8, <2>9
<1> QED
    BY <1>9, <1>10

\* A participants' step that can be undone is later than the editor's steps that are not on top:
\* what is on top of the editor's stack would come first.
LEMMA AbsorbedOnTop ==
    ASSUME Numbered, Told, Mirrors(entries, Serials(edUndo), HereIn(tagUndo), made),
           LatestUsable # 0, entries[LatestUsable].source = "participants",
           entries[LatestUsable].link \in Serials(edUndo)
    PROVE  entries[LatestUsable].link = TopSerial(edUndo)
<1> DEFINE i == LatestUsable
<1> DEFINE e == entries[i]
<1> DEFINE t == TopSerial(edUndo)
<1>1. i \in DOMAIN entries /\ e \in Range(entries) /\ (\A j \in DOMAIN entries : Usable(j) => j <= i)
    BY LatestIsEntry DEF Numbered, Range
<1>2. /\ edUndo \in Seq(EditorSteps) /\ InTurn(edUndo) /\ edUndo # <<>> /\ entries \in Seq(Entries)
      /\ made \in Times
    <2>1. edUndo # <<>>
        BY DEF Serials
    <2> QED BY <2>1 DEF Numbered, TypeOK, Stacked, InTurn, Times
<1>3. /\ t \in Serials(edUndo) /\ t \in Nat /\ e.link \in Nat /\ e.link # 0
      /\ \A s \in Serials(edUndo) : s \in Nat /\ s <= t
    <2>1. t \in Serials(edUndo) /\ t = edUndo[Len(edUndo)].serial /\ Len(edUndo) \in Nat \ {0}
        BY <1>2, TopOfStack, FrontOfStack
    <2>2. \A s \in Serials(edUndo) : s \in Nat /\ s # 0
        BY NewNumber DEF EditorSerials
    <2> DEFINE m == Len(edUndo)
    <2>3. \A k \in DOMAIN edUndo : edUndo[k].serial <= edUndo[m].serial
        <3> TAKE k \in DOMAIN edUndo
        <3>1. k \in Nat /\ k <= m /\ m \in DOMAIN edUndo /\ m \in Nat
            BY <1>2, <2>1
        <3>2. edUndo[k].serial \in Nat /\ edUndo[m].serial \in Nat
            BY <2>2, <3>1 DEF Serials
        <3>3. k < m => edUndo[k].serial < edUndo[m].serial
            BY <1>2, <3>1 DEF InTurn
        <3> HIDE DEF m
        <3>4. k < m \/ k = m
            BY <3>1
        <3> QED BY <3>2, <3>3, <3>4
    <2> HIDE DEF m, t
    <2>4. \A s \in Serials(edUndo) : s <= t
        BY <2>1, <2>3 DEF Serials, m
    <2> QED BY <2>1, <2>2, <2>4
<1>4. e.serial = e.link + 1 /\ e.serial \notin EditorSerials /\ made[e.serial] = e.serial
    BY <1>1, <1>3 DEF Told, Linked
<1> SUFFICES ASSUME e.link # t PROVE FALSE
    OBVIOUS
<1>5. e.serial < t /\ e.serial \in Nat
    <2>1. e.serial # t
        BY <1>3, <1>4 DEF EditorSerials
    <2> HIDE DEF e, t
    <2>2. e.link <= t
        BY <1>3 DEF e
    <2> QED BY <1>3, <1>4, <2>1, <2>2
<1>6. PICK j \in DOMAIN entries : (entries[j].source = "speakers" /\ entries[j].serial = t) \/ entries[j].link = t
    BY <1>3 DEF Mirrors, Known
<1>7. entries[j] \in Range(entries) /\ Linked(entries[j])
    BY DEF Range, Told
<1> HIDE DEF e, t, i
<1>8. made[e.serial] < made[entries[j].serial] /\ Usable(j)
    <2>1. CASE entries[j].source = "speakers" /\ entries[j].serial = t
        <3>1. t <= made[t]
            BY <1>7, <2>1 DEF Mirrors
        <3>2. made[t] \in Nat
            BY <1>7, <2>1, EntryNumbers
        <3> QED BY <1>3, <1>4, <1>5, <2>1, <3>1, <3>2 DEF Usable, t
    <2>2. CASE entries[j].link = t
        <3>1. entries[j].source = "participants" /\ t # 0
            BY <1>3, <1>7, <2>2, NewNumber, EntryNumbers
        <3>2. made[entries[j].serial] = entries[j].serial /\ t + 1 = entries[j].serial
            BY <1>7, <2>2, <3>1 DEF Linked
        <3> QED BY <1>3, <1>4, <1>5, <3>1, <3>2 DEF Usable
    <2> QED BY <1>6, <2>1, <2>2
<1>9. i < j
    BY <1>1, <1>2, <1>8, InOrderWhere DEF Mirrors, e
<1>10. j <= i /\ i \in Nat /\ j \in Nat
    BY <1>1, <1>2, <1>8
<1> QED
    BY <1>9, <1>10

LEMMA MirrorSharedParticipants ==
    ASSUME Numbered, Numbered', Told, Mirror, UndoParticipants
    PROVE  Mirror'
<1> SUFFICES ASSUME service', ~lost'
             PROVE  Mirrors(entries', Serials(edUndo'), HereIn(tagUndo)', made')
    BY DEF Mirror
<1> DEFINE i == LatestUsable
<1> DEFINE e == entries[i]
<1> DEFINE rest == Rest(i)
<1> DEFINE both == e.link # 0 /\ e.link = TopSerial(edUndo)
<1>1. /\ service' = service /\ tagUndo' = tagUndo /\ ignored' = ignored /\ made' = made
      /\ (IF both THEN EditorUndone ELSE UNCHANGED <<edUndo, edRedo>>)
      /\ now' = [now EXCEPT !.parts = e.before, !.overlay = IF both THEN Last(edUndo).before ELSE @]
      /\ Settle(IF both THEN WithEditor(rest, edUndo') ELSE rest)
      /\ e.source = "participants" /\ LatestUsable # 0
    BY DEF UndoParticipants, history
<1>2. Mirrors(entries, Serials(edUndo), HereIn(tagUndo), made) /\ Fits(entries, Serials(edUndo), HereIn(tagUndo))
    BY <1>1 DEF Settle, Follow, Mirror, Told
<1>3. i \in DOMAIN entries /\ e \in Range(entries) /\ 0 \notin Serials(edUndo)
    BY <1>1, LatestIsEntry, NewNumber DEF Numbered, Range
<1>4. edUndo' \in Seq(EditorSteps) /\ tagUndo' \in Seq(TagSteps)
    BY DEF Numbered, TypeOK
<1>5. rest \in Seq(Entries) /\ Len(rest) <= MaxEntries /\ \A d \in Range(rest) : d \in Range(entries)
    BY <1>2, <1>3, RestAlone
<1>6. e.link \in Serials(edUndo) => both
    BY <1>1, <1>2, <1>3, AbsorbedOnTop
<1>7. \A ed2 \in SUBSET Serials(edUndo) : e.link \notin ed2 => Mirrors(rest, ed2, HereIn(tagUndo), made)
    BY <1>1, <1>2, <1>3, RestMirrors
<1> HIDE DEF rest, i
<1>8. CASE both
    <2>1. Settle(WithEditor(rest, edUndo')) /\ EditorUndone
        BY <1>1, <1>8
    <2>2. now'.overlay = Last(edUndo).before
        BY <1>1, <1>8 DEF Numbered, TypeOK, Meetings
    <2>3. Serials(edUndo) = Serials(edUndo') \union {TopSerial(edUndo)} /\ TopSerial(edUndo) \notin Serials(edUndo')
        BY <2>1, <2>2, UndoneStack DEF Numbered
    <2>4. Mirrors(rest, Serials(edUndo'), HereIn(tagUndo), made)
        BY <1>7, <1>8, <2>3
    <2>5. \A d \in Range(entries) : d.source = "speakers" => d.serial # e.link
        BY <1>2, <1>3, <1>8 DEF Mirrors
    <2>6. Fits(rest, Serials(edUndo'), HereIn(tagUndo))
        BY <1>2, <1>5, <1>8, <2>3, <2>5 DEF Fits
    <2> QED BY <1>1, <1>4, <1>5, <2>1, <2>4, <2>6, MirrorSettled
<1>9. CASE ~both
    <2>1. Settle(rest) /\ edUndo' = edUndo
        BY <1>1, <1>9
    <2>2. Mirrors(rest, Serials(edUndo'), HereIn(tagUndo), made)
        BY <1>6, <1>7, <1>9, <2>1
    <2>3. Fits(rest, Serials(edUndo'), HereIn(tagUndo))
        BY <1>2, <1>5, <2>1 DEF Fits
    <2> QED BY <1>1, <1>4, <1>5, <2>1, <2>2, <2>3, MirrorSettled
<1> QED
    BY <1>8, <1>9
LEMMA NextMirror ==
    ASSUME Numbered, Numbered', Told, Mirror, Next
    PROVE  Mirror'
<1>1. CASE OpenEditor \/ EditorDestroyed
    <2>1. /\ Follow(Detached(entries)) /\ edUndo' = <<>> /\ tagUndo' = tagUndo /\ made' = made
          /\ service => ignored' = ignored
        BY <1>1 DEF OpenEditor, Opened, EditorDestroyed, history
    <2>2. ~service => service' = FALSE \/ ignored' = Serials(tagUndo)
        BY <1>1 DEF OpenEditor, Opened, EditorDestroyed, Numbered, TypeOK
    <2> QED BY <2>1, <2>2, MirrorDetached
<1>2. CASE CloseEditor \/ ChangeBehind
    <2>1. /\ entries' = entries /\ edUndo' = edUndo /\ tagUndo' = tagUndo /\ ignored' = ignored /\ made' = made
          /\ service' = service /\ lost' = lost
        BY <1>2 DEF CloseEditor, ChangeBehind, stacks, history
    <2>2. HereIn(tagUndo)' = HereIn(tagUndo)
        BY <2>1, SameHere
    <2> QED BY <2>1, <2>2 DEF Mirror
<1>3. CASE CreateService
    <2>1. ~service /\ entries' = <<>> /\ edUndo' = edUndo /\ ignored' = Serials(tagUndo) /\ tagUndo' = tagUndo
        BY <1>3 DEF CreateService, stacks
    <2>2. edUndo' = <<>>
        BY <2>1 DEF Numbered, Owned
    <2>3. HereIn(tagUndo)' = {}
        BY <2>1, SerialsInRange DEF HereIn
    <2>4. DOMAIN entries' = {} /\ Range(entries') = {} /\ Serials(edUndo') = {}
        BY <2>1, <2>2 DEF Range, Serials
    <2> QED BY <2>3, <2>4 DEF Mirror, Mirrors, InOrder
<1> QED
    BY <1>1, <1>2, <1>3, MirrorEditor, MirrorTags, MirrorParticipants, MirrorBoth, MirrorSpeakers,
       MirrorSharedTags, MirrorSharedParticipants DEF Next
----------------------------------------------------------------------------
(* The inductive invariant *)

IInv == Numbered /\ Told /\ Mirror

LEMMA InitInv == Init => IInv
<1> SUFFICES ASSUME Init PROVE IInv
    OBVIOUS
<1>1. TypeOK /\ Room
    BY InitTypes
<1>2. /\ service = FALSE /\ editor = "none" /\ edUndo = <<>> /\ edRedo = <<>> /\ tagUndo = <<>>
      /\ entries = <<>> /\ ignored = {} /\ clock = 0 /\ now.overlay = 0
      /\ (\A s \in Numbers : made[s] = 0 /\ is[s] = now)
    BY DEF Init, Numbers
<1>3. /\ Range(edUndo) = {} /\ Range(edRedo) = {} /\ Range(tagUndo) = {} /\ Range(entries) = {}
      /\ DOMAIN edUndo = {} /\ DOMAIN edRedo = {} /\ DOMAIN tagUndo = {} /\ Len(edUndo) = 0 /\ Len(edRedo) = 0
    BY <1>2 DEF Range
<1>4. OfEditor = {} /\ EditorSerials = {} /\ Serials(tagUndo) = {}
    BY <1>3 DEF OfEditor, EditorSerials, Serials
<1>5. Owned
    BY <1>2 DEF Owned
<1>6. Bounds
    BY <1>2, <1>3, <1>4 DEF Bounds
<1>7. Stacked /\ InTurn(tagUndo) /\ Chained
    <2>1. 1 .. 0 - 1 = {}
        OBVIOUS
    <2> QED BY <1>2, <1>3, <2>1 DEF Stacked, InTurn, Chained
<1>8. Kept
    BY <1>3, <1>4 DEF Kept
<1>9. Told /\ Mirror
    BY <1>2, <1>3 DEF Told, Fits, Mirror
<1> QED
    BY <1>1, <1>5, <1>6, <1>7, <1>8, <1>9 DEF IInv, Numbered

LEMMA NextInv == IInv /\ [Next]_vars => IInv'
<1> SUFFICES ASSUME IInv, [Next]_vars PROVE IInv'
    OBVIOUS
<1>1. CASE Next
    <2>1. Numbered' /\ Ahead
        BY <1>1, NextNumbers DEF IInv
    <2>2. Told'
        BY <1>1, <2>1, NextTold DEF IInv
    <2>3. Mirror'
        BY <1>1, <2>1, NextMirror DEF IInv
    <2> QED BY <2>1, <2>2, <2>3 DEF IInv
<1>2. CASE UNCHANGED vars
    <2>1. /\ now' = now /\ service' = service /\ editor' = editor /\ edUndo' = edUndo /\ edRedo' = edRedo
          /\ tagUndo' = tagUndo /\ entries' = entries /\ ignored' = ignored /\ clock' = clock
          /\ was' = was /\ is' = is /\ made' = made /\ lost' = lost
        BY <1>2 DEF vars, stacks, history
    <2>2. TypeOK' /\ Room'
        BY <2>1 DEF IInv, Numbered, TypeOK, Room
    <2>3. OfEditor' = OfEditor /\ EditorSerials' = EditorSerials /\ HereIn(tagUndo)' = HereIn(tagUndo)
        BY <2>1 DEF OfEditor, EditorSerials, HereIn
    <2>4. Owned' /\ Bounds'
        BY <2>1, <2>3 DEF IInv, Numbered, Owned, Bounds
    <2>5. Stacked' /\ InTurn(tagUndo)' /\ Chained'
        BY <2>1 DEF IInv, Numbered, Stacked, InTurn, Chained
    <2>6. Kept'
        BY <2>1, <2>3 DEF IInv, Numbered, Kept, StepKept, TagKept
    <2>7. Told'
        BY <2>1, <2>3 DEF IInv, Told, Linked
    <2>8. Mirror'
        BY <2>1, <2>3 DEF IInv, Mirror
    <2> QED BY <2>2, <2>4, <2>5, <2>6, <2>7, <2>8 DEF IInv, Numbered
<1> QED
    BY <1>1, <1>2
LEMMA MirrorIsExact ==
    ASSUME Numbered, Told, Mirrors(entries, Serials(edUndo), HereIn(tagUndo), made)
    PROVE  /\ EntrySerials("speakers") \intersect Absorbed = {}
           /\ EntrySerials("speakers") \union (Absorbed \intersect Serials(edUndo)) = Serials(edUndo)
           /\ EntrySerials("tags") = Serials(Belonging(tagUndo))
           /\ Serials(Belonging(tagUndo)) = HereIn(tagUndo)
           /\ \A i, j \in DOMAIN entries : entries[i].serial = entries[j].serial => i = j
<1>1. entries \in Seq(Entries) /\ tagUndo \in Seq(TagSteps) /\ made \in Times /\ 0 \notin Serials(edUndo)
    BY NewNumber DEF Numbered, TypeOK, Times
<1>2. /\ \A source : EntrySerials(source) = {e.serial : e \in {d \in Range(entries) : d.source = source}}
      /\ Absorbed = {e.link : e \in Range(entries)} \ {0}
    BY DEF EntrySerials, Absorbed, Range
<1>3. EntrySerials("speakers") \intersect Absorbed = {}
    BY <1>2 DEF Mirrors
<1>4. EntrySerials("speakers") \union (Absorbed \intersect Serials(edUndo)) = Serials(edUndo)
    <2>1. EntrySerials("speakers") \subseteq Serials(edUndo)
        BY <1>2 DEF Told, Fits
    <2>2. ASSUME NEW s \in Serials(edUndo) PROVE s \in EntrySerials("speakers") \/ s \in Absorbed
        <3>1. PICK e \in Range(entries) : (e.source = "speakers" /\ e.serial = s) \/ e.link = s
            BY KnownIn DEF Mirrors
        <3> QED BY <1>1, <1>2, <3>1
    <2> QED BY <2>1, <2>2
<1>5. Serials(Belonging(tagUndo)) = HereIn(tagUndo)
    BY <1>1, BelongingSteps
<1>6. EntrySerials("tags") = HereIn(tagUndo)
    <2>1. EntrySerials("tags") \subseteq HereIn(tagUndo)
        BY <1>2 DEF Told, Fits
    <2>2. ASSUME NEW s \in HereIn(tagUndo) PROVE s \in EntrySerials("tags")
        <3>1. PICK e \in Range(entries) : e.source = "tags" /\ e.serial = s
            BY KnownIn DEF Mirrors
        <3> QED BY <1>2, <3>1
    <2> QED BY <2>1, <2>2
<1>7. \A i, j \in DOMAIN entries : entries[i].serial = entries[j].serial => i = j
    BY <1>1, InOrderWhere DEF Mirrors
<1> QED
    BY <1>3, <1>4, <1>5, <1>6, <1>7

\* The shared stack has every step that can still be undone exactly once, alone or absorbed, and no
\* other, whatever the editor and the tags do on their own (reconcile, pushStep, detachEditor, undo).
THEOREM EntriesMirrorHolds == Spec => []EntriesMirror
<1>1. IInv => EntriesMirror
    BY MirrorIsExact DEF IInv, Mirror, EntriesMirror
<1> QED
    BY <1>1, InitInv, NextInv, PTL DEF Spec

LEMMA MirrorUndoesLatest == IInv => UndoesLatest
<1> SUFFICES ASSUME IInv, service, ~lost
             PROVE  IF LatestUsable = 0 THEN Undoable = {}
                    ELSE LET s == entries[LatestUsable].serial
                         IN  s \in Undoable /\ \A other \in Undoable : made[other] <= made[s]
    BY DEF UndoesLatest
<1> DEFINE i == LatestUsable
<1>1. Numbered /\ TypeOK /\ Told /\ Mirrors(entries, Serials(edUndo), HereIn(tagUndo), made)
    BY DEF IInv, Numbered, Mirror
<1>2. /\ entries \in Seq(Entries) /\ made \in Times /\ 0 \notin Serials(edUndo)
      /\ \A j \in DOMAIN entries : entries[j] \in Range(entries)
    BY <1>1, NewNumber DEF Numbered, TypeOK, Times, Range
<1>3. Undoable = EntrySerials("participants") \union {s \in Serials(edUndo) \ Absorbed : s = TopSerial(edUndo)}
                     \union {s \in HereIn(tagUndo) : s = TopSerial(tagUndo)}
    BY <1>1, MirrorIsExact DEF Undoable
<1>4. ASSUME NEW s \in Undoable PROVE \E j \in DOMAIN entries : Usable(j) /\ entries[j].serial = s
    <2>1. CASE s \in EntrySerials("participants")
        <3>1. PICK j \in DOMAIN entries : entries[j].source = "participants" /\ entries[j].serial = s
            BY <2>1 DEF EntrySerials
        <3>2. Usable(j)
            BY <3>1 DEF Usable
        <3> QED BY <3>1, <3>2
    <2>2. CASE s \in Serials(edUndo) /\ s \notin Absorbed /\ s = TopSerial(edUndo)
        <3>1. PICK j \in DOMAIN entries : (entries[j].source = "speakers" /\ entries[j].serial = s) \/ entries[j].link = s
            BY <1>1, <2>2 DEF Mirrors, Known
        <3>2. entries[j].source = "speakers" /\ entries[j].serial = s
            BY <1>2, <2>2, <3>1 DEF Absorbed
        <3>3. Usable(j)
            BY <2>2, <3>2 DEF Usable
        <3> QED BY <3>2, <3>3
    <2>3. CASE s \in HereIn(tagUndo) /\ s = TopSerial(tagUndo)
        <3>1. PICK j \in DOMAIN entries : entries[j].source = "tags" /\ entries[j].serial = s
            BY <1>1, <2>3 DEF Mirrors, Known
        <3>2. Usable(j)
            BY <2>3, <3>1 DEF Usable
        <3> QED BY <3>1, <3>2
    <2> QED BY <1>3, <2>1, <2>2, <2>3
<1>5. CASE LatestUsable = 0
    <2>1. \A j \in DOMAIN entries : ~Usable(j)
        BY <1>1, <1>5, LatestOfUsable
    <2> QED BY <1>4, <1>5, <2>1
<1>6. CASE LatestUsable # 0
    <2>1. /\ i \in DOMAIN entries /\ Usable(i) /\ entries[i] \in Range(entries)
          /\ \A j \in DOMAIN entries : Usable(j) => j <= i
        BY <1>1, <1>2, <1>6, LatestIsEntry
    <2> HIDE DEF i
    <2>2. entries[i].serial \in Undoable
        <3>1. CASE entries[i].source = "speakers"
            <4>1. entries[i].serial = TopSerial(edUndo) /\ entries[i].serial \in Serials(edUndo)
                BY <1>1, <2>1, <3>1 DEF Usable, Told, Fits
            <4>2. entries[i].serial \notin Absorbed
                BY <1>1, <1>2, <2>1, <3>1 DEF Absorbed, Mirrors
            <4> QED BY <1>3, <4>1, <4>2
        <3>2. CASE entries[i].source = "tags"
            <4>1. entries[i].serial = TopSerial(tagUndo) /\ entries[i].serial \in HereIn(tagUndo)
                BY <1>1, <2>1, <3>2 DEF Usable, Told, Fits
            <4> QED BY <1>3, <4>1
        <3>3. CASE entries[i].source = "participants"
            BY <1>3, <2>1, <3>3 DEF EntrySerials
        <3> QED BY <1>2, <2>1, <3>1, <3>2, <3>3, EntryTypes
    <2>3. \A other \in Undoable : made[other] <= made[entries[i].serial]
        <3> TAKE other \in Undoable
        <3>1. PICK j \in DOMAIN entries : Usable(j) /\ entries[j].serial = other
            BY <1>4
        <3>2. j <= i
            BY <2>1, <3>1
        <3> QED BY <1>1, <1>2, <2>1, <3>1, <3>2, InOrderWhere DEF Mirrors
    <2> QED BY <1>6, <2>2, <2>3 DEF i
<1> QED
    BY <1>5, <1>6

\* undo() of the shared stack takes back the step made, redone or put back last, of all that can be
\* undone, and does nothing only if there is none (latestUsable).
THEOREM UndoesLatestHolds == Spec => []UndoesLatest
BY InitInv, NextInv, MirrorUndoesLatest, PTL DEF Spec

LEMMA TopIsNow ==
    ASSUME Numbered, edUndo # <<>>
    PROVE  /\ Last(edUndo).serial = now.overlay /\ TopSerial(edUndo) = Last(edUndo).serial
           /\ Last(edUndo) \in OfEditor
<1>1. edUndo \in Seq(EditorSteps)
    BY DEF Numbered, TypeOK
<1>2. TopSerial(edUndo) = Last(edUndo).serial /\ Last(edUndo) \in OfEditor
    BY <1>1, TopOfStack DEF OfEditor
<1>3. Last(edUndo) = edUndo[Len(edUndo)] /\ Len(edUndo) \in Nat \ {0} /\ DOMAIN edUndo = 1 .. Len(edUndo)
    <2>1. Last(edUndo) = edUndo[Len(edUndo)] /\ Len(edUndo) \in Nat \ {0}
        BY <1>1, FrontOfStack, Zenon
    <2> QED BY <1>1, <2>1
<1>4. Len(edUndo) \in DOMAIN edUndo
    BY <1>3
<1>5. Last(edUndo).after = now.overlay /\ edUndo[Len(edUndo)].after = edUndo[Len(edUndo)].serial
    BY <1>4 DEF Numbered, Chained
<1> QED
    BY <1>2, <1>3, <1>5

LEMMA BackFromSpeakers ==
    ASSUME IInv, UndoSpeakers, now = is[entries[LatestUsable].serial]
    PROVE  now' = was[entries[LatestUsable].serial]
<1> DEFINE step == Last(edUndo)
<1> DEFINE s == entries[LatestUsable].serial
<1>1. LatestUsable # 0 /\ EditorUndone /\ now' = [now EXCEPT !.overlay = step.before] /\ entries[LatestUsable].source = "speakers"
    BY DEF UndoSpeakers
<1>2. /\ Numbered /\ TypeOK /\ Chained /\ Kept /\ edUndo # <<>> /\ edUndo \in Seq(EditorSteps)
    BY <1>1 DEF IInv, Numbered, TypeOK, EditorUndone
<1>3. s = TopSerial(edUndo)
    BY <1>1, <1>2, LatestIsEntry DEF Usable
<1>4. s = step.serial /\ step \in OfEditor
    BY <1>2, <1>3, TopOfStack DEF OfEditor
<1>5. now.overlay = step.serial
    BY <1>2, TopIsNow
<1>6. StepKept(step)
    BY <1>2, <1>4 DEF Kept
<1> HIDE DEF step
<1> QED
    BY <1>1, <1>4, <1>5, <1>6 DEF StepKept

LEMMA BackFromTags ==
    ASSUME IInv, UndoTags, tagUndo' # tagUndo, now = is[entries[LatestUsable].serial]
    PROVE  now' = was[entries[LatestUsable].serial]
<1> DEFINE step == Last(tagUndo)
<1> DEFINE s == entries[LatestUsable].serial
<1>1. LatestUsable # 0 /\ entries[LatestUsable].source = "tags"
    BY DEF UndoTags
<1>2. TagsUndone(FALSE) /\ now' = [now EXCEPT !.tags = TagsBefore(FALSE)]
    BY DEF UndoTags, TagsUndone
<1>3. Numbered /\ TypeOK /\ Told /\ Kept /\ tagUndo # <<>> /\ tagUndo \in Seq(TagSteps)
    BY <1>2 DEF IInv, Numbered, TypeOK, TagsUndone
<1>4. s = TopSerial(tagUndo) /\ s \in HereIn(tagUndo)
    <2>1. s = TopSerial(tagUndo) /\ entries[LatestUsable] \in Range(entries)
        BY <1>1, <1>3, LatestIsEntry DEF Usable, Range
    <2> QED BY <1>1, <1>3, <2>1 DEF Told, Fits
<1>5. s = step.serial /\ step \in Range(tagUndo)
    BY <1>3, <1>4, TopOfStack
<1>6. PICK t \in Range(tagUndo) : t.here /\ t.serial = s
    BY <1>4 DEF HereIn
<1>7. t = step
    <2>1. TopSerial(tagUndo) \notin Serials(Front(tagUndo))
        BY <1>2, <1>3, TagsBack DEF TagsUndone
    <2>2. Range(tagUndo) = Range(Front(tagUndo)) \union {step}
        BY <1>3, FrontOfStack
    <2>3. t \notin Range(Front(tagUndo))
        BY <1>4, <1>6, <2>1, SerialsInRange
    <2> QED BY <2>2, <2>3
<1>8. TagKept(step) /\ step.here
    BY <1>3, <1>5, <1>6, <1>7 DEF Kept
<1> HIDE DEF step
<1>9. TagsBefore(FALSE) = step.before
    BY <1>8 DEF TagsBefore, step
<1> QED
    BY <1>2, <1>5, <1>8, <1>9 DEF TagKept

LEMMA BackFromParticipants ==
    ASSUME IInv, UndoParticipants, now = is[entries[LatestUsable].serial],
           was[entries[LatestUsable].serial].overlay # is[entries[LatestUsable].serial].overlay
               => entries[LatestUsable].link \in Serials(edUndo)
    PROVE  now' = was[entries[LatestUsable].serial]
<1> DEFINE e == entries[LatestUsable]
<1> DEFINE step == Last(edUndo)
<1> DEFINE both == e.link # 0 /\ e.link = TopSerial(edUndo)
<1>1. /\ LatestUsable # 0 /\ e.source = "participants"
      /\ now' = [now EXCEPT !.parts = e.before, !.overlay = IF both THEN step.before ELSE @]
    BY DEF UndoParticipants
<1>2. /\ Numbered /\ TypeOK /\ Told /\ Chained /\ edUndo \in Seq(EditorSteps) /\ 0 \notin Serials(edUndo)
      /\ entries \in Seq(Entries)
    BY NewNumber DEF IInv, Numbered, TypeOK
<1>3. e \in Range(entries)
    BY <1>1, <1>2, LatestIsEntry DEF Range
<1>4. Linked(e) /\ e.serial \in Numbers
    BY <1>2, <1>3, EntryTypes DEF Told
<1>5. /\ was[e.serial].parts = e.before /\ was[e.serial].tags = is[e.serial].tags
      /\ e.link # 0 => /\ is[e.serial].overlay = e.link /\ was[e.serial].overlay # e.link
                       /\ \A d \in OfEditor : d.serial = e.link => d.before = was[e.serial].overlay
    BY <1>1, <1>4 DEF Linked
<1>6. was[e.serial] \in Meetings /\ is[e.serial] \in Meetings /\ now \in Meetings
    BY <1>2, <1>4, NumberTypes
<1>7. was[e.serial].overlay = IF both THEN step.before ELSE now.overlay
    <2>1. CASE was[e.serial].overlay = is[e.serial].overlay
        <3>1. e.link = 0
            BY <1>5, <2>1
        <3> QED BY <2>1, <3>1
    <2>2. CASE was[e.serial].overlay # is[e.serial].overlay
        <3>1. e.link \in Serials(edUndo) /\ e.link # 0 /\ now.overlay = e.link
            BY <1>2, <1>5, <2>2
        <3>2. edUndo # <<>>
            BY <3>1 DEF Serials
        <3>3. TopSerial(edUndo) = now.overlay /\ step \in OfEditor /\ step.serial = TopSerial(edUndo)
            BY <1>2, <3>2, TopIsNow
        <3> HIDE DEF step
        <3>4. both /\ step.before = was[e.serial].overlay
            BY <1>5, <3>1, <3>3
        <3> QED BY <3>4
    <2> QED BY <2>1, <2>2
<1> HIDE DEF e, step, both
<1>8. now' = [now EXCEPT !.parts = was[e.serial].parts, !.overlay = was[e.serial].overlay]
    BY <1>1, <1>5, <1>6, <1>7 DEF Meetings
<1>9. now.tags = was[e.serial].tags
    BY <1>5 DEF e
<1> QED
    BY <1>6, <1>8, <1>9 DEF Meetings, e

\* An undo of the latest step restores the meeting as it was before it, all three parts together
\* (undoEntry of the sources, the snapshot and the absorbed step of the participants).
THEOREM ExactlyBackHolds == Spec => ExactlyBack
<1> DEFINE e == entries[LatestUsable]
<1> DEFINE A == (/\ LatestUsable # 0 /\ now = is[e.serial]
                 /\ UndoSpeakers \/ UndoTags \/ UndoParticipants
                 /\ e.source = "tags" => tagUndo' # tagUndo
                 /\ e.source = "participants" /\ was[e.serial].overlay # is[e.serial].overlay
                        => e.link \in Serials(edUndo)) => now' = was[e.serial]
<1>1. IInv => A
    <2> SUFFICES ASSUME IInv, LatestUsable # 0, now = is[e.serial], UndoSpeakers \/ UndoTags \/ UndoParticipants,
                        e.source = "tags" => tagUndo' # tagUndo,
                        e.source = "participants" /\ was[e.serial].overlay # is[e.serial].overlay
                            => e.link \in Serials(edUndo)
                 PROVE  now' = was[e.serial]
        OBVIOUS
    <2>1. CASE UndoSpeakers
        BY <2>1, BackFromSpeakers
    <2>2. CASE UndoTags
        <3>1. tagUndo' # tagUndo
            BY <2>2 DEF UndoTags
        <3> QED BY <2>2, <3>1, BackFromTags
    <2>3. CASE UndoParticipants
        <3>1. e.source = "participants"
            BY <2>3 DEF UndoParticipants
        <3> QED BY <2>3, <3>1, BackFromParticipants
    <2> QED BY <2>1, <2>2, <2>3
<1>2. Spec => []IInv
    BY InitInv, NextInv, PTL DEF Spec
<1>3. IInv /\ [Next]_vars => [A]_vars
    BY <1>1
<1> QED
    BY <1>2, <1>3, PTL DEF Spec, ExactlyBack
====
