-------------------------- MODULE FocusListProofs --------------------------
(***************************************************************************)
(* Lemmas about the list primitives of FocusList, for every set of foci    *)
(* and every priority assignment: what inserting, removing and prepending  *)
(* an item does to a list without duplicates.                              *)
(***************************************************************************)
EXTENDS FocusList, SequenceTheorems, WellFoundedInduction, TLAPS

(***************************************************************************)
(* Facts about the list primitives.                                        *)
(***************************************************************************)

\* A nonempty set of naturals has a least element.
LEMMA LeastNatural ==
    ASSUME NEW T, T \subseteq Nat, T # {}
    PROVE  \E x \in T : \A y \in T : x <= y
<1> DEFINE R == OpToRel(<, Nat)
<1>1. PICK x \in T : \A y \in T : ~(<<y, x>> \in R)
  BY NatLessThanWellFounded, WFMin
<1>2. ASSUME NEW y \in T PROVE x <= y
  <2>1. ~(<<y, x>> \in R)  BY <1>1
  <2>2. y < x => <<y, x>> \in R  BY DEF OpToRel
  <2>3. ~(y < x)  BY <2>1, <2>2
  <2>4. x \in Nat /\ y \in Nat  OBVIOUS
  <2> HIDE DEF R
  <2> QED  BY <2>3, <2>4
<1> QED  BY <1>2

\* g_list_insert_sorted() inserts behind strictly more urgent items only and
\* in front of one that is not.
LEMMA InsertPositionFacts ==
    ASSUME NEW s \in Seq(Focus), NEW f \in Focus
    PROVE  /\ InsertPosition(s, f) \in 1..(Len(s) + 1)
           /\ \A i \in 1..Len(s) :
                 i < InsertPosition(s, f) => Type[s[i]] < Type[f]
           /\ InsertPosition(s, f) <= Len(s) =>
                 Type[f] <= Type[s[InsertPosition(s, f)]]
<1> DEFINE N == {i \in 1..Len(s) : Type[f] <= Type[s[i]]}
<1>1. \A i \in 1..Len(s) : s[i] \in Focus /\ Type[s[i]] \in Nat
  BY ElementOfSeq, FocusAssumption
<1>2. Type[f] \in Nat /\ Len(s) \in Nat
  BY FocusAssumption, LenProperties
<1>3. CASE N = {}
  <2>1. InsertPosition(s, f) = Len(s) + 1  BY <1>3 DEF InsertPosition
  <2>2. \A i \in 1..Len(s) : ~(Type[f] <= Type[s[i]])  BY <1>3
  <2> QED  BY <1>1, <1>2, <2>1, <2>2
<1>4. CASE N # {}
  <2>1. \E x \in N : \A y \in N : x <= y
    <3>1. N \subseteq Nat  BY <1>2
    <3> QED  BY <1>4, <3>1, LeastNatural
  <2>2. InsertPosition(s, f) = CHOOSE i \in N : \A j \in N : i <= j
    BY <1>4 DEF InsertPosition
  <2>3. /\ InsertPosition(s, f) \in N
        /\ \A y \in N : InsertPosition(s, f) <= y
    BY <2>1, <2>2
  <2>4. ASSUME NEW i \in 1..Len(s), i < InsertPosition(s, f)
        PROVE  Type[s[i]] < Type[f]
    <3>1. i \notin N  BY <1>2, <2>3, <2>4
    <3> QED  BY <1>1, <1>2, <3>1
  <2> QED  BY <1>2, <2>3, <2>4
<1> QED  BY <1>3, <1>4

\* Inserting adds the item and shifts what stands behind it.
LEMMA InsertFacts ==
    ASSUME NEW S, S \subseteq Focus, NEW s \in Seq(S), NEW f \in S
    PROVE  /\ InsertByPriority(s, f) \in Seq(S)
           /\ Len(InsertByPriority(s, f)) = Len(s) + 1
           /\ InsertPosition(s, f) \in 1..(Len(s) + 1)
<1> DEFINE t == InsertByPriority(s, f)
           p == InsertPosition(s, f)
<1>0. s \in Seq(Focus) /\ f \in Focus  BY SeqMonotonic
<1>1. p \in 1..(Len(s) + 1)  BY <1>0, InsertPositionFacts
<1>2. Len(s) \in Nat /\ \A i \in 1..Len(s) : s[i] \in S
  BY ElementOfSeq, LenProperties
<1>3. t = [i \in 1..(Len(s) + 1) |->
             IF i < p THEN s[i] ELSE IF i = p THEN f ELSE s[i - 1]]
  BY DEF InsertByPriority
<1> HIDE DEF t, p
<1>4. \A i \in 1..(Len(s) + 1) :
         (IF i < p THEN s[i] ELSE IF i = p THEN f ELSE s[i - 1]) \in S
  BY <1>1, <1>2
<1>5. t \in Seq(S) /\ Len(t) = Len(s) + 1
  BY <1>2, <1>3, <1>4, IsASeq
<1> QED  BY <1>1, <1>3, <1>5 DEF t, p


\* The new top in front of what is left of the list.
LEMMA PrependFacts ==
    ASSUME NEW S, NEW s \in Seq(S), NEW f \in S
    PROVE  /\ Prepend(s, f) \in Seq(S)
           /\ Prepend(s, f) # <<>>
           /\ Head(Prepend(s, f)) = f
           /\ Len(Prepend(s, f)) = Len(s) + 1
           /\ Prepend(s, f)[1] = f
           /\ \A i \in 2..(Len(s) + 1) : Prepend(s, f)[i] = s[i - 1]
<1> DEFINE t == Prepend(s, f)
<1>1. Len(s) \in Nat /\ \A i \in 1..Len(s) : s[i] \in S
  BY ElementOfSeq, LenProperties
<1>2. t = [i \in 1..(Len(s) + 1) |-> IF i = 1 THEN f ELSE s[i - 1]]
  BY DEF Prepend
<1> HIDE DEF t
<1>3. \A i \in 1..(Len(s) + 1) : (IF i = 1 THEN f ELSE s[i - 1]) \in S
  BY <1>1
<1>4. t \in Seq(S) /\ Len(t) = Len(s) + 1
  BY <1>1, <1>2, <1>3, IsASeq
<1>5. t[1] = f /\ \A i \in 2..(Len(s) + 1) : t[i] = s[i - 1]
  BY <1>1, <1>2
<1>6. t # <<>> /\ Head(t) = f
  BY <1>1, <1>4, <1>5
<1> QED  BY <1>4, <1>5, <1>6 DEF t

\* s with the item at k taken out.
GapClosed(t, s, k) ==
    /\ Len(t) = Len(s) - 1
    /\ \A i \in 1..(Len(s) - 1) : t[i] = IF i < k THEN s[i] ELSE s[i + 1]

\* _remove_items_by_focus() leaves a list without f alone, and otherwise
\* closes the gap that f leaves; on a list without duplicates f is gone.
LEMMA RemoveFacts ==
    ASSUME NEW S, NEW s \in Seq(S), NEW f, Distinct(s)
    PROVE  /\ RemoveItems(s, f) \in Seq(S \ {f})
           /\ \/ RemoveItems(s, f) = s
              \/ \E k \in 1..Len(s) :
                    s[k] = f /\ GapClosed(RemoveItems(s, f), s, k)
<1> DEFINE t == RemoveItems(s, f)
<1>1. Len(s) \in Nat /\ \A i \in 1..Len(s) : s[i] \in S
  BY ElementOfSeq, LenProperties
<1>2. CASE Occurrences(s, f) = {}
  <2>1. t = s  BY <1>2 DEF RemoveItems
  <2>2. \A i \in 1..Len(s) : s[i] \in S \ {f}
    BY <1>1, <1>2 DEF Occurrences
  <2>3. s \in Seq(S \ {f})
    <3>1. s = [i \in 1..Len(s) |-> s[i]]  BY LenProperties
    <3> QED  BY <1>1, <2>2, <3>1, IsASeq
  <2> QED  BY <2>1, <2>3
<1>3. CASE Occurrences(s, f) # {}
  <2> DEFINE k == CHOOSE i \in Occurrences(s, f) : TRUE
  <2>1. k \in 1..Len(s) /\ s[k] = f
    BY <1>3 DEF Occurrences
  <2>2. t = [i \in 1..(Len(s) - 1) |-> IF i < k THEN s[i] ELSE s[i + 1]]
    BY <1>3 DEF RemoveItems, DropAt
  <2> HIDE DEF k, t
  <2>3. \A i \in 1..Len(s) : i # k => s[i] # f
    BY <2>1 DEF Distinct
  <2>4. \A i \in 1..(Len(s) - 1) :
           (IF i < k THEN s[i] ELSE s[i + 1]) \in S \ {f}
    BY <1>1, <2>1, <2>3
  <2>5. Len(s) - 1 \in Nat  BY <1>1, <2>1
  <2>6. t \in Seq(S \ {f}) /\ Len(t) = Len(s) - 1
    BY <2>2, <2>4, <2>5, IsASeq
  <2> QED  BY <2>1, <2>2, <2>6 DEF t, GapClosed
<1> QED  BY <1>2, <1>3

----------------------------------------------------------------------------
(***************************************************************************)
(* Lists without duplicates, by what is on them and what is on top.        *)
(***************************************************************************)

On(g, s) == \E i \in 1..Len(s) : s[i] = g

\* _remove_items_by_focus() takes off f and nothing else, and a top other than
\* f stays the top.
LEMMA ListRemoved ==
    ASSUME NEW S, NEW s \in Seq(S), NEW f, Distinct(s)
    PROVE  /\ RemoveItems(s, f) \in Seq(S)
           /\ Distinct(RemoveItems(s, f))
           /\ \A g : On(g, RemoveItems(s, f)) <=> On(g, s) /\ g # f
           /\ s # <<>> /\ Head(s) # f =>
                 RemoveItems(s, f) # <<>> /\ Head(RemoveItems(s, f)) = Head(s)
<1> DEFINE t == RemoveItems(s, f)
<1>1. t \in Seq(S \ {f})  BY RemoveFacts
<1>2. t \in Seq(S)  BY <1>1, SeqMonotonic
<1>3. CASE t = s
  <2>1. \A i \in 1..Len(s) : s[i] # f  BY <1>1, <1>3, ElementOfSeq
  <2> QED  BY <1>2, <1>3, <2>1 DEF On
<1>4. CASE t # s
  <2>0. PICK k \in 1..Len(s) : s[k] = f /\ GapClosed(t, s, k)
    BY <1>4, RemoveFacts
  <2>1. /\ Len(t) = Len(s) - 1
        /\ \A i \in 1..(Len(s) - 1) : t[i] = IF i < k THEN s[i] ELSE s[i + 1]
    BY <2>0 DEF GapClosed
  <2>2. Len(s) \in Nat  BY LenProperties
  <2> HIDE DEF t
  <2>3. Distinct(t)  BY <2>1, <2>2 DEF Distinct
  <2>4. ASSUME NEW g PROVE On(g, t) <=> On(g, s) /\ g # f
    <3>1. ASSUME On(g, t) PROVE On(g, s) /\ g # f
      <4>1. PICK i \in 1..Len(t) : t[i] = g  BY <3>1 DEF On
      <4>2. CASE i < k  BY <2>0, <2>1, <2>2, <4>1, <4>2 DEF On, Distinct
      <4>3. CASE ~(i < k)
        <5>1. i + 1 \in 1..Len(s) /\ s[i + 1] = g /\ i + 1 # k
          BY <2>1, <2>2, <4>1, <4>3
        <5> QED  BY <2>0, <5>1 DEF On, Distinct
      <4> QED  BY <4>2, <4>3
    <3>2. ASSUME On(g, s), g # f PROVE On(g, t)
      <4>1. PICK i \in 1..Len(s) : s[i] = g  BY <3>2 DEF On
      <4>2. CASE i < k
        <5>1. i \in 1..Len(t) /\ t[i] = g  BY <2>1, <2>2, <4>1, <4>2
        <5> QED  BY <5>1 DEF On
      <4>3. CASE ~(i < k)
        <5>1. i > k  BY <2>0, <2>2, <3>2, <4>1, <4>3
        <5>2. i - 1 \in 1..Len(t) /\ t[i - 1] = g  BY <2>1, <2>2, <4>1, <5>1
        <5> QED  BY <5>2 DEF On
      <4> QED  BY <4>2, <4>3
    <3> QED  BY <3>1, <3>2
  <2>5. ASSUME s # <<>>, Head(s) # f PROVE t # <<>> /\ Head(t) = Head(s)
    <3>1. Head(s) = s[1]  BY <2>5
    <3>2. k # 1  BY <2>0, <2>5, <3>1
    <3>3. Len(t) >= 1 /\ t[1] = s[1]  BY <2>1, <2>2, <3>2
    <3>4. t # <<>> /\ Head(t) = t[1]  BY <1>2, <3>3
    <3> QED  BY <3>1, <3>3, <3>4
  <2> QED  BY <1>2, <2>3, <2>4, <2>5 DEF t
<1> QED  BY <1>3, <1>4

\* The APPEND macro adds f; a strictly more urgent top stays the top, and f
\* becomes the top where nothing is strictly more urgent.
LEMMA ListInserted ==
    ASSUME NEW S, S \subseteq Focus, NEW s \in Seq(S), NEW f \in S,
           Distinct(s), ~On(f, s)
    PROVE  /\ InsertByPriority(s, f) \in Seq(S) /\ InsertByPriority(s, f) # <<>>
           /\ Distinct(InsertByPriority(s, f))
           /\ \A g : On(g, InsertByPriority(s, f)) <=> On(g, s) \/ g = f
           /\ s # <<>> /\ Type[Head(s)] < Type[f] =>
                 Head(InsertByPriority(s, f)) = Head(s)
           /\ (\A g : On(g, s) => Type[f] <= Type[g]) =>
                 Head(InsertByPriority(s, f)) = f
<1> DEFINE t == InsertByPriority(s, f)
           p == InsertPosition(s, f)
<1>0. s \in Seq(Focus) /\ f \in Focus  BY SeqMonotonic
<1>a. t \in Seq(S) /\ Len(t) = Len(s) + 1 /\ p \in 1..(Len(s) + 1)
  BY InsertFacts
<1>b. t = [i \in 1..(Len(s) + 1) |->
             IF i < p THEN s[i] ELSE IF i = p THEN f ELSE s[i - 1]]
  BY DEF InsertByPriority
<1>c. /\ \A i \in 1..Len(s) : i < p => Type[s[i]] < Type[f]
      /\ p <= Len(s) => Type[f] <= Type[s[p]]
  BY <1>0, InsertPositionFacts
<1>d. /\ Len(s) \in Nat /\ Type[f] \in Nat
      /\ \A i \in 1..Len(s) : s[i] \in S /\ s[i] # f /\ Type[s[i]] \in Nat
  BY <1>0, ElementOfSeq, LenProperties, FocusAssumption DEF On
<1> HIDE DEF t, p
<1>1. \A i \in 1..(Len(s) + 1) :
         t[i] = IF i < p THEN s[i] ELSE IF i = p THEN f ELSE s[i - 1]
  BY <1>b
<1>2. t # <<>> /\ Head(t) = t[1]  BY <1>a, <1>d
<1>3. Distinct(t)
  <2> DEFINE src(i) == IF i < p THEN i ELSE i - 1
  <2>1. \A i \in 1..Len(t) : i # p => t[i] = s[src(i)] /\ src(i) \in 1..Len(s)
    BY <1>a, <1>d, <1>1
  <2>2. \A i, j \in 1..Len(t) : i # p /\ j # p /\ src(i) = src(j) => i = j
    BY <1>a, <1>d
  <2>3. t[p] = f  BY <1>a, <1>1, <1>d
  <2> HIDE DEF src
  <2>4. ASSUME NEW i \in 1..Len(t), NEW j \in 1..Len(t), t[i] = t[j] PROVE i = j
    <3>1. CASE i = p /\ j = p  BY <3>1
    <3>2. CASE i # p /\ j # p  BY <2>1, <2>2, <2>4, <3>2 DEF Distinct
    <3>3. CASE i = p /\ j # p  BY <1>d, <2>1, <2>3, <2>4, <3>3
    <3>4. CASE i # p /\ j = p  BY <1>d, <2>1, <2>3, <2>4, <3>4
    <3> QED  BY <3>1, <3>2, <3>3, <3>4
  <2> QED  BY <2>4 DEF Distinct
<1>4. ASSUME NEW g PROVE On(g, t) <=> On(g, s) \/ g = f
  <2>1. ASSUME On(g, t) PROVE On(g, s) \/ g = f
    BY <1>a, <1>d, <1>1, <2>1 DEF On
  <2>2. ASSUME g = f PROVE On(g, t)
    <3>1. p \in 1..Len(t) /\ t[p] = f  BY <1>a, <1>d, <1>1
    <3> QED  BY <2>2, <3>1 DEF On
  <2>3. ASSUME On(g, s) PROVE On(g, t)
    <3>1. PICK i \in 1..Len(s) : s[i] = g  BY <2>3 DEF On
    <3>2. CASE i < p
      <4>1. i \in 1..Len(t) /\ t[i] = g  BY <1>a, <1>d, <1>1, <3>1, <3>2
      <4> QED  BY <4>1 DEF On
    <3>3. CASE ~(i < p)
      <4>1. i + 1 \in 1..Len(t) /\ t[i + 1] = g  BY <1>a, <1>d, <1>1, <3>1, <3>3
      <4> QED  BY <4>1 DEF On
    <3> QED  BY <3>2, <3>3
  <2> QED  BY <2>1, <2>2, <2>3
<1>5. ASSUME s # <<>>, Type[Head(s)] < Type[f] PROVE Head(t) = Head(s)
  <2>1. Head(s) = s[1] /\ 1 \in 1..Len(s)  BY <1>5, <1>d, EmptySeq
  <2>2. Type[s[1]] \in Nat  BY <1>d, <2>1
  <2>3. p # 1
    <3>1. ASSUME p = 1 PROVE FALSE
      <4>1. p <= Len(s) BY <1>d, <2>1, <3>1
      <4>2. Type[f] <= Type[s[1]]  BY <1>c, <3>1, <4>1
      <4> QED  BY <1>5, <1>d, <2>1, <2>2, <4>2
    <3> QED  BY <3>1
  <2>4. t[1] = s[1]  BY <1>a, <1>d, <1>1, <2>3
  <2> QED  BY <1>2, <2>1, <2>4
<1>6. ASSUME \A g : On(g, s) => Type[f] <= Type[g] PROVE Head(t) = f
  <2>1. p = 1
    <3>1. ASSUME p # 1 PROVE FALSE
      <4>1. 1 \in 1..Len(s) /\ 1 < p  BY <1>a, <1>d, <3>1
      <4>2. Type[s[1]] < Type[f]  BY <1>c, <4>1
      <4>3. On(s[1], s)  BY <4>1 DEF On
      <4>4. Type[f] <= Type[s[1]]  BY <1>6, <4>3
      <4> QED  BY <1>d, <4>1, <4>2, <4>4
    <3> QED  BY <3>1
  <2> QED  BY <1>a, <1>d, <1>1, <1>2, <2>1
<1> QED  BY <1>a, <1>2, <1>3, <1>4, <1>5, <1>6 DEF t

\* A new top is added to a list that it is not on.
LEMMA ListPrepended ==
    ASSUME NEW S, NEW s \in Seq(S), NEW f \in S, Distinct(s), ~On(f, s)
    PROVE  /\ Prepend(s, f) \in Seq(S) /\ Prepend(s, f) # <<>>
           /\ Distinct(Prepend(s, f))
           /\ Head(Prepend(s, f)) = f
           /\ \A g : On(g, Prepend(s, f)) <=> On(g, s) \/ g = f
<1> DEFINE t == Prepend(s, f)
<1>1. /\ t \in Seq(S) /\ t # <<>> /\ Head(t) = f /\ Len(t) = Len(s) + 1
      /\ t[1] = f
      /\ \A i \in 2..(Len(s) + 1) : t[i] = s[i - 1]
  BY PrependFacts
<1>2. Len(s) \in Nat /\ \A i \in 1..Len(s) : s[i] # f  BY LenProperties DEF On
<1> HIDE DEF t
<1>3. Distinct(t)
  <2>1. ASSUME NEW i \in 1..Len(t), NEW j \in 1..Len(t), t[i] = t[j] PROVE i = j
    <3>1. \A n \in 1..Len(t) : n # 1 => t[n] = s[n - 1] /\ n - 1 \in 1..Len(s)
      BY <1>1, <1>2
    <3>2. CASE i = 1 \/ j = 1  BY <1>1, <1>2, <2>1, <3>1, <3>2
    <3>3. CASE i # 1 /\ j # 1
      <4>1. i - 1 = j - 1  BY <2>1, <3>1, <3>3 DEF Distinct
      <4> QED  BY <1>1, <1>2, <4>1
    <3> QED  BY <3>2, <3>3
  <2> QED  BY <2>1 DEF Distinct
<1>4. ASSUME NEW g PROVE On(g, t) <=> On(g, s) \/ g = f
  <2>1. ASSUME On(g, t) PROVE On(g, s) \/ g = f  BY <1>1, <1>2, <2>1 DEF On
  <2>2. ASSUME g = f PROVE On(g, t)  BY <1>1, <1>2, <2>2 DEF On
  <2>3. ASSUME On(g, s) PROVE On(g, t)
    <3>1. PICK i \in 1..Len(s) : s[i] = g  BY <2>3 DEF On
    <3>2. i + 1 \in 2..(Len(s) + 1) /\ (i + 1) - 1 = i  BY <1>2, <3>1
    <3>3. t[i + 1] = s[(i + 1) - 1]  BY <1>1, <3>2
    <3>4. i + 1 \in 1..Len(t) /\ t[i + 1] = g  BY <1>1, <1>2, <3>1, <3>2, <3>3
    <3> QED  BY <3>4 DEF On
  <2> QED  BY <2>1, <2>2, <2>3
<1> QED  BY <1>1, <1>3, <1>4 DEF t

\* Taking the top off.
LEMMA ListTail ==
    ASSUME NEW S, NEW s \in Seq(S), Distinct(s), s # <<>>
    PROVE  /\ Tail(s) \in Seq(S)
           /\ Distinct(Tail(s))
           /\ Head(s) \in S /\ On(Head(s), s)
           /\ \A g : On(g, Tail(s)) <=> On(g, s) /\ g # Head(s)
<1> DEFINE t == Tail(s)
<1>1. /\ Head(s) = s[1] /\ Head(s) \in S
      /\ t \in Seq(S) /\ Len(t) = Len(s) - 1 /\ Len(s) \in Nat \ {0}
      /\ \A i \in 1..Len(t) : t[i] = s[i + 1]
  BY HeadTailProperties, LenProperties
<1> HIDE DEF t
<1>2. Distinct(t)  BY <1>1 DEF Distinct
<1>3. On(Head(s), s)  BY <1>1 DEF On
<1>4. ASSUME NEW g PROVE On(g, t) <=> On(g, s) /\ g # Head(s)
  <2>1. ASSUME On(g, t) PROVE On(g, s) /\ g # Head(s)
    <3>1. PICK i \in 1..Len(t) : t[i] = g  BY <2>1 DEF On
    <3>2. i + 1 \in 1..Len(s) /\ s[i + 1] = g /\ i + 1 # 1  BY <1>1, <3>1
    <3> QED  BY <1>1, <3>2 DEF On, Distinct
  <2>2. ASSUME On(g, s), g # Head(s) PROVE On(g, t)
    <3>1. PICK i \in 1..Len(s) : s[i] = g  BY <2>2 DEF On
    <3>2. i - 1 \in 1..Len(t) /\ t[i - 1] = g  BY <1>1, <2>2, <3>1
    <3> QED  BY <3>2 DEF On
  <2> QED  BY <2>1, <2>2
<1> QED  BY <1>1, <1>2, <1>3, <1>4 DEF t

============================================================================
