-------------------------- MODULE NuguFocusProofs --------------------------
(***************************************************************************)
(* Proofs about NuguFocus, for every set of foci and resources, every      *)
(* priority assignment and every behaviour of the listeners.               *)
(***************************************************************************)
EXTENDS NuguFocus, FocusListProofs

----------------------------------------------------------------------------
(***************************************************************************)
(* The invariant of one resource, as a predicate on a list s and a set o   *)
(* of owners, and the invariant of the part of the list behind the top.    *)
(***************************************************************************)

ListInv(r, s, o) ==
    /\ Distinct(s)
    /\ Disciplined(r) =>
          /\ OnTop(s, o)
          /\ OrderedFrom(s, 2)
          /\ \A i \in 2..Len(s) : s[i] \in Waiters(r)

WaitList(r, s) ==
    /\ Distinct(s)
    /\ Disciplined(r) =>
          /\ OrderedFrom(s, 1)
          /\ \A i \in 1..Len(s) : s[i] \in Waiters(r)

\* Behind the top stands a list of waiting items, none of the top's focus.
LEMMA TailIsWaitList ==
    ASSUME NEW r, NEW S, NEW s \in Seq(S), NEW o, ListInv(r, s, o), s # <<>>
    PROVE  /\ WaitList(r, Tail(s))
           /\ Head(s) \in S
           /\ Tail(s) \in Seq(S \ {Head(s)})
<1> DEFINE t == Tail(s)
<1>1. /\ Head(s) = s[1] /\ Head(s) \in S
      /\ t \in Seq(S) /\ Len(t) = Len(s) - 1 /\ Len(s) \in Nat \ {0}
      /\ \A i \in 1..Len(t) : t[i] = s[i + 1]
  BY HeadTailProperties, LenProperties
<1> HIDE DEF t
<1>2. Distinct(t)  BY <1>1 DEF ListInv, Distinct
<1>3. \A i \in 1..Len(t) : t[i] \in S \ {Head(s)}
  BY <1>1, ElementOfSeq DEF ListInv, Distinct
<1>4. t \in Seq(S \ {Head(s)})
  <2>1. t = [i \in 1..Len(t) |-> t[i]] /\ Len(t) \in Nat
    BY <1>1, LenProperties
  <2> QED  BY <1>3, <2>1, IsASeq
<1>5. Disciplined(r) => OrderedFrom(t, 1)
  BY <1>1 DEF ListInv, OrderedFrom
<1>6. Disciplined(r) => \A i \in 1..Len(t) : t[i] \in Waiters(r)
  BY <1>1 DEF ListInv
<1> QED  BY <1>1, <1>2, <1>4, <1>5, <1>6 DEF WaitList, t

\* A paused item goes back among the waiting ones in priority order.
LEMMA WaitListInsert ==
    ASSUME NEW r, NEW S, S \subseteq Focus, NEW f \in S,
           NEW s \in Seq(S \ {f}), WaitList(r, s), f \in Waiters(r)
    PROVE  WaitList(r, InsertByPriority(s, f)) /\ InsertByPriority(s, f) \in Seq(S)
<1> DEFINE t == InsertByPriority(s, f)
           p == InsertPosition(s, f)
<1>0. s \in Seq(S) /\ s \in Seq(Focus) /\ f \in Focus  BY SeqMonotonic
<1>a. t \in Seq(S) /\ Len(t) = Len(s) + 1 /\ p \in 1..(Len(s) + 1)
  BY <1>0, InsertFacts
<1>b. t = [i \in 1..(Len(s) + 1) |->
             IF i < p THEN s[i] ELSE IF i = p THEN f ELSE s[i - 1]]
  BY DEF InsertByPriority
<1>1. /\ t \in Seq(S) /\ Len(t) = Len(s) + 1 /\ p \in 1..(Len(s) + 1)
      /\ \A i \in 1..(Len(s) + 1) :
            t[i] = IF i < p THEN s[i] ELSE IF i = p THEN f ELSE s[i - 1]
  <2> HIDE DEF t, p
  <2> QED  BY <1>a, <1>b
<1>2. /\ \A i \in 1..Len(s) : i < p => Type[s[i]] < Type[f]
      /\ p <= Len(s) => Type[f] <= Type[s[p]]
  BY <1>0, InsertPositionFacts
<1>3. /\ Len(s) \in Nat /\ Type[f] \in Nat
      /\ \A i \in 1..Len(s) : s[i] \in S \ {f} /\ Type[s[i]] \in Nat
  BY <1>0, ElementOfSeq, LenProperties, FocusAssumption
<1> HIDE DEF t, p
<1>4. Distinct(t)
  <2> DEFINE src(i) == IF i < p THEN i ELSE i - 1
  <2>1. \A i \in 1..Len(t) : i # p => t[i] = s[src(i)] /\ src(i) \in 1..Len(s)
    BY <1>1, <1>3
  <2>2. \A i, j \in 1..Len(t) : i # p /\ j # p /\ src(i) = src(j) => i = j
    BY <1>1, <1>3
  <2>3. t[p] = f  BY <1>1
  <2> HIDE DEF src
  <2>4. ASSUME NEW i \in 1..Len(t), NEW j \in 1..Len(t), t[i] = t[j] PROVE i = j
    <3>1. CASE i = p /\ j = p  BY <3>1
    <3>2. CASE i # p /\ j # p  BY <2>1, <2>2, <2>4, <3>2 DEF WaitList, Distinct
    <3>3. CASE i = p /\ j # p  BY <1>3, <2>1, <2>3, <2>4, <3>3
    <3>4. CASE i # p /\ j = p  BY <1>3, <2>1, <2>3, <2>4, <3>4
    <3> QED  BY <3>1, <3>2, <3>3, <3>4
  <2> QED  BY <2>4 DEF Distinct
<1>5. ASSUME Disciplined(r) PROVE OrderedFrom(t, 1)
  <2>1. \A i, j \in 1..Len(s) : i < j => Type[s[i]] <= Type[s[j]]
    BY <1>5 DEF WaitList, OrderedFrom
  <2>2. \A i \in 1..Len(s) : p <= i => Type[f] <= Type[s[i]]
    BY <1>1, <1>2, <1>3, <2>1
  <2>3. ASSUME NEW i \in 1..Len(t), NEW j \in 1..Len(t), i < j
        PROVE  Type[t[i]] <= Type[t[j]]
    <3>1. CASE j < p  BY <1>1, <1>3, <2>1, <2>3, <3>1
    <3>2. CASE j = p
      <4>1. t[i] = s[i] /\ t[j] = f /\ i \in 1..Len(s) /\ i < p
        BY <1>1, <1>3, <2>3, <3>2
      <4> QED  BY <1>2, <1>3, <4>1
    <3>3. CASE j > p
      <4>1. t[j] = s[j - 1] /\ j - 1 \in 1..Len(s)
        BY <1>1, <1>3, <3>3
      <4>2. CASE i < p
        <5>1. t[i] = s[i] /\ i \in 1..Len(s) /\ i < j - 1
          BY <1>1, <1>3, <3>3, <4>2
        <5> QED  BY <2>1, <4>1, <5>1
      <4>3. CASE i = p
        <5>1. t[i] = f /\ p <= j - 1  BY <1>1, <1>3, <3>3, <4>3
        <5> QED  BY <2>2, <4>1, <5>1
      <4>4. CASE i > p
        <5>1. t[i] = s[i - 1] /\ i - 1 \in 1..Len(s) /\ i - 1 < j - 1
          BY <1>1, <1>3, <2>3, <4>4
        <5> QED  BY <2>1, <4>1, <5>1
      <4> QED  BY <1>1, <4>2, <4>3, <4>4
    <3> QED  BY <1>1, <3>1, <3>2, <3>3
  <2> QED  BY <2>3 DEF OrderedFrom
<1>6. ASSUME Disciplined(r), NEW i \in 1..Len(t) PROVE t[i] \in Waiters(r)
  <2>1. t[i] = f \/ \E j \in 1..Len(s) : t[i] = s[j]
    BY <1>1, <1>3
  <2> QED  BY <1>6, <2>1 DEF WaitList
<1> QED  BY <1>1, <1>4, <1>5, <1>6 DEF WaitList, t

\* Dropping a withdrawn request keeps the waiting items in order.
LEMMA WaitListRemove ==
    ASSUME NEW r, NEW S, NEW s \in Seq(S), NEW f, WaitList(r, s)
    PROVE  WaitList(r, RemoveItems(s, f)) /\ RemoveItems(s, f) \in Seq(S \ {f})
<1> DEFINE t == RemoveItems(s, f)
<1>0. Distinct(s)  BY DEF WaitList
<1>1. t \in Seq(S \ {f})  BY <1>0, RemoveFacts
<1>2. CASE t = s  BY <1>1, <1>2
<1>3. CASE t # s
  <2>0. PICK k \in 1..Len(s) : GapClosed(t, s, k)
    BY <1>0, <1>3, RemoveFacts
  <2>1. /\ Len(t) = Len(s) - 1
        /\ \A i \in 1..(Len(s) - 1) : t[i] = IF i < k THEN s[i] ELSE s[i + 1]
    BY <2>0 DEF GapClosed
  <2>2. Len(s) \in Nat  BY LenProperties
  <2> HIDE DEF t
  <2>3. Distinct(t)  BY <1>0, <2>1, <2>2 DEF Distinct
  <2>4. Disciplined(r) => OrderedFrom(t, 1)
    BY <2>1, <2>2 DEF WaitList, OrderedFrom
  <2>5. Disciplined(r) => \A i \in 1..Len(t) : t[i] \in Waiters(r)
    BY <2>1, <2>2 DEF WaitList
  <2> QED  BY <1>1, <2>3, <2>4, <2>5 DEF WaitList, t
<1> QED  BY <1>2, <1>3

\* A new top over waiting items.
LEMMA WaitListPrepend ==
    ASSUME NEW r, NEW S, NEW f \in S, NEW s \in Seq(S \ {f}), WaitList(r, s),
           NEW o, o \subseteq {f}
    PROVE  ListInv(r, Prepend(s, f), o) /\ Prepend(s, f) \in Seq(S)
<1> DEFINE t == Prepend(s, f)
<1>0. s \in Seq(S)  BY SeqMonotonic
<1>1. /\ t \in Seq(S) /\ t # <<>> /\ Head(t) = f /\ Len(t) = Len(s) + 1
      /\ t[1] = f
      /\ \A i \in 2..(Len(s) + 1) : t[i] = s[i - 1]
  BY <1>0, PrependFacts
<1>2. Len(s) \in Nat /\ \A i \in 1..Len(s) : s[i] # f
  BY ElementOfSeq, LenProperties
<1> HIDE DEF t
<1>3. Distinct(t)  BY <1>1, <1>2 DEF WaitList, Distinct
<1>4. OnTop(t, o)  BY <1>1 DEF OnTop
<1>5. ASSUME Disciplined(r) PROVE OrderedFrom(t, 2)
  <2>1. \A i, j \in 1..Len(s) : i < j => Type[s[i]] <= Type[s[j]]
    BY <1>5 DEF WaitList, OrderedFrom
  <2>2. ASSUME NEW i \in 2..Len(t), NEW j \in 2..Len(t), i < j
        PROVE  Type[t[i]] <= Type[t[j]]
    <3>1. /\ t[i] = s[i - 1] /\ t[j] = s[j - 1]
          /\ i - 1 \in 1..Len(s) /\ j - 1 \in 1..Len(s) /\ i - 1 < j - 1
      BY <1>1, <1>2, <2>2
    <3> QED  BY <2>1, <3>1
  <2> QED  BY <2>2 DEF OrderedFrom
<1>6. Disciplined(r) => \A i \in 2..Len(t) : t[i] \in Waiters(r)
  BY <1>1, <1>2 DEF WaitList
<1> QED  BY <1>1, <1>3, <1>4, <1>5, <1>6 DEF ListInv, t

\* The first waiting item as the top, owner or not.
LEMMA WaitListIsList ==
    ASSUME NEW r, NEW S, NEW s \in Seq(S), WaitList(r, s),
           NEW o, o = {} \/ (s # <<>> /\ o \subseteq {Head(s)})
    PROVE  ListInv(r, s, o)
<1>1. Len(s) \in Nat  BY LenProperties
<1>2. OnTop(s, o)  BY DEF OnTop
<1>3. Disciplined(r) => OrderedFrom(s, 2)
  BY <1>1 DEF WaitList, OrderedFrom
<1>4. Disciplined(r) => \A i \in 2..Len(s) : s[i] \in Waiters(r)
  BY <1>1 DEF WaitList
<1> QED  BY <1>2, <1>3, <1>4 DEF WaitList, ListInv

\* Taking a focus off a list whose top it is not, or whose owner it ceases
\* to be, keeps the list's invariant.
LEMMA ListRemove ==
    ASSUME NEW r, NEW S, NEW s \in Seq(S), NEW f, NEW o, ListInv(r, s, o)
    PROVE  /\ RemoveItems(s, f) \in Seq(S \ {f})
           /\ ListInv(r, RemoveItems(s, f), o \ {f})
           /\ s # <<>> /\ Head(s) # f =>
                 /\ RemoveItems(s, f) # <<>>
                 /\ Head(RemoveItems(s, f)) = Head(s)
                 /\ ListInv(r, RemoveItems(s, f), o)
<1> DEFINE t == RemoveItems(s, f)
<1>0. Distinct(s)  BY DEF ListInv
<1>1. t \in Seq(S \ {f})  BY <1>0, RemoveFacts
<1>2. CASE t = s
  <2>1. ListInv(r, s, o \ {f})  BY DEF ListInv, OnTop
  <2> QED  BY <1>1, <1>2, <2>1
<1>3. CASE t # s
  <2>0. PICK k \in 1..Len(s) : s[k] = f /\ GapClosed(t, s, k)
    BY <1>0, <1>3, RemoveFacts
  <2>1. /\ Len(t) = Len(s) - 1
        /\ \A i \in 1..(Len(s) - 1) : t[i] = IF i < k THEN s[i] ELSE s[i + 1]
    BY <2>0 DEF GapClosed
  <2>2. Len(s) \in Nat /\ s # <<>>
    BY <2>0, LenProperties, EmptySeq
  <2> HIDE DEF t
  <2>3. Distinct(t)  BY <1>0, <2>1, <2>2 DEF Distinct
  <2>4. ASSUME Disciplined(r) PROVE OrderedFrom(t, 2)
    BY <2>1, <2>2, <2>4 DEF ListInv, OrderedFrom
  <2>5. ASSUME Disciplined(r), NEW i \in 2..Len(t) PROVE t[i] \in Waiters(r)
    BY <2>1, <2>2, <2>5 DEF ListInv
  <2>6. ASSUME Head(s) # f PROVE t # <<>> /\ Head(t) = Head(s)
    <3>1. Head(s) = s[1]  BY <2>2
    <3>2. k # 1  BY <2>0, <2>6, <3>1
    <3>3. Len(t) >= 1 /\ t[1] = s[1]  BY <2>1, <2>2, <3>2
    <3>4. t # <<>> /\ Head(t) = t[1]  BY <1>1, <3>3
    <3> QED  BY <3>1, <3>3, <3>4
  <2>7. Disciplined(r) => OnTop(t, o \ {f})
    BY <2>6 DEF ListInv, OnTop
  <2>8. Head(s) # f /\ Disciplined(r) => OnTop(t, o)
    BY <2>6 DEF ListInv, OnTop
  <2> QED  BY <1>1, <2>3, <2>4, <2>5, <2>6, <2>7, <2>8 DEF ListInv, t
<1> QED  BY <1>2, <1>3

\* A rejected request is reserved behind the top, and a top that rejects
\* itself stays the top.
LEMMA ListReserve ==
    ASSUME NEW r \in Resource, NEW S, S \subseteq Focus, NEW s \in Seq(S),
           NEW f \in S, NEW o, ListInv(r, s, o), s # <<>>,
           <<Head(s), r, f>> \in Rejects
    PROVE  /\ InsertByPriority(RemoveItems(s, f), f) \in Seq(S)
           /\ ListInv(r, InsertByPriority(RemoveItems(s, f), f), o)
<1> DEFINE u == RemoveItems(s, f)
           t == InsertByPriority(u, f)
           p == InsertPosition(u, f)
<1>1. /\ u \in Seq(S \ {f})
      /\ ListInv(r, u, o \ {f})
      /\ Head(s) # f => u # <<>> /\ Head(u) = Head(s) /\ ListInv(r, u, o)
  BY ListRemove
<1>2. u \in Seq(S) /\ u \in Seq(Focus) /\ f \in Focus
  BY <1>1, SeqMonotonic
<1>3. f \in Waiters(r) /\ Head(s) \in S /\ Head(s) \in Focus
  BY <1>2, HeadTailProperties DEF Waiters
<1>a. t \in Seq(S) /\ Len(t) = Len(u) + 1 /\ p \in 1..(Len(u) + 1)
  BY <1>2, InsertFacts
<1>b. t = [i \in 1..(Len(u) + 1) |->
             IF i < p THEN u[i] ELSE IF i = p THEN f ELSE u[i - 1]]
  BY DEF InsertByPriority
<1>c. /\ \A i \in 1..Len(u) : i < p => Type[u[i]] < Type[f]
      /\ p <= Len(u) => Type[f] <= Type[u[p]]
  BY <1>2, InsertPositionFacts
<1>d. /\ Len(u) \in Nat /\ Type[f] \in Nat
      /\ \A i \in 1..Len(u) : u[i] \in S \ {f} /\ Type[u[i]] \in Nat
  BY <1>1, <1>2, ElementOfSeq, LenProperties, FocusAssumption
<1> HIDE DEF t, p, u
<1>4. \A i \in 1..(Len(u) + 1) :
         t[i] = IF i < p THEN u[i] ELSE IF i = p THEN f ELSE u[i - 1]
  BY <1>b
<1>5. Distinct(t)
  <2> DEFINE src(i) == IF i < p THEN i ELSE i - 1
  <2>1. \A i \in 1..Len(t) : i # p => t[i] = u[src(i)] /\ src(i) \in 1..Len(u)
    BY <1>a, <1>d, <1>4
  <2>2. \A i, j \in 1..Len(t) : i # p /\ j # p /\ src(i) = src(j) => i = j
    BY <1>a, <1>d
  <2>3. t[p] = f  BY <1>a, <1>4
  <2>4. Distinct(u)  BY <1>1 DEF ListInv
  <2> HIDE DEF src
  <2>5. ASSUME NEW i \in 1..Len(t), NEW j \in 1..Len(t), t[i] = t[j] PROVE i = j
    <3>1. CASE i = p /\ j = p  BY <3>1
    <3>2. CASE i # p /\ j # p  BY <2>1, <2>2, <2>4, <2>5, <3>2 DEF Distinct
    <3>3. CASE i = p /\ j # p  BY <1>d, <2>1, <2>3, <2>5, <3>3
    <3>4. CASE i # p /\ j = p  BY <1>d, <2>1, <2>3, <2>5, <3>4
    <3> QED  BY <3>1, <3>2, <3>3, <3>4
  <2> QED  BY <2>5 DEF Distinct
<1>6. ASSUME Disciplined(r), Head(s) # f PROVE ListInv(r, t, o)
  <2>1. Type[Head(s)] < Type[f]  BY <1>2, <1>3, <1>6 DEF Disciplined
  <2>2. u # <<>> /\ Head(u) = u[1] /\ u[1] = Head(s) /\ Len(u) \in Nat \ {0}
    BY <1>1, <1>2, <1>6, EmptySeq
  <2>3. p # 1
    <3>1. Type[u[1]] \in Nat  BY <1>d, <2>2
    <3> QED  BY <1>c, <1>d, <2>1, <2>2, <3>1
  <2>4. t[1] = u[1] /\ t # <<>> /\ Head(t) = t[1]
    BY <1>a, <1>4, <1>d, <2>2, <2>3
  <2>5. OnTop(t, o)
    BY <1>1, <1>6, <2>2, <2>4 DEF ListInv, OnTop
  <2>6. \A i, j \in 2..Len(u) : i < j => Type[u[i]] <= Type[u[j]]
    BY <1>1, <1>6 DEF ListInv, OrderedFrom
  <2>7. \A i \in 2..Len(u) : p <= i => Type[f] <= Type[u[i]]
    BY <1>a, <1>c, <1>d, <2>3, <2>6
  <2>8. ASSUME NEW i \in 2..Len(t), NEW j \in 2..Len(t), i < j
        PROVE  Type[t[i]] <= Type[t[j]]
    <3>1. CASE j < p
      <4>1. t[i] = u[i] /\ t[j] = u[j] /\ i \in 2..Len(u) /\ j \in 2..Len(u)
        BY <1>a, <1>d, <1>4, <2>8, <3>1
      <4> QED  BY <2>6, <2>8, <4>1
    <3>2. CASE j = p
      <4>1. t[i] = u[i] /\ t[j] = f /\ i \in 1..Len(u) /\ i < p
        BY <1>a, <1>d, <1>4, <2>8, <3>2
      <4> QED  BY <1>c, <1>d, <4>1
    <3>3. CASE j > p
      <4>1. t[j] = u[j - 1] /\ j - 1 \in 2..Len(u)
        BY <1>a, <1>d, <1>4, <2>3, <3>3
      <4>2. CASE i < p
        <5>1. t[i] = u[i] /\ i \in 2..Len(u) /\ i < j - 1
          BY <1>a, <1>d, <1>4, <3>3, <4>2
        <5> QED  BY <2>6, <4>1, <5>1
      <4>3. CASE i = p
        <5>1. t[i] = f /\ p <= j - 1  BY <1>a, <1>d, <1>4, <3>3, <4>3
        <5> QED  BY <2>7, <4>1, <5>1
      <4>4. CASE i > p
        <5>1. t[i] = u[i - 1] /\ i - 1 \in 2..Len(u) /\ i - 1 < j - 1
          BY <1>a, <1>d, <1>4, <2>3, <2>8, <4>4
        <5> QED  BY <2>6, <4>1, <5>1
      <4> QED  BY <1>a, <4>2, <4>3, <4>4
    <3> QED  BY <1>a, <3>1, <3>2, <3>3
  <2>9. OrderedFrom(t, 2)  BY <2>8 DEF OrderedFrom
  <2>10. ASSUME NEW i \in 2..Len(t) PROVE t[i] \in Waiters(r)
    <3>1. t[i] = f \/ \E j \in 2..Len(u) : t[i] = u[j]
      <4>1. CASE i < p
        <5>1. t[i] = u[i] /\ i \in 2..Len(u)  BY <1>a, <1>d, <1>4, <4>1
        <5> QED  BY <5>1
      <4>2. CASE i = p  BY <1>a, <1>4, <4>2
      <4>3. CASE i > p
        <5>1. t[i] = u[i - 1] /\ i - 1 \in 2..Len(u)
          BY <1>a, <1>d, <1>4, <2>3, <4>3
        <5> QED  BY <5>1
      <4> QED  BY <1>a, <4>1, <4>2, <4>3
    <3>2. \A j \in 2..Len(u) : u[j] \in Waiters(r)
      BY <1>1, <1>6 DEF ListInv
    <3> QED  BY <1>3, <3>1, <3>2
  <2> QED  BY <1>5, <2>5, <2>9, <2>10 DEF ListInv
<1>7. ASSUME Disciplined(r), Head(s) = f PROVE ListInv(r, t, o)
  <2>1. WaitList(r, Tail(s)) /\ Tail(s) \in Seq(S \ {f})
    BY <1>7, TailIsWaitList
  <2>2. u = Tail(s)
    <3>1. Distinct(s)  BY DEF ListInv
    <3>2. /\ Head(s) = s[1] /\ Len(s) \in Nat \ {0}
          /\ Len(Tail(s)) = Len(s) - 1
          /\ \A i \in 1..Len(Tail(s)) : Tail(s)[i] = s[i + 1]
      BY HeadTailProperties, EmptySeq
    <3>3. u # s
      <4>1. s[1] \notin S \ {f}  BY <1>7, <3>2
      <4>2. u = s => s[1] \in S \ {f}  BY <1>1, <3>2, ElementOfSeq
      <4> QED  BY <4>1, <4>2
    <3>4. PICK k \in 1..Len(s) : s[k] = f /\ GapClosed(u, s, k)
      BY <3>1, <3>3, RemoveFacts DEF u
    <3>5. k = 1  BY <1>7, <3>1, <3>2, <3>4 DEF Distinct
    <3>6. /\ Len(u) = Len(s) - 1
          /\ \A i \in 1..(Len(s) - 1) : u[i] = s[i + 1]
      BY <3>2, <3>4, <3>5 DEF GapClosed
    <3>7. Len(u) = Len(Tail(s)) /\ \A i \in 1..Len(u) : u[i] = Tail(s)[i]
      BY <3>2, <3>6
    <3> QED  BY <1>1, <2>1, <3>7, SeqEqual
  <2>3. WaitList(r, t)
    BY <2>1, <2>2, <1>3, WaitListInsert DEF t
  <2>4. o \subseteq {f}  BY <1>7 DEF ListInv, OnTop
  <2>5. t # <<>> /\ Head(t) = f
    <3>1. ASSUME Len(u) >= 1 PROVE Type[f] <= Type[u[1]]
      <4>1. u[1] \in Waiters(r)  BY <1>7, <2>1, <2>2, <3>1, <1>d DEF WaitList
      <4> QED  BY <4>1, <1>2, <1>7 DEF Disciplined
    <3>2. p = 1
      <4>1. CASE Len(u) = 0  BY <1>a, <4>1
      <4>2. CASE Len(u) >= 1
        <5>1. ~(1 < p)  BY <1>c, <1>d, <3>1, <4>2
        <5> QED  BY <1>a, <5>1
      <4> QED  BY <1>d, <4>1, <4>2
    <3>3. t[1] = f /\ Len(t) >= 1  BY <1>a, <1>d, <1>4, <3>2
    <3> QED  BY <1>a, <3>3
  <2> QED  BY <1>a, <2>3, <2>4, <2>5, WaitListIsList
<1>8. ASSUME ~Disciplined(r) PROVE ListInv(r, t, o)
  BY <1>5, <1>8 DEF ListInv
<1> QED  BY <1>a, <1>6, <1>7, <1>8 DEF t, u

----------------------------------------------------------------------------
(***************************************************************************)
(* The specification.                                                      *)
(***************************************************************************)

\* IndInv, one resource at a time.
LEMMA IndInvByResource ==
    IndInv <=> TypeOK /\ \A r \in Resource : ListInv(r, stack[r], focused[r])
BY DEF IndInv, NoDuplicates, ExclusiveOwner, ReservedByPriority, WaitersBehind,
       ListInv

\* The same of the next state.
LEMMA IndInvByResourcePrimed ==
    IndInv' <=> TypeOK' /\ \A r \in Resource : ListInv(r, stack'[r], focused'[r])
BY DEF IndInv, NoDuplicates, ExclusiveOwner, ReservedByPriority, WaitersBehind,
       ListInv

\* At first the lists are empty.
LEMMA InitIndInv == Init => IndInv
<1> SUFFICES ASSUME Init PROVE IndInv  OBVIOUS
<1>1. TypeOK  BY EmptySeq DEF Init, TypeOK
<1>2. ASSUME NEW r \in Resource PROVE ListInv(r, stack[r], focused[r])
  <2>1. stack[r] = <<>> /\ focused[r] = {} /\ Len(stack[r]) = 0
    BY EmptySeq DEF Init
  <2> QED  BY <2>1 DEF ListInv, Distinct, OnTop, OrderedFrom
<1> QED  BY <1>1, <1>2, IndInvByResource

\* What unfocus_cb of the top f leaves: a list of waiting items, in which f
\* stands again only if it paused.
LEMMA UnfocusedIsWaitList ==
    ASSUME NEW r, NEW S, S \subseteq Focus, NEW s \in Seq(S), NEW o,
           ListInv(r, s, o), s # <<>>, NEW a \in UnfocusAnswers(Head(s))
    PROVE  /\ WaitList(r, Unfocused(Tail(s), Head(s), a))
           /\ Unfocused(Tail(s), Head(s), a) \in Seq(S)
<1>1. /\ WaitList(r, Tail(s)) /\ Head(s) \in S
      /\ Tail(s) \in Seq(S \ {Head(s)})
  BY TailIsWaitList
<1>2. CASE a = "PAUSE"
  <2>1. Head(s) \in Waiters(r)
    BY <1>1, <1>2 DEF UnfocusAnswers, Waiters
  <2> QED  BY <1>1, <1>2, <2>1, WaitListInsert DEF Unfocused
<1>3. CASE a # "PAUSE"
  BY <1>1, <1>3, SeqMonotonic DEF Unfocused
<1> QED  BY <1>2, <1>3

\* A step on one resource r that keeps live: enough to look at r.
LEMMA OneResource ==
    ASSUME IndInv, UNCHANGED live, NEW r \in Resource, NEW s, NEW o,
           stack' = [stack EXCEPT ![r] = s],
           focused' = [focused EXCEPT ![r] = o],
           s \in Seq(live), o \subseteq live, ListInv(r, s, o)
    PROVE  IndInv'
<1>1. TypeOK /\ \A q \in Resource : ListInv(q, stack[q], focused[q])
  BY IndInvByResource
<1>2. stack' \in [Resource -> Seq(live)] /\ focused' \in [Resource -> SUBSET live]
  BY <1>1 DEF TypeOK
<1>3. TypeOK'  BY <1>1, <1>2 DEF TypeOK
<1>4. ASSUME NEW q \in Resource PROVE ListInv(q, stack'[q], focused'[q])
  <2>1. CASE q = r
    <3>1. stack'[q] = s /\ focused'[q] = o  BY <1>1, <2>1 DEF TypeOK
    <3> QED  BY <2>1, <3>1
  <2>2. CASE q # r
    <3>1. stack'[q] = stack[q] /\ focused'[q] = focused[q]
      BY <1>1, <2>2 DEF TypeOK
    <3> QED  BY <1>1, <3>1
  <2> QED  BY <2>1, <2>2
<1> QED  BY <1>3, <1>4, IndInvByResourcePrimed

\* Every operation of the focus manager preserves IndInv.
LEMMA NextIndInv == IndInv /\ [Next]_vars => IndInv'
<1> SUFFICES ASSUME IndInv, [Next]_vars PROVE IndInv'  OBVIOUS
<1>0. /\ TypeOK
      /\ \A r \in Resource : ListInv(r, stack[r], focused[r])
      /\ \A r \in Resource : stack[r] \in Seq(live) /\ focused[r] \subseteq live
      /\ live \subseteq Focus
  BY IndInvByResource DEF TypeOK
<1>1. ASSUME NEW f \in Focus, New(f) PROVE IndInv'
  <2>1. \A r \in Resource : stack[r] \in Seq(live')
    BY <1>0, <1>1, SeqMonotonic DEF New
  <2>2. TypeOK'  BY <1>0, <1>1, <2>1 DEF New, TypeOK
  <2>3. \A r \in Resource : ListInv(r, stack'[r], focused'[r])
    BY <1>0, <1>1 DEF New
  <2> QED  BY <2>2, <2>3, IndInvByResourcePrimed
<1>2. ASSUME NEW f \in Focus, Free(f) PROVE IndInv'
  <2>1. ASSUME NEW r \in Resource
        PROVE  /\ stack'[r] \in Seq(live') /\ focused'[r] \subseteq live'
               /\ ListInv(r, stack'[r], focused'[r])
    <3>1. /\ stack'[r] = RemoveItems(stack[r], f)
          /\ focused'[r] = focused[r] \ {f}
          /\ live' = live \ {f}
      BY <1>2 DEF Free
    <3>2. /\ RemoveItems(stack[r], f) \in Seq(live \ {f})
          /\ ListInv(r, RemoveItems(stack[r], f), focused[r] \ {f})
      BY <1>0, ListRemove
    <3>3. focused[r] \ {f} \subseteq live \ {f}  BY <1>0
    <3> QED  BY <3>1, <3>2, <3>3
  <2>2. TypeOK'
    <3>1. live' \subseteq Focus  BY <1>0, <1>2 DEF Free
    <3>2. stack' \in [Resource -> Seq(live')]  BY <1>2, <2>1 DEF Free
    <3>3. focused' \in [Resource -> SUBSET live']  BY <1>2, <2>1 DEF Free
    <3> QED  BY <3>1, <3>2, <3>3 DEF TypeOK
  <2> QED  BY <2>1, <2>2, IndInvByResourcePrimed
<1>3. ASSUME NEW f \in Focus, NEW r \in Resource, RequestEmpty(f, r)
      PROVE  IndInv'
  <2>1. PICK answer \in FocusAnswers(f) :
          /\ stack' = [stack EXCEPT ![r] = IF answer = "OK" THEN <<f>> ELSE <<>>]
          /\ focused' = [focused EXCEPT ![r] =
                            IF answer = "OK" THEN @ \cup {f} ELSE @]
    BY <1>3 DEF RequestEmpty
  <2>2. f \in live /\ stack[r] = <<>> /\ live' = live
    BY <1>3 DEF RequestEmpty
  <2>3. CASE answer # "OK"
    <3>1. stack' = stack /\ focused' = focused
      BY <1>0, <2>1, <2>2, <2>3 DEF TypeOK
    <3>2. TypeOK'  BY <1>0, <2>2, <3>1 DEF TypeOK
    <3> QED  BY <1>0, <3>1, <3>2, IndInvByResourcePrimed
  <2>4. CASE answer = "OK"
    <3>1. /\ stack' = [stack EXCEPT ![r] = <<f>>]
          /\ focused' = [focused EXCEPT ![r] = focused[r] \cup {f}]
      BY <1>0, <2>1, <2>4 DEF TypeOK
    <3>2. /\ <<f>> \in Seq(live) /\ Len(<<f>>) = 1 /\ <<f>> # <<>>
          /\ Head(<<f>>) = f
      BY <2>2
    <3>3. ListInv(r, <<f>>, focused[r] \cup {f})
      <4>1. Disciplined(r) => focused[r] = {}
        BY <1>0, <2>2 DEF ListInv, OnTop
      <4>2. Distinct(<<f>>)  BY <3>2 DEF Distinct
      <4>3. OrderedFrom(<<f>>, 2) /\ 2..Len(<<f>>) = {}
        BY <3>2 DEF OrderedFrom
      <4>4. Disciplined(r) => OnTop(<<f>>, focused[r] \cup {f})
        BY <3>2, <4>1 DEF OnTop
      <4> QED  BY <4>2, <4>3, <4>4 DEF ListInv
    <3>4. focused[r] \cup {f} \subseteq live  BY <1>0, <2>2
    <3> QED  BY <2>2, <3>1, <3>2, <3>3, <3>4, OneResource
  <2> QED  BY <2>3, <2>4
<1>4. ASSUME NEW f \in Focus, NEW r \in Resource, RequestSteal(f, r)
      PROVE  IndInv'
  <2> DEFINE top == Head(stack[r])
             rest(a) == RemoveItems(Unfocused(Tail(stack[r]), top, a), f)
  <2>1. PICK pause \in UnfocusAnswers(top), answer \in FocusAnswers(f) :
          /\ stack' = [stack EXCEPT ![r] = IF answer = "OK"
                                           THEN Prepend(rest(pause), f)
                                           ELSE rest(pause)]
          /\ focused' = [focused EXCEPT ![r] =
                            IF answer = "OK" THEN (@ \ {top}) \cup {f}
                                             ELSE @ \ {top}]
    BY <1>4 DEF RequestSteal
  <2>2. f \in live /\ stack[r] # <<>> /\ live' = live
    BY <1>4 DEF RequestSteal
  <2>3. WaitList(r, rest(pause)) /\ rest(pause) \in Seq(live \ {f})
    <3>1. /\ WaitList(r, Unfocused(Tail(stack[r]), top, pause))
          /\ Unfocused(Tail(stack[r]), top, pause) \in Seq(live)
      BY <1>0, <2>2, UnfocusedIsWaitList
    <3> QED  BY <3>1, WaitListRemove
  <2>4. Disciplined(r) => focused[r] \ {top} = {}
    BY <1>0 DEF ListInv, OnTop
  <2> HIDE DEF rest
  <2>5. CASE answer = "OK"
    <3> DEFINE s == Prepend(rest(pause), f)
               o == (focused[r] \ {top}) \cup {f}
    <3>1. /\ stack' = [stack EXCEPT ![r] = s]
          /\ focused' = [focused EXCEPT ![r] = o]
      BY <1>0, <2>1, <2>5 DEF TypeOK
    <3>2. s \in Seq(live) /\ o \subseteq live
      BY <1>0, <2>2, <2>3, WaitListPrepend
    <3>3. ListInv(r, s, {f})  BY <2>2, <2>3, WaitListPrepend
    <3>4. Disciplined(r) => o = {f}  BY <2>4
    <3> HIDE DEF s, o
    <3>5. ListInv(r, s, o)  BY <3>3, <3>4 DEF ListInv
    <3> QED  BY <2>2, <3>1, <3>2, <3>5, OneResource
  <2>6. CASE answer # "OK"
    <3> DEFINE s == rest(pause)
               o == focused[r] \ {top}
    <3>1. /\ stack' = [stack EXCEPT ![r] = s]
          /\ focused' = [focused EXCEPT ![r] = o]
      BY <1>0, <2>1, <2>6 DEF TypeOK
    <3>2. s \in Seq(live) /\ o \subseteq live
      BY <1>0, <2>3, SeqMonotonic
    <3>3. ListInv(r, s, {})  BY <2>3, WaitListIsList
    <3>4. Disciplined(r) => o = {}  BY <2>4
    <3> HIDE DEF s, o
    <3>5. ListInv(r, s, o)  BY <3>3, <3>4 DEF ListInv
    <3> QED  BY <2>2, <3>1, <3>2, <3>5, OneResource
  <2> QED  BY <2>5, <2>6
<1>5. ASSUME NEW f \in Focus, NEW r \in Resource, RequestReserve(f, r)
      PROVE  IndInv'
  <2> DEFINE s == InsertByPriority(RemoveItems(stack[r], f), f)
  <2>1. /\ f \in live /\ stack[r] # <<>> /\ live' = live
        /\ <<Head(stack[r]), r, f>> \in Rejects
        /\ stack' = [stack EXCEPT ![r] = s]
        /\ focused' = [focused EXCEPT ![r] = focused[r]]
    BY <1>0, <1>5 DEF RequestReserve, TypeOK
  <2>2. s \in Seq(live) /\ ListInv(r, s, focused[r])
    BY <1>0, <2>1, ListReserve
  <2> HIDE DEF s
  <2> QED  BY <1>0, <2>1, <2>2, OneResource
<1>6. ASSUME NEW f \in Focus, NEW r \in Resource, ReleaseReserved(f, r)
      PROVE  IndInv'
  <2> DEFINE s == RemoveItems(stack[r], f)
  <2>1. /\ stack[r] # <<>> /\ live' = live /\ Head(stack[r]) # f
        /\ stack' = [stack EXCEPT ![r] = s]
        /\ focused' = [focused EXCEPT ![r] = focused[r]]
    BY <1>0, <1>6 DEF ReleaseReserved, TypeOK
  <2>2. s \in Seq(live \ {f}) /\ ListInv(r, s, focused[r])
    BY <1>0, <2>1, ListRemove
  <2>3. s \in Seq(live)  BY <2>2, SeqMonotonic
  <2> HIDE DEF s
  <2> QED  BY <1>0, <2>1, <2>2, <2>3, OneResource
<1>7. ASSUME NEW f \in Focus, NEW r \in Resource, ReleaseTop(f, r)
      PROVE  IndInv'
  <2>0. f \in live /\ stack[r] # <<>> /\ Head(stack[r]) = f /\ live' = live
    BY <1>7 DEF ReleaseTop
  <2>1. PICK pause \in UnfocusAnswers(f) :
          LET rest == Unfocused(Tail(stack[r]), f, pause)
          IN  /\ stack' = [stack EXCEPT ![r] = rest]
              /\ IF rest # <<>> /\ Head(rest) # f
                 THEN \E answer \in FocusAnswers(Head(rest)) :
                         focused' = [focused EXCEPT ![r] =
                                        IF answer = "OK"
                                        THEN (@ \ {f}) \cup {Head(rest)}
                                        ELSE @ \ {f}]
                 ELSE focused' = [focused EXCEPT ![r] = @ \ {f}]
    BY <1>7 DEF ReleaseTop
  <2> DEFINE rest == Unfocused(Tail(stack[r]), f, pause)
  <2>2. WaitList(r, rest) /\ rest \in Seq(live)
    BY <1>0, <2>0, UnfocusedIsWaitList
  <2>3. Disciplined(r) => focused[r] \ {f} = {}
    BY <1>0, <2>0 DEF ListInv, OnTop
  <2>4. \E o : /\ focused' = [focused EXCEPT ![r] = o]
              /\ \/ o = focused[r] \ {f}
                 \/ rest # <<>> /\ o = (focused[r] \ {f}) \cup {Head(rest)}
    BY <1>0, <2>1 DEF TypeOK
  <2>5. stack' = [stack EXCEPT ![r] = rest]  BY <2>1
  <2> HIDE DEF rest
  <2>6. PICK o : /\ focused' = [focused EXCEPT ![r] = o]
                 /\ \/ o = focused[r] \ {f}
                    \/ rest # <<>> /\ o = (focused[r] \ {f}) \cup {Head(rest)}
    BY <2>4
  <2>7. o \subseteq live
    <3>1. rest # <<>> => Head(rest) \in live  BY <2>2, HeadTailProperties
    <3> QED  BY <1>0, <2>6, <3>1
  <2>8. ListInv(r, rest, o)
    <3>1. ASSUME Disciplined(r) PROVE ListInv(r, rest, o)
      <4>1. o = {} \/ (rest # <<>> /\ o \subseteq {Head(rest)})
        BY <2>3, <2>6, <3>1
      <4> QED  BY <2>2, <4>1, WaitListIsList
    <3>2. ASSUME ~Disciplined(r) PROVE ListInv(r, rest, o)
      BY <2>2, <3>2 DEF ListInv, WaitList
    <3> QED  BY <3>1, <3>2
  <2> QED  BY <2>0, <2>2, <2>5, <2>6, <2>7, <2>8, OneResource
<1>8. CASE UNCHANGED vars
  <2>1. TypeOK'  BY <1>0, <1>8 DEF vars, TypeOK
  <2>2. \A r \in Resource : ListInv(r, stack'[r], focused'[r])
    BY <1>0, <1>8 DEF vars
  <2> QED  BY <2>1, <2>2, IndInvByResourcePrimed
<1> QED
  BY <1>1, <1>2, <1>3, <1>4, <1>5, <1>6, <1>7, <1>8 DEF Next

\* The inductive invariant holds in every reachable state.
THEOREM SpecIndInv == Spec => []IndInv
BY InitIndInv, NextIndInv, PTL DEF Spec

\* nugu_focus_free() and the callbacks never leave a freed focus on a list.
THEOREM SpecTypeOK == Spec => []TypeOK
<1>1. IndInv => TypeOK  BY DEF IndInv
<1> QED  BY <1>1, SpecIndInv, PTL

\* No focus has two items on a list: the one round of RemoveItems is the
\* whole loop of _remove_items_by_focus().
THEOREM SpecNoDuplicates == Spec => []NoDuplicates
<1>1. IndInv => NoDuplicates  BY DEF IndInv
<1> QED  BY <1>1, SpecIndInv, PTL

\* Where the listeners respect the priorities, a resource never has two
\* owners and its owner is what nugu_focus_peek_top() reports.
THEOREM SpecExclusiveOwner == Spec => []ExclusiveOwner
<1>1. IndInv => ExclusiveOwner  BY DEF IndInv
<1> QED  BY <1>1, SpecIndInv, PTL

\* Where the listeners respect the priorities, the reserved requests are
\* served in priority order.
THEOREM SpecReservedByPriority == Spec => []ReservedByPriority
<1>1. IndInv => ReservedByPriority  BY DEF IndInv
<1> QED  BY <1>1, SpecIndInv, PTL

============================================================================
