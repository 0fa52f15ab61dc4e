--------------------------- MODULE CallbackProofs ---------------------------
(***************************************************************************)
(* Theorems about the two parts that call what was registered with them.   *)
(*                                                                         *)
(* Subject<T>::next() skips nobody who stays subscribed, and the subject   *)
(* keeps one entry for each subscription that was not ended, for every set *)
(* of threads and observers and whatever they do during next().            *)
(*                                                                         *)
(* An HTTP connection gives a request once and whole to every callback     *)
(* registered for it, and the peer reads one whole answer, for any number  *)
(* of handlers, answers, packets and fragments.                            *)
(***************************************************************************)
EXTENDS Subject, HttpConnection, FiniteSetTheorems, SequenceTheorems,
        WellFoundedInduction, TLAPS

-----------------------------------------------------------------------------
(* Subject *)

(* What a call of next() still owes is in the part of its copy that it has *)
(* not reached.                                                            *)
OwedAhead(frame) ==
    \A o \in frame.owed : \E k \in frame.done + 1 .. Len(frame.observers) : frame.observers[k] = o

FrameOK(frame) == frame.done <= Len(frame.observers) /\ OwedAhead(frame)

(* The calls of next() in progress. *)
CallsInv ==
    /\ calls \in [Users -> Seq(Frame)]
    /\ \A u \in Users : Len(calls[u]) <= MaxDepth
    /\ \A u \in Users : \A i \in 1 .. Len(calls[u]) : FrameOK(calls[u][i])

(* The subscriptions. *)
SubscriptionsInv ==
    /\ m_observers \in Seq(Observers)
    /\ subscriptions \in Seq(Observers)
    /\ active \subseteq 1 .. Len(subscriptions)
    /\ again \subseteq Observers
    /\ SubscriptionsExact

SubjectInv == CallsInv /\ SubscriptionsInv

-----------------------------------------------------------------------------
(* How often an observer occurs in a sequence of observers. *)
Positions(q, o) == {i \in 1 .. Len(q) : q[i] = o}
Count(q, o) == Cardinality(Positions(q, o))

(* The positions are finitely many. *)
LEMMA CountNat ==
    ASSUME NEW S, NEW q \in Seq(S), NEW o
    PROVE  IsFiniteSet(Positions(q, o)) /\ Count(q, o) \in Nat
<1>1. Len(q) \in Nat /\ IsFiniteSet(1 .. Len(q))
  BY FS_Interval
<1>2. Positions(q, o) \subseteq 1 .. Len(q)
  BY DEF Positions
<1> QED BY <1>1, <1>2, FS_Subset, FS_CardinalityType DEF Count

(* Nothing occurs in the empty sequence. *)
LEMMA CountEmpty == ASSUME NEW o PROVE Count(<<>>, o) = 0
<1>1. Positions(<<>>, o) = {}
  BY DEF Positions
<1> QED BY <1>1, FS_EmptySet DEF Count

(* The occurrences in two sequences add up. *)
LEMMA CountConcat ==
    ASSUME NEW S, NEW q \in Seq(S), NEW r \in Seq(S), NEW o
    PROVE  Count(q \o r, o) = Count(q, o) + Count(r, o)
<1> DEFINE A == Positions(q, o)
           B == Positions(r, o)
           n == Len(q)
           C == {n + i : i \in B}
           f == [i \in B |-> n + i]
<1>1. n \in Nat /\ Len(r) \in Nat
  OBVIOUS
<1>2. Positions(q \o r, o) = A \cup C
  <2>1. Len(q \o r) = n + Len(r)
    OBVIOUS
  <2>2. \A i \in 1 .. n + Len(r) : (q \o r)[i] = IF i <= n THEN q[i] ELSE r[i - n]
    OBVIOUS
  <2>3. ASSUME NEW i \in Positions(q \o r, o) PROVE i \in A \cup C
    <3>1. i \in 1 .. n + Len(r) /\ (q \o r)[i] = o
      BY <2>1 DEF Positions
    <3>2. CASE i <= n
      BY <1>1, <2>2, <3>1, <3>2 DEF Positions
    <3>3. CASE ~(i <= n)
      <4>1. i - n \in 1 .. Len(r) /\ r[i - n] = o /\ i = n + (i - n)
        BY <1>1, <2>2, <3>1, <3>3
      <4>2. i - n \in B
        BY <4>1 DEF Positions
      <4> QED BY <4>1, <4>2
    <3> QED BY <3>2, <3>3
  <2>4. ASSUME NEW i \in A PROVE i \in Positions(q \o r, o)
    BY <1>1, <2>1, <2>2 DEF Positions
  <2>5. ASSUME NEW i \in B PROVE n + i \in Positions(q \o r, o)
    <3>1. i \in 1 .. Len(r) /\ r[i] = o
      BY DEF Positions
    <3>2. n + i \in 1 .. n + Len(r) /\ (q \o r)[n + i] = r[i]
      BY <1>1, <2>2, <3>1
    <3> QED BY <2>1, <3>1, <3>2 DEF Positions
  <2> QED BY <2>3, <2>4, <2>5
<1>3. A \cap C = {}
  BY <1>1 DEF Positions
<1>4. f \in Bijection(B, C)
  <2>1. B \subseteq Nat
    BY <1>1 DEF Positions
  <2> HIDE DEF B
  <2>2. f \in Injection(B, C)
    BY <1>1, <2>1 DEF Injection, IsInjective
  <2>3. f \in Surjection(B, C)
    BY <1>1, <2>1 DEF Surjection
  <2> QED BY <2>2, <2>3 DEF Bijection
<1>5. IsFiniteSet(A) /\ IsFiniteSet(B) /\ Cardinality(A) \in Nat /\ Cardinality(B) \in Nat
  BY CountNat DEF Count
<1> HIDE DEF A, B, C, f
<1>6. IsFiniteSet(C) /\ Cardinality(C) = Cardinality(B)
  BY <1>4, <1>5, FS_Bijection DEF ExistsBijection
<1>7. Cardinality(A \cup C) = Cardinality(A) + Cardinality(C)
  <2>1. Cardinality(A \cap C) = 0
    BY <1>3, FS_EmptySet
  <2>2. Cardinality(A \cup C) = Cardinality(A) + Cardinality(C) - Cardinality(A \cap C)
    BY <1>5, <1>6, FS_Union
  <2> QED BY <1>5, <1>6, <2>1, <2>2
<1> QED BY <1>2, <1>6, <1>7 DEF Count, A, B

(* Appending an observer adds an occurrence of it and of no other one. *)
LEMMA CountOne ==
    ASSUME NEW S, NEW e \in S, NEW o
    PROVE  Count(<<e>>, o) = IF e = o THEN 1 ELSE 0
<1>1. Positions(<<e>>, o) = IF e = o THEN {1} ELSE {}
  BY DEF Positions
<1> QED BY <1>1, FS_EmptySet, FS_Singleton DEF Count

(* A set of natural numbers that is not empty has a first one. *)
LEMMA MinFirst ==
    ASSUME NEW S, S \subseteq Nat, S # {}
    PROVE  Min(S) \in S /\ \A y \in S : Min(S) <= y
<1> DEFINE R == OpToRel(<, Nat)
<1>1. PICK x \in S : \A y \in S : <<y, x>> \notin R
  <2> HIDE DEF R
  <2>1. IsWellFoundedOn(R, Nat)
    BY NatLessThanWellFounded DEF R
  <2> QED BY <2>1, WFMin
<1>2. \A y \in S : ~(y < x)
  BY <1>1 DEF OpToRel
<1>3. \A y \in S : x <= y
  BY <1>2
<1> QED BY <1>3 DEF Min

(* A sequence is what is before an element, the element and what is after  *)
(* it.                                                                     *)
LEMMA Reassembled ==
    ASSUME NEW S, NEW q \in Seq(S), NEW m \in 1 .. Len(q),
           NEW f \in Seq(S), NEW b \in Seq(S),
           Len(f) = m - 1, Len(b) = Len(q) - m,
           \A i \in 1 .. m - 1 : f[i] = q[i],
           \A i \in 1 .. Len(q) - m : b[i] = q[m + i]
    PROVE  q = (f \o <<q[m]>>) \o b
<1> DEFINE r == f \o <<q[m]>>
<1>1. q[m] \in S /\ <<q[m]>> \in Seq(S) /\ Len(q) \in Nat /\ m \in Nat
  OBVIOUS
<1>2. r \in Seq(S) /\ Len(r) = m /\ \A i \in 1 .. m : r[i] = q[i]
  <2>1. r = Append(f, q[m])
    BY <1>1
  <2> QED BY <1>1, <2>1
<1> HIDE DEF r
<1>3. /\ r \o b \in Seq(S) /\ Len(r \o b) = Len(q)
      /\ \A i \in 1 .. Len(q) : (r \o b)[i] = IF i <= m THEN r[i] ELSE b[i - m]
  <2>1. Len(r) = m /\ Len(r) + Len(b) = Len(q)
    BY <1>1, <1>2
  <2>2. /\ r \o b \in Seq(S) /\ Len(r \o b) = Len(r) + Len(b)
        /\ \A i \in 1 .. Len(r) + Len(b) : (r \o b)[i] = IF i <= Len(r) THEN r[i] ELSE b[i - Len(r)]
    BY <1>2, ConcatProperties, ZenonT(30)
  <2> QED BY ONLY <2>1, <2>2, Zenon
<1>4. \A i \in 1 .. Len(q) : (r \o b)[i] = q[i]
  <2> SUFFICES ASSUME NEW i \in 1 .. Len(q) PROVE (r \o b)[i] = q[i]
    OBVIOUS
  <2>1. CASE i <= m
    BY <1>1, <1>2, <1>3, <2>1
  <2>2. CASE i > m
    <3>1. i - m \in 1 .. Len(q) - m /\ m + (i - m) = i
      BY <1>1, <2>2
    <3>2. b[i - m] = q[m + (i - m)]
      BY <3>1
    <3> QED BY <1>1, <1>3, <2>2, <3>1, <3>2
  <2>3. i <= m \/ i > m
    BY <1>1
  <2> QED BY <2>1, <2>2, <2>3
<1> QED BY <1>3, <1>4, SeqEqual DEF r

(* erase of the first occurrence takes one occurrence of the observer, if  *)
(* it has one, and none of another one.                                    *)
LEMMA CountErased ==
    ASSUME NEW S, NEW q \in Seq(S), NEW e
    PROVE  /\ Erased(q, e) \in Seq(S)
           /\ \A o : o # e => Count(Erased(q, e), o) = Count(q, o)
           /\ Count(q, e) = 0 => Count(Erased(q, e), e) = 0
           /\ Count(q, e) > 0 => Count(Erased(q, e), e) = Count(q, e) - 1
<1> DEFINE I == Positions(q, e)
<1>1. CASE I # {}
  <2>1. Erased(q, e) = RemoveAt(q, Min(I))
    BY <1>1 DEF Erased, RemoveFirst, SelectInSeq, Positions
  <2>2. I \subseteq 1 .. Len(q) /\ Len(q) \in Nat
    BY DEF Positions
  <2>3. Min(I) \in I
    <3>1. I \subseteq Nat
      BY <2>2
    <3> QED BY <1>1, <3>1, MinFirst
  <2>4. PICK m \in 1 .. Len(q) : q[m] = e /\ Erased(q, e) = RemoveAt(q, m)
    BY <2>1, <2>3 DEF Positions
  <2> DEFINE front == SubSeq(q, 1, m - 1)
             back == SubSeq(q, m + 1, Len(q))
  <2>5. /\ front \in Seq(S) /\ back \in Seq(S) /\ e \in S /\ <<e>> \in Seq(S)
        /\ Len(front) = m - 1 /\ Len(back) = Len(q) - m
        /\ \A i \in 1 .. m - 1 : front[i] = q[i]
        /\ \A i \in 1 .. Len(q) - m : back[i] = q[m + i]
    BY <2>2, <2>4
  <2>6. Erased(q, e) = front \o back
    BY <2>4 DEF RemoveAt
  <2> HIDE DEF front, back
  <2>7. q = (front \o <<e>>) \o back
    BY ONLY q \in Seq(S), <2>4, <2>5, Reassembled, ZenonT(60)
  <2>8. ASSUME NEW o PROVE Count(q, o) = Count(Erased(q, e), o) + IF o = e THEN 1 ELSE 0
    <3>1. Count(q, o) = (Count(front, o) + Count(<<e>>, o)) + Count(back, o)
      <4>1. front \in Seq(S) /\ back \in Seq(S) /\ <<e>> \in Seq(S) /\ front \o <<e>> \in Seq(S)
        BY <2>5, ConcatProperties
      <4>2. Count((front \o <<e>>) \o back, o) = Count(front \o <<e>>, o) + Count(back, o)
        BY ONLY <4>1, CountConcat
      <4>3. Count(front \o <<e>>, o) = Count(front, o) + Count(<<e>>, o)
        BY ONLY <4>1, CountConcat
      <4> QED BY <2>7, <4>2, <4>3
    <3>2. Count(Erased(q, e), o) = Count(front, o) + Count(back, o)
      BY <2>5, <2>6, CountConcat
    <3>3. Count(front, o) \in Nat /\ Count(back, o) \in Nat
      BY <2>5, CountNat
    <3> QED BY <2>5, <3>1, <3>2, <3>3, CountOne
  <2>9. Erased(q, e) \in Seq(S)
    BY <2>5, <2>6
  <2>10. \A o : Count(Erased(q, e), o) \in Nat
    BY <2>9, CountNat
  <2> QED BY <2>8, <2>9, <2>10
<1>2. CASE I = {}
  <2>1. Erased(q, e) = q
    BY <1>2 DEF Erased, RemoveFirst, Positions
  <2>2. Count(q, e) = 0
    BY <1>2, FS_EmptySet DEF Count
  <2> QED BY <2>1, <2>2
<1> QED BY <1>1, <1>2

-----------------------------------------------------------------------------
(* The calls of next() in progress *)

(* One thread's calls change. *)
LEMMA CallsChange ==
    ASSUME CallsInv, NEW u \in Users, NEW new \in Seq(Frame), Len(new) <= MaxDepth,
           \A i \in 1 .. Len(new) : FrameOK(new[i]),
           calls' = [calls EXCEPT ![u] = new]
    PROVE  CallsInv'
<1>1. calls' \in [Users -> Seq(Frame)] /\ \A v \in Users : calls'[v] = IF v = u THEN new ELSE calls[v]
  BY DEF CallsInv
<1>2. ASSUME NEW v \in Users
      PROVE  Len(calls'[v]) <= MaxDepth /\ \A i \in 1 .. Len(calls'[v]) : FrameOK(calls'[v][i])
  <2>1. CASE v = u BY <1>1, <2>1
  <2>2. CASE v # u BY <1>1, <2>2 DEF CallsInv
  <2> QED BY <2>1, <2>2
<1> QED BY <1>1, <1>2 DEF CallsInv, FrameOK, OwedAhead

(* The innermost call of a thread, and the ones around it. *)
LEMMA TopFrame ==
    ASSUME CallsInv, NEW u \in Users, calls[u] # <<>>
    PROVE  /\ Last(calls[u]) \in Frame /\ FrameOK(Last(calls[u]))
           /\ Front(calls[u]) \in Seq(Frame)
           /\ Len(calls[u]) \in Nat /\ Len(Front(calls[u])) = Len(calls[u]) - 1
           /\ \A i \in 1 .. Len(Front(calls[u])) : FrameOK(Front(calls[u])[i])
<1> DEFINE c == calls[u]
<1>1. c \in Seq(Frame) /\ Len(c) \in Nat /\ Len(c) > 0 /\ \A i \in 1 .. Len(c) : FrameOK(c[i])
  BY DEF CallsInv
<1> HIDE DEF c
<1>2. Last(c) \in Frame /\ FrameOK(Last(c))
  BY <1>1 DEF Last
<1>3. /\ Front(c) \in Seq(Frame) /\ Len(Front(c)) = Len(c) - 1
      /\ \A i \in 1 .. Len(c) - 1 : Front(c)[i] = c[i]
  <2>1. \A i \in 1 .. Len(c) - 1 : c[i] \in Frame
    BY <1>1
  <2>2. /\ SubSeq(c, 1, Len(c) - 1) \in Seq(Frame)
        /\ Len(SubSeq(c, 1, Len(c) - 1)) = IF 1 <= Len(c) - 1 THEN (Len(c) - 1) - 1 + 1 ELSE 0
        /\ \A i \in 1 .. (Len(c) - 1) - 1 + 1 : SubSeq(c, 1, Len(c) - 1)[i] = c[1 + i - 1]
    BY <1>1, <2>1, SubSeqProperties
  <2>3. Front(c) = SubSeq(c, 1, Len(c) - 1)
    BY DEF Front
  <2>4. Len(Front(c)) = Len(c) - 1
    <3>1. Len(Front(c)) = IF 1 <= Len(c) - 1 THEN (Len(c) - 1) - 1 + 1 ELSE 0
      BY <2>2, <2>3, Zenon
    <3>2. \A n \in Nat : n > 0 => (IF 1 <= n - 1 THEN (n - 1) - 1 + 1 ELSE 0) = n - 1
      OBVIOUS
    <3> QED BY <1>1, <3>1, <3>2, Zenon
  <2>5. \A i \in 1 .. Len(c) - 1 : i \in 1 .. (Len(c) - 1) - 1 + 1 /\ 1 + i - 1 = i
    BY <1>1
  <2>6. \A i \in 1 .. Len(c) - 1 : Front(c)[i] = c[i]
    BY <2>2, <2>3, <2>5, Zenon
  <2> QED BY <2>2, <2>3, <2>4, <2>6
<1>4. \A i \in 1 .. Len(Front(c)) : FrameOK(Front(c)[i])
  BY <1>1, <1>3
<1> QED BY <1>1, <1>2, <1>3, <1>4 DEF c

(* A call is added on top of others. *)
LEMMA Pushed ==
    ASSUME NEW below \in Seq(Frame), \A i \in 1 .. Len(below) : FrameOK(below[i]),
           NEW frame \in Frame, FrameOK(frame)
    PROVE  /\ Append(below, frame) \in Seq(Frame)
           /\ Len(Append(below, frame)) = Len(below) + 1
           /\ \A i \in 1 .. Len(Append(below, frame)) : FrameOK(Append(below, frame)[i])
<1>1. /\ Append(below, frame) \in Seq(Frame)
      /\ Len(Append(below, frame)) = Len(below) + 1
      /\ \A i \in 1 .. Len(below) : Append(below, frame)[i] = below[i]
      /\ Append(below, frame)[Len(below) + 1] = frame
      /\ Len(below) \in Nat
  BY AppendProperties
<1>2. ASSUME NEW i \in 1 .. Len(below) + 1 PROVE FrameOK(Append(below, frame)[i])
  <2>1. i \in 1 .. Len(below) \/ i = Len(below) + 1
    BY <1>1
  <2> QED BY <1>1, <2>1
<1> QED BY <1>1, <1>2

(* Replacing the innermost call by one that is all right keeps the rest so. *)
LEMMA TopSet ==
    ASSUME CallsInv, NEW u \in Users, calls[u] # <<>>,
           NEW frame \in Frame, FrameOK(frame), SetTop(u, frame)
    PROVE  CallsInv'
<1> DEFINE new == Append(Front(calls[u]), frame)
<1>1. calls' = [calls EXCEPT ![u] = new]
  BY DEF SetTop
<1>2. Len(calls[u]) \in Nat /\ Len(calls[u]) <= MaxDepth
  BY TopFrame DEF CallsInv
<1>3. /\ new \in Seq(Frame) /\ Len(new) = Len(Front(calls[u])) + 1
      /\ \A i \in 1 .. Len(new) : FrameOK(new[i])
  BY TopFrame, Pushed
<1>4. Len(new) <= MaxDepth
  BY <1>2, <1>3, TopFrame, SubjectAssumption
<1> HIDE DEF new
<1> QED BY <1>1, <1>3, <1>4, CallsChange

(* Forgiving what the calls owe to those who left keeps them all right. *)
LEMMA ForgivenOK ==
    ASSUME CallsInv, NEW remaining, calls' = Forgiven(remaining)
    PROVE  CallsInv'
<1>1. ASSUME NEW f \in Frame, FrameOK(f), NEW S
      PROVE  [f EXCEPT !.owed = @ \cap S] \in Frame /\ FrameOK([f EXCEPT !.owed = @ \cap S])
  <2>1. [f EXCEPT !.owed = @ \cap S] \in Frame
    BY DEF Frame
  <2>2. /\ [f EXCEPT !.owed = @ \cap S].done = f.done
        /\ [f EXCEPT !.owed = @ \cap S].observers = f.observers
        /\ [f EXCEPT !.owed = @ \cap S].owed = f.owed \cap S
    BY DEF Frame
  <2> QED BY <1>1, <2>1, <2>2 DEF FrameOK, OwedAhead
<1>2. ASSUME NEW u \in Users
      PROVE  /\ calls'[u] \in Seq(Frame) /\ Len(calls'[u]) <= MaxDepth
             /\ \A i \in 1 .. Len(calls'[u]) : FrameOK(calls'[u][i])
  <2> DEFINE c == calls[u]
             new == [i \in 1 .. Len(c) |-> [c[i] EXCEPT !.owed = @ \cap ToSet(remaining)]]
  <2>1. c \in Seq(Frame) /\ Len(c) \in Nat /\ Len(c) <= MaxDepth /\ \A i \in 1 .. Len(c) : FrameOK(c[i])
    BY DEF CallsInv
  <2>2. \A i \in 1 .. Len(c) : c[i] \in Frame
    BY <2>1
  <2>3. calls'[u] = new
    BY DEF Forgiven
  <2>4. \A i \in 1 .. Len(c) : new[i] \in Frame /\ FrameOK(new[i])
    BY <1>1, <2>1, <2>2
  <2>5. new \in Seq(Frame) /\ Len(new) = Len(c)
    <3>1. new = [i \in 1 .. Len(c) |-> new[i]]
      OBVIOUS
    <3> HIDE DEF new
    <3>2. new \in [1 .. Len(c) -> Frame]
      BY <2>4, <3>1
    <3> QED BY <2>1, <3>2, IsASeq
  <2> HIDE DEF new, c
  <2> QED BY <2>1, <2>3, <2>4, <2>5
<1>3. calls' = [u \in Users |-> calls'[u]]
  BY DEF Forgiven
<1>4. calls' \in [Users -> Seq(Frame)]
  BY <1>2, <1>3
<1> QED BY <1>2, <1>4 DEF CallsInv, FrameOK, OwedAhead

-----------------------------------------------------------------------------
(* The subscriptions *)

(* How many subscriptions an observer has left. *)
Left(o) == Cardinality({s \in active : subscriptions[s] = o})

(* There are finitely many. *)
LEMMA LeftNat ==
    ASSUME SubscriptionsInv, NEW o
    PROVE  IsFiniteSet({s \in active : subscriptions[s] = o}) /\ Left(o) \in Nat
<1>1. Len(subscriptions) \in Nat /\ IsFiniteSet(1 .. Len(subscriptions))
  BY FS_Interval DEF SubscriptionsInv
<1>2. {s \in active : subscriptions[s] = o} \subseteq 1 .. Len(subscriptions)
  BY DEF SubscriptionsInv
<1> QED BY <1>1, <1>2, FS_Subset, FS_CardinalityType DEF Left

(* The property in these terms. *)
LEMMA ExactCounts ==
    SubscriptionsExact <=>
        \A o \in Observers : IF o \in again THEN Count(m_observers, o) <= Left(o)
                             ELSE Count(m_observers, o) = Left(o)
  BY DEF SubscriptionsExact, Count, Positions, Left

(* subscribe() adds one entry and one subscription of the observer. *)
LEMMA SubscribeOK ==
    ASSUME SubscriptionsInv, NEW u \in Users, NEW e \in Observers, Subscribe(u, e)
    PROVE  SubscriptionsInv'
<1> DEFINE n == Len(subscriptions) + 1
<1>1. /\ m_observers' = Append(m_observers, e)
      /\ subscriptions' = Append(subscriptions, e)
      /\ active' = active \cup {Len(subscriptions')}
      /\ again' = again
      /\ m_observers \in Seq(Observers) /\ subscriptions \in Seq(Observers)
      /\ active \subseteq 1 .. Len(subscriptions)
      /\ again \subseteq Observers
  BY DEF Subscribe, SubscriptionsInv
<1>2. /\ subscriptions' \in Seq(Observers) /\ Len(subscriptions') = n /\ n \in Nat
      /\ \A s \in 1 .. Len(subscriptions) : subscriptions'[s] = subscriptions[s]
      /\ subscriptions'[n] = e
  BY <1>1, AppendProperties
<1>3. active' = active \cup {n} /\ active' \subseteq 1 .. Len(subscriptions') /\ n \notin active
  <2>1. active' = active \cup {n} /\ Len(subscriptions') = n
    BY <1>1, <1>2
  <2>2. Len(subscriptions) \in Nat /\ n = Len(subscriptions) + 1 /\ active \subseteq 1 .. Len(subscriptions)
    BY <1>1
  <2>3. \A m \in Nat : 1 .. m \subseteq 1 .. m + 1 /\ m + 1 \in 1 .. m + 1 /\ m + 1 \notin 1 .. m
    OBVIOUS
  <2>4. active \subseteq 1 .. n /\ n \in 1 .. n /\ n \notin active
    BY <2>2, <2>3, Zenon
  <2> HIDE DEF n
  <2> QED BY ONLY <2>1, <2>4, Zenon
<1>4. m_observers' \in Seq(Observers)
  BY <1>1, AppendProperties
<1>5. ASSUME NEW o PROVE Count(m_observers', o) = Count(m_observers, o) + IF o = e THEN 1 ELSE 0
  <2>1. m_observers' = m_observers \o <<e>> /\ <<e>> \in Seq(Observers)
    BY <1>1, AppendIsConcat
  <2>2. Count(m_observers', o) = Count(m_observers, o) + Count(<<e>>, o)
    <3>1. m_observers \in Seq(Observers)
      BY <1>1
    <3> QED BY ONLY <2>1, <3>1, CountConcat, ZenonT(60)
  <2> QED BY <2>2, CountOne
<1>6. ASSUME NEW o PROVE Left(o)' = Left(o) + IF o = e THEN 1 ELSE 0
  <2> DEFINE A == {s \in active : subscriptions[s] = o}
             B == {s \in active' : subscriptions'[s] = o}
  <2>1. B = IF o = e THEN A \cup {n} ELSE A
    BY <1>1, <1>2, <1>3
  <2>2. n \notin A /\ IsFiniteSet(A) /\ Cardinality(A) \in Nat
    BY <1>3, LeftNat DEF Left
  <2>3. Cardinality(B) = Cardinality(A) + IF o = e THEN 1 ELSE 0
    <3> HIDE DEF A, B, n
    <3>1. CASE o = e
      BY <2>1, <2>2, <3>1, FS_AddElement
    <3>2. CASE o # e
      BY <2>1, <2>2, <3>2
    <3> QED BY <3>1, <3>2
  <2> QED BY <2>3 DEF Left
<1>7. ASSUME NEW o PROVE Count(m_observers, o) \in Nat /\ Left(o) \in Nat
  BY <1>1, CountNat, LeftNat
<1>8. \A o \in Observers : IF o \in again THEN Count(m_observers, o) <= Left(o)
                           ELSE Count(m_observers, o) = Left(o)
  BY ExactCounts DEF SubscriptionsInv
<1>9. \A o \in Observers : IF o \in again THEN Count(m_observers', o) <= Left(o)'
                           ELSE Count(m_observers', o) = Left(o)'
  <2> SUFFICES ASSUME NEW o \in Observers
               PROVE  IF o \in again THEN Count(m_observers', o) <= Left(o)'
                      ELSE Count(m_observers', o) = Left(o)'
    OBVIOUS
  <2> DEFINE d == IF o = e THEN 1 ELSE 0
  <2>1. d \in Nat /\ Count(m_observers', o) = Count(m_observers, o) + d /\ Left(o)' = Left(o) + d
    BY <1>5, <1>6
  <2> HIDE DEF d
  <2> QED BY <1>7, <1>8, <2>1
<1>10. SubscriptionsExact'
  BY <1>1, <1>9 DEF SubscriptionsExact, Count, Positions, Left
<1> QED BY <1>1, <1>2, <1>3, <1>4, <1>10 DEF SubscriptionsInv

(* unsubscribe() takes an entry and the subscription; the second time for  *)
(* the same subscription it takes at most an entry of the same observer.   *)
LEMMA UnsubscribeOK ==
    ASSUME SubscriptionsInv, NEW u \in Users, NEW s \in 1 .. Len(subscriptions), Unsubscribe(u, s)
    PROVE  SubscriptionsInv'
<1>0. PICK e \in Observers : e = subscriptions[s]
  BY DEF SubscriptionsInv
<1>1. /\ m_observers' = Erased(m_observers, e)
      /\ active' = active \ {s}
      /\ again' = IF s \in active THEN again ELSE again \cup {e}
      /\ subscriptions' = subscriptions
      /\ m_observers \in Seq(Observers) /\ subscriptions \in Seq(Observers)
      /\ active \subseteq 1 .. Len(subscriptions)
      /\ again \subseteq Observers
  BY <1>0 DEF Unsubscribe, SubscriptionsInv
<1>2. /\ m_observers' \in Seq(Observers)
      /\ \A o : o # e => Count(m_observers', o) = Count(m_observers, o)
      /\ Count(m_observers, e) = 0 => Count(m_observers', e) = 0
      /\ Count(m_observers, e) > 0 => Count(m_observers', e) = Count(m_observers, e) - 1
  BY <1>1, CountErased
<1>3. ASSUME NEW o
      PROVE  IF o = e /\ s \in active THEN Left(o)' = Left(o) - 1 ELSE Left(o)' = Left(o)
  <2> DEFINE A == {t \in active : subscriptions[t] = o}
             B == {t \in active' : subscriptions'[t] = o}
  <2>1. B = A \ {s} /\ (s \in A <=> o = e /\ s \in active)
    BY <1>0, <1>1
  <2>2. IsFiniteSet(A) /\ Cardinality(A) \in Nat
    BY LeftNat DEF Left
  <2>3. IF s \in A THEN Cardinality(B) = Cardinality(A) - 1 ELSE Cardinality(B) = Cardinality(A)
    <3> HIDE DEF A, B
    <3> QED BY <2>1, <2>2, FS_RemoveElement
  <2> QED BY <2>1, <2>3 DEF Left
<1>4. Count(m_observers', e) \in Nat /\ Left(e)' \in Nat
  <2>1. IsFiniteSet({t \in active : subscriptions[t] = e} \ {s})
    BY LeftNat, FS_RemoveElement, ZenonT(30)
  <2>2. {t \in active' : subscriptions'[t] = e} = {t \in active : subscriptions[t] = e} \ {s}
    BY <1>1
  <2>3. Cardinality({t \in active' : subscriptions'[t] = e}) \in Nat
    BY <2>1, <2>2, FS_CardinalityType
  <2>4. Count(m_observers', e) \in Nat
    BY <1>2, CountNat
  <2> QED BY <2>3, <2>4 DEF Left
<1>5. ASSUME NEW o PROVE Count(m_observers, o) \in Nat /\ Left(o) \in Nat
  BY <1>1, CountNat, LeftNat
<1>6. \A o \in Observers : IF o \in again THEN Count(m_observers, o) <= Left(o)
                           ELSE Count(m_observers, o) = Left(o)
  BY ExactCounts DEF SubscriptionsInv
<1>7. ASSUME NEW o \in Observers
      PROVE  IF o \in again' THEN Count(m_observers', o) <= Left(o)'
             ELSE Count(m_observers', o) = Left(o)'
  <2>1. CASE o # e
    <3>1. Left(o)' = Left(o) /\ Count(m_observers', o) = Count(m_observers, o) /\ (o \in again' <=> o \in again)
      BY <1>1, <1>2, <1>3, <1>5, <2>1
    <3> QED BY <1>6, <3>1
  <2>2. CASE o = e /\ s \in active
    <3>1. Left(e)' = Left(e) - 1 /\ again' = again
      BY <1>1, <1>3, <2>2
    <3>2. Count(m_observers, e) \in Nat /\ Left(e) \in Nat /\ Left(e) > 0
      BY <1>4, <1>5, <3>1
    <3>3. IF e \in again THEN Count(m_observers, e) <= Left(e) ELSE Count(m_observers, e) = Left(e)
      BY <1>1, <1>6
    <3> QED BY <1>2, <1>4, <2>2, <3>1, <3>2, <3>3
  <2>3. CASE o = e /\ s \notin active
    <3>1. Left(e)' = Left(e) /\ e \in again'
      BY <1>1, <1>3, <1>5, <2>3
    <3>2. Count(m_observers, e) <= Left(e) /\ Count(m_observers, e) \in Nat /\ Left(e) \in Nat
      BY <1>1, <1>5, <1>6
    <3> QED BY <1>2, <1>4, <2>3, <3>1, <3>2
  <2> QED BY <2>1, <2>2, <2>3
<1>8. SubscriptionsExact'
  BY <1>7 DEF SubscriptionsExact, Count, Positions, Left
<1> QED BY <1>1, <1>2, <1>8 DEF SubscriptionsInv

-----------------------------------------------------------------------------
(* The specification *)

(* The invariant holds initially. *)
LEMMA SubjectInitInv == SubjectInit => SubjectInv
<1> SUFFICES ASSUME SubjectInit PROVE SubjectInv
  OBVIOUS
<1> USE DEF SubjectInit
<1>1. CallsInv
  BY SubjectAssumption DEF CallsInv
<1>2. \A o : Count(m_observers, o) = 0 /\ Left(o) = 0
  <2>1. \A o : {s \in active : subscriptions[s] = o} = {}
    OBVIOUS
  <2> QED BY <2>1, CountEmpty, FS_EmptySet DEF Left
<1>3. SubscriptionsExact
  BY <1>2, ExactCounts
<1> QED BY <1>1, <1>3 DEF SubjectInv, SubscriptionsInv

(* The next observer is called: it is owed nothing from then on. *)
LEMMA Called ==
    ASSUME NEW f \in Frame, FrameOK(f), f.done < Len(f.observers), NEW b \in BOOLEAN
    PROVE  LET o == f.observers[f.done + 1]
               g == [f EXCEPT !.done = @ + 1, !.inside = b, !.owed = @ \ {o}]
           IN  g \in Frame /\ FrameOK(g)
<1> DEFINE o == f.observers[f.done + 1]
           g == [f EXCEPT !.done = @ + 1, !.inside = b, !.owed = @ \ {o}]
<1>1. /\ g \in Frame /\ f.done \in Nat /\ f.observers \in Seq(Observers)
      /\ g.done = f.done + 1 /\ g.observers = f.observers /\ g.owed = f.owed \ {o}
  <2>1. f.done + 1 \in Nat /\ f.done \in Nat /\ f.observers \in Seq(Observers) /\ f.owed \ {o} \subseteq Observers
    BY DEF Frame
  <2> HIDE DEF o
  <2>2. g.done = f.done + 1 /\ g.observers = f.observers /\ g.owed = f.owed \ {o}
    BY DEF Frame
  <2>3. \A h \in Frame : [h EXCEPT !.done = @ + 1] \in Frame
    BY DEF Frame
  <2>4. \A h \in Frame : [h EXCEPT !.inside = b] \in Frame
    BY DEF Frame
  <2>5. \A h \in Frame : [h EXCEPT !.owed = @ \ {o}] \in Frame
    BY DEF Frame
  <2>6. g = [[[f EXCEPT !.done = @ + 1] EXCEPT !.inside = b] EXCEPT !.owed = @ \ {o}]
    OBVIOUS
  <2> HIDE DEF g
  <2>7. g \in Frame
    BY ONLY f \in Frame, <2>3, <2>4, <2>5, <2>6, Zenon
  <2> QED BY <2>1, <2>2, <2>7
<1>2. g.done <= Len(g.observers)
  BY <1>1
<1>3. ASSUME NEW x \in f.owed \ {o}
      PROVE  \E k \in (f.done + 1) + 1 .. Len(f.observers) : f.observers[k] = x
  <2>1. PICK k \in f.done + 1 .. Len(f.observers) : f.observers[k] = x
    BY <1>3 DEF FrameOK, OwedAhead
  <2>2. k # f.done + 1
    BY <1>3, <2>1
  <2>3. k \in (f.done + 1) + 1 .. Len(f.observers)
    BY <1>1, <2>1, <2>2
  <2> QED BY <2>1, <2>3
<1> HIDE DEF g
<1>4. FrameOK(g)
  BY <1>1, <1>2, <1>3 DEF FrameOK, OwedAhead
<1> QED BY <1>1, <1>4 DEF g

(* Every step preserves the invariant. *)
LEMMA SubjectNextInv == SubjectInv /\ [SubjectNext]_subjectVars => SubjectInv'
<1> SUFFICES ASSUME SubjectInv, [SubjectNext]_subjectVars PROVE SubjectInv'
  OBVIOUS
<1> USE DEF SubjectInv
<1>1. UNCHANGED <<m_observers, subscriptions, historyVars>> => SubscriptionsInv'
  BY DEF SubscriptionsInv, SubscriptionsExact, historyVars
<1>2. UNCHANGED calls => CallsInv'
  BY DEF CallsInv, FrameOK, OwedAhead
<1>3. ASSUME NEW u \in Users, NEW o \in Observers, Subscribe(u, o) PROVE SubjectInv'
  BY <1>2, <1>3, SubscribeOK DEF Subscribe
<1>4. ASSUME NEW u \in Users, NEW s \in 1 .. Len(subscriptions), Unsubscribe(u, s) PROVE SubjectInv'
  <2>1. CallsInv'
    BY <1>4, ForgivenOK DEF Unsubscribe
  <2> QED BY <1>4, <2>1, UnsubscribeOK
<1>5. ASSUME NEW u \in Users, Clear(u) PROVE SubjectInv'
  <2>1. CallsInv'
    BY <1>5, ForgivenOK DEF Clear
  <2>2. m_observers' = <<>> /\ active' = {} /\ again' = {} /\ subscriptions' = subscriptions
    BY <1>5 DEF Clear
  <2>3. ASSUME NEW o PROVE Count(m_observers', o) = 0 /\ Left(o)' = 0
    <3>1. {s \in active' : subscriptions'[s] = o} = {}
      BY <2>2
    <3> QED BY <2>2, <3>1, CountEmpty, FS_EmptySet DEF Left
  <2>4. SubscriptionsExact'
    BY <2>2, <2>3 DEF SubscriptionsExact, Count, Positions, Left
  <2> QED BY <2>1, <2>2, <2>4 DEF SubscriptionsInv
<1>6. ASSUME NEW u \in Users, Notify(u) PROVE SubjectInv'
  <2> DEFINE f == [observers |-> m_observers, done |-> 0, inside |-> FALSE, owed |-> ToSet(m_observers)]
  <2>1. /\ f.observers = m_observers /\ f.done = 0 /\ f.owed = ToSet(m_observers)
        /\ m_observers \in Seq(Observers)
    BY DEF SubscriptionsInv
  <2>2. ToSet(m_observers) \subseteq Observers
    BY <2>1 DEF ToSet
  <2>3. f \in Frame
    BY <2>1, <2>2 DEF Frame
  <2>4. FrameOK(f)
    <3> HIDE DEF f
    <3>1. Len(m_observers) \in Nat
      BY <2>1
    <3>2. \A o \in ToSet(m_observers) : \E k \in 1 .. Len(m_observers) : m_observers[k] = o
      BY <2>1 DEF ToSet
    <3> QED BY <2>1, <3>1, <3>2 DEF FrameOK, OwedAhead
  <2>5. /\ calls' = [calls EXCEPT ![u] = Append(calls[u], f)]
        /\ Len(calls[u]) < MaxDepth
        /\ UNCHANGED <<m_observers, subscriptions, historyVars>>
    BY <1>6 DEF Notify
  <2> HIDE DEF f
  <2>6. calls[u] \in Seq(Frame) /\ \A i \in 1 .. Len(calls[u]) : FrameOK(calls[u][i])
    BY DEF CallsInv
  <2>7. /\ Append(calls[u], f) \in Seq(Frame) /\ Len(Append(calls[u], f)) = Len(calls[u]) + 1
        /\ \A i \in 1 .. Len(Append(calls[u], f)) : FrameOK(Append(calls[u], f)[i])
    BY <2>3, <2>4, <2>6, Pushed
  <2>8. Len(Append(calls[u], f)) <= MaxDepth
    <3>1. Len(calls[u]) \in Nat
      BY <2>6
    <3> QED BY <2>5, <2>7, <3>1, SubjectAssumption
  <2>9. CallsInv'
    BY <2>5, <2>7, <2>8, CallsChange
  <2> QED BY <1>1, <2>5, <2>9
<1>7. ASSUME NEW u \in Users, CallObserver(u) PROVE SubjectInv'
  <2>1. PICK f \in Frame : f = Last(calls[u]) /\ FrameOK(f)
    BY <1>7, TopFrame DEF CallObserver
  <2> DEFINE o == f.observers[f.done + 1]
             g == [f EXCEPT !.done = @ + 1, !.inside = Enters(o), !.owed = @ \ {o}]
  <2>2. /\ calls[u] # <<>> /\ f.done < Len(f.observers) /\ SetTop(u, g)
        /\ UNCHANGED <<m_observers, subscriptions, historyVars>>
    BY <1>7, <2>1 DEF CallObserver, Iterated
  <2>3. Enters(o) \in BOOLEAN
    <3>1. \A x : Enters(x) \in BOOLEAN
      BY DEF Enters
    <3> QED BY <3>1
  <2>4. g \in Frame /\ FrameOK(g)
    BY <2>1, <2>2, <2>3, Called
  <2> HIDE DEF g
  <2>5. CallsInv'
    BY <2>2, <2>4, TopSet
  <2> QED BY <1>1, <2>2, <2>5
<1>8. ASSUME NEW u \in Users, ObserverReturns(u) PROVE SubjectInv'
  <2>1. PICK f \in Frame : f = Last(calls[u]) /\ FrameOK(f)
    BY <1>8, TopFrame DEF ObserverReturns
  <2> DEFINE g == [f EXCEPT !.inside = FALSE]
  <2>2. /\ calls[u] # <<>> /\ SetTop(u, g)
        /\ UNCHANGED <<m_observers, subscriptions, historyVars>>
    BY <1>8, <2>1 DEF ObserverReturns
  <2>3. /\ g \in Frame
        /\ g.done = f.done /\ g.observers = f.observers /\ g.owed = f.owed
    BY DEF Frame
  <2> HIDE DEF g
  <2>4. FrameOK(g)
    BY <2>1, <2>3 DEF FrameOK, OwedAhead
  <2>5. CallsInv'
    BY <2>2, <2>3, <2>4, TopSet
  <2> QED BY <1>1, <2>2, <2>5
<1>9. ASSUME NEW u \in Users, NextReturns(u) PROVE SubjectInv'
  <2>1. /\ calls[u] # <<>> /\ calls' = [calls EXCEPT ![u] = Front(calls[u])]
        /\ UNCHANGED <<m_observers, subscriptions, historyVars>>
    BY <1>9 DEF NextReturns
  <2>2. Len(calls[u]) <= MaxDepth
    BY DEF CallsInv
  <2>3. /\ Front(calls[u]) \in Seq(Frame) /\ Len(Front(calls[u])) <= MaxDepth
        /\ \A i \in 1 .. Len(Front(calls[u])) : FrameOK(Front(calls[u])[i])
    BY <2>1, <2>2, TopFrame, SubjectAssumption
  <2>4. CallsInv'
    BY <2>1, <2>3, CallsChange
  <2> QED BY <1>1, <2>1, <2>4
<1>10. CASE UNCHANGED subjectVars
  BY <1>1, <1>2, <1>10 DEF subjectVars
<1> QED
  BY <1>3, <1>4, <1>5, <1>6, <1>7, <1>8, <1>9, <1>10 DEF SubjectNext

(* SubjectInv holds in every reachable state. *)
THEOREM SubjectInvariance == SubjectSpec => []SubjectInv
  BY SubjectInitInv, SubjectNextInv, PTL DEF SubjectSpec

(* The type invariant. *)
THEOREM SubjectTypeCorrect == SubjectSpec => []SubjectTypeOK
<1>1. SubjectInv => SubjectTypeOK
  <2> SUFFICES ASSUME SubjectInv PROVE SubjectTypeOK
    OBVIOUS
  <2>1. ASSUME NEW u \in Users
        PROVE  /\ Len(calls[u]) <= MaxDepth
               /\ \A i \in 1 .. Len(calls[u]) :
                     calls[u][i] \in Frame /\ calls[u][i].done <= Len(calls[u][i].observers)
    <3>1. calls[u] \in Seq(Frame) /\ Len(calls[u]) <= MaxDepth
      BY DEF SubjectInv, CallsInv
    <3>2. \A i \in 1 .. Len(calls[u]) : FrameOK(calls[u][i])
      BY DEF SubjectInv, CallsInv
    <3>3. \A i \in 1 .. Len(calls[u]) : calls[u][i] \in Frame
      BY <3>1
    <3> QED BY <3>1, <3>2, <3>3 DEF FrameOK
  <2> QED BY <2>1 DEF SubjectInv, SubscriptionsInv, SubjectTypeOK
<1> QED BY <1>1, SubjectInvariance, PTL

(* A call of next() that is done has called every observer that stayed     *)
(* subscribed since it began, whoever came or went meanwhile.              *)
THEOREM NotSkippedHolds == SubjectSpec => []NotSkipped
<1>1. ASSUME SubjectInv, NEW u \in Users, NEW i \in 1 .. Len(calls[u]), Finished(calls[u][i])
      PROVE  calls[u][i].owed = {}
  <2>1. PICK f \in Frame : f = calls[u][i] /\ FrameOK(f)
    BY <1>1 DEF SubjectInv, CallsInv
  <2>2. f.done \in Nat /\ f.observers \in Seq(Observers) /\ f.done >= Len(f.observers)
    BY <1>1, <2>1 DEF Finished, Iterated, Frame
  <2>3. f.done + 1 .. Len(f.observers) = {}
    BY <2>2
  <2> QED BY <2>1, <2>3 DEF FrameOK, OwedAhead
<1>2. SubjectInv => NotSkipped
  BY <1>1 DEF NotSkipped
<1> QED BY <1>2, SubjectInvariance, PTL

(* The subject has as many entries of an observer as it has subscriptions  *)
(* left, but for one whose subscription was ended again, which may have    *)
(* fewer.                                                                  *)
THEOREM SubscriptionsExactHolds == SubjectSpec => []SubscriptionsExact
<1>1. SubjectInv => SubscriptionsExact
  BY DEF SubjectInv, SubscriptionsInv
<1> QED BY <1>1, SubjectInvariance, PTL

-----------------------------------------------------------------------------
(* HttpConnection: where the request is *)

Phases == {"new", "body", "handling", "answering", "closed", "crashed"}

(* The request is there until its body is complete.  Once it was moved out *)
(* the completion of a body is due for an empty POST only.                 *)
HeldInv ==
    /\ phase \in Phases
    /\ phase = "body" => m_request = "held"
    /\ phase \in {"handling", "answering"} =>
          m_request = "moved" /\ (bodyDue => EmptyPost(request[1]))
    /\ phase = "crashed" => EmptyPost(request[1])

(* Every step keeps the request where it is expected. *)
LEMMA HeldStep == ASSUME HeldInv, [HttpNext]_httpVars PROVE HeldInv'
<1> USE DEF requestVars
<1>1. phase \in Phases
  BY DEF HeldInv
<1>2. ASSUME NEW url \in Urls, NEW method \in Methods, Handle(url, method) PROVE HeldInv'
  BY <1>2 DEF Handle, Registers, HeldInv
<1>3. ASSUME NEW r, NewConnection(r) PROVE HeldInv'
  <2>1. request'[1] = r /\ bodyDue' = (EmptyPost(r) \/ r.contentLength > 0)
    BY <1>3 DEF NewConnection, Connects
  <2>2. CASE r.contentLength = 0
    <3>1. phase' = "handling" /\ m_request' = "moved"
      BY <1>3, <2>2 DEF NewConnection, HandledAtOnce, HandleHttpRequest
    <3>2. bodyDue' => EmptyPost(r)
      <4>1. ~(r.contentLength > 0)
        BY <2>2
      <4> QED BY <2>1, <4>1, Zenon
    <3> QED BY <2>1, <3>1, <3>2 DEF HeldInv, Phases
  <2>3. CASE r.contentLength # 0
    BY <1>3, <2>3 DEF NewConnection, HeldInv, Phases
  <2> QED BY <2>2, <2>3
<1>4. CASE Body
  BY <1>4 DEF Body, HeldInv
<1>5. CASE BodyCompletion
  <2>1. Receives /\ bodyDue' = FALSE /\ request' = request /\ CompletedRequest(request[1])
    BY <1>5 DEF BodyCompletion
  <2>2. CASE m_request = "held"
    <3>1. phase' = "handling" /\ m_request' = "moved"
      BY <2>1, <2>2 DEF CompletedRequest, HandleHttpRequest
    <3> QED BY <2>1, <3>1 DEF HeldInv, Phases
  <2>3. CASE m_request # "held"
    <3>1. phase = "answering" /\ bodyDue
      BY <2>1, <2>3 DEF Receives, HeldInv
    <3>2. phase' = "crashed"
      BY <2>1, <2>3 DEF CompletedRequest
    <3> QED BY <2>1, <3>1, <3>2 DEF HeldInv, Phases
  <2> QED BY <2>2, <2>3
<1>6. CASE Handling
  BY <1>1, <1>6
     DEF Handling, HandlerReturns, HandlerAnswers, NotFound, AsksToWrite, NothingToAnswer,
         Handled, HeldInv, Phases
<1>7. CASE HttpWriteable \/ Scan \/ Aborts
  BY <1>1, <1>7 DEF HttpWriteable, WritesPacket, Scan, Aborts, HeldInv, Phases
<1>8. CASE UNCHANGED httpVars
  BY <1>8 DEF httpVars, HeldInv
<1> QED BY <1>2, <1>3, <1>4, <1>5, <1>6, <1>7, <1>8 DEF HttpNext

(* The request is where it is expected in every reachable state. *)
THEOREM HeldInvariance == HttpSpec => []HeldInv
<1>1. HttpInit => HeldInv
  BY DEF HttpInit, HeldInv, Phases
<1> QED BY <1>1, HeldStep, PTL DEF HttpSpec

-----------------------------------------------------------------------------
(* HttpConnection: the answers *)

Answer == [packets : Nat \ {0}, status : DOMAIN HttpStatusCode]

(* The rest of the first answer is what is written next. *)
FirstAhead ==
    LET n == Len(written)
        k == answers[1].packets
    IN  /\ n < k /\ k <= n + Len(m_sendList)
        /\ \A i \in 1 .. k - n : m_sendList[i] = <<1, n + i>>

AnswersType ==
    /\ phase \in Phases
    /\ answers \in Seq(Answer)
    /\ m_sendList \in Seq(Nat \X Nat) /\ written \in Seq(Nat \X Nat)

(* When there are answers, and when nothing is written. *)
AnswerStages ==
    /\ phase \in {"new", "body"} => answers = <<>>
    /\ phase = "answering" => answers # <<>>
    /\ phase \in {"new", "body", "handling"} => written = <<>>
    /\ answers = <<>> => m_sendList = <<>> /\ written = <<>>
    /\ answers # <<>> /\ phase # "closed" => FirstAhead

AnswerInv == AnswersType /\ AnswerStages /\ AnswerWhole

(* What is pushed for one answer. *)
LEMMA PacketsPushed ==
    ASSUME NEW k \in Nat \ {0}, NEW c \in DOMAIN HttpStatusCode, AnswersType, AnswerStages,
           AnswerWhole, SendHttpResult(k, c), phase = "handling",
           UNCHANGED <<phase, writeVars>>
    PROVE  AnswerInv'
<1> DEFINE new == [packets |-> k, status |-> c]
           pushed == [i \in 1 .. k |-> <<Len(answers) + 1, i>>]
<1>1. answers \in Seq(Answer) /\ Len(answers) \in Nat /\ new \in Answer /\ m_sendList \in Seq(Nat \X Nat)
  BY DEF AnswersType, Answer
<1>2. pushed \in Seq(Nat \X Nat) /\ Len(pushed) = k /\ \A i \in 1 .. k : pushed[i] = <<Len(answers) + 1, i>>
  <2>1. \A i \in 1 .. k : <<Len(answers) + 1, i>> \in Nat \X Nat
    BY <1>1
  <2> QED BY <2>1
<1>3. answers' = Append(answers, new) /\ m_sendList' = m_sendList \o pushed
  BY DEF SendHttpResult
<1>4. written = <<>> /\ written' = <<>> /\ headers' = headers /\ phase' = "handling" /\ aborted' = aborted
  BY DEF AnswerStages, writeVars
<1> HIDE DEF new, pushed
<1>5. AnswersType'
  BY <1>1, <1>2, <1>3, <1>4 DEF AnswersType, Phases
<1>6. answers' # <<>> /\ Len(answers') = Len(answers) + 1
  BY <1>1, <1>3, AppendProperties
<1>7. FirstAhead'
  <2>1. CASE answers = <<>>
    <3>1. answers'[1] = new /\ m_sendList' = pushed /\ Len(answers) = 0
      BY <1>1, <1>2, <1>3, <2>1 DEF AnswerStages
    <3>2. answers'[1].packets = k
      BY <3>1 DEF new
    <3>3. Len(written') = 0 /\ Len(m_sendList') = k
      BY <1>2, <1>4, <3>1
    <3>4. \A i \in 1 .. k : m_sendList'[i] = <<1, i>>
      BY <1>2, <3>1
    <3> QED BY <3>2, <3>3, <3>4 DEF FirstAhead
  <2>2. CASE answers # <<>>
    <3>1. answers'[1] = answers[1] /\ answers[1] \in Answer
      BY <1>1, <1>3, <2>2
    <3>2. FirstAhead /\ Len(written) = 0 /\ Len(written') = 0
      BY <1>4, <2>2 DEF AnswerStages
    <3>3. Len(m_sendList') = Len(m_sendList) + k /\ Len(m_sendList) \in Nat
          /\ \A i \in 1 .. Len(m_sendList) : m_sendList'[i] = m_sendList[i]
      <4>1. Len(m_sendList) \in Nat
        BY <1>1
      <4>2. m_sendList \o pushed \in Seq(Nat \X Nat)
            /\ Len(m_sendList \o pushed) = Len(m_sendList) + k
            /\ \A i \in 1 .. Len(m_sendList) + k : (m_sendList \o pushed)[i] =
                    IF i <= Len(m_sendList) THEN m_sendList[i] ELSE pushed[i - Len(m_sendList)]
        BY <1>1, <1>2, ConcatProperties
      <4>3. \A i \in 1 .. Len(m_sendList) : i \in 1 .. Len(m_sendList) + k /\ i <= Len(m_sendList)
        BY <4>1
      <4> QED BY <1>3, <4>1, <4>2, <4>3
    <3>4. answers[1].packets \in Nat
      BY <3>1 DEF Answer
    <3>5. answers[1].packets <= Len(m_sendList)
          /\ \A i \in 1 .. answers[1].packets : m_sendList[i] = <<1, i>>
      BY <3>2, <3>3, <3>4 DEF FirstAhead
    <3>6. answers'[1].packets = answers[1].packets /\ 0 < answers[1].packets
      BY <3>1 DEF Answer
    <3> QED BY <3>2, <3>3, <3>4, <3>5, <3>6 DEF FirstAhead
  <2> QED BY <2>1, <2>2
<1>8. AnswerStages'
  BY <1>4, <1>6, <1>7 DEF AnswerStages
<1>9. AnswerWhole'
  BY <1>4 DEF AnswerWhole, AnswerExact, ClosedComplete
<1> QED BY <1>5, <1>8, <1>9 DEF AnswerInv

(* Writing a packet writes the next one of the first answer. *)
LEMMA PacketWritten ==
    ASSUME AnswerInv, HttpWriteable PROVE AnswerInv'
<1> DEFINE n == Len(written)
           k == answers[1].packets
<1>1. answers \in Seq(Answer) /\ m_sendList \in Seq(Nat \X Nat) /\ written \in Seq(Nat \X Nat)
      /\ answers # <<>> /\ FirstAhead /\ AnswerExact
  BY DEF AnswerInv, AnswersType, AnswerStages, AnswerWhole, HttpWriteable, WritesPacket
<1>2. n \in Nat /\ k \in Nat /\ Len(m_sendList) \in Nat
  <2>1. answers[1] \in Answer
    BY <1>1
  <2> QED BY <1>1, <2>1 DEF Answer
<1>3. n < k /\ k <= n + Len(m_sendList) /\ \A i \in 1 .. k - n : m_sendList[i] = <<1, n + i>>
  BY <1>1 DEF FirstAhead
<1>4. Head(m_sendList) = <<1, n + 1>> /\ m_sendList # <<>>
  BY <1>1, <1>2, <1>3
<1>5. /\ m_sendList' = Tail(m_sendList) /\ written' = Append(written, <<1, n + 1>>)
      /\ answers' = answers /\ aborted' = aborted
      /\ headers' = IF n + 1 = 1 THEN Append(headers, HttpStatusCode[answers[1].status]) ELSE headers
      /\ phase' = IF n + 1 = k THEN "closed" ELSE "answering"
  BY <1>4 DEF HttpWriteable, WritesPacket, IsFirst, IsFinal, ToLwsStatusCode
<1> HIDE DEF n, k
<1>6. Len(written') = n + 1 /\ written' # <<>>
      /\ \A i \in 1 .. n + 1 : written'[i] = IF i = n + 1 THEN <<1, n + 1>> ELSE written[i]
  BY <1>1, <1>2, <1>5 DEF n
<1>7. /\ m_sendList' \in Seq(Nat \X Nat) /\ Len(m_sendList') = Len(m_sendList) - 1
      /\ \A i \in 1 .. Len(m_sendList) - 1 : m_sendList'[i] = m_sendList[i + 1]
  BY <1>1, <1>4, <1>5
<1>8. AnswersType'
  <2>1. <<1, n + 1>> \in Nat \X Nat
    BY <1>2
  <2> QED BY <1>1, <1>5, <1>7, <2>1 DEF AnswersType, Phases
<1>9. phase' # "closed" => FirstAhead'
  <2> SUFFICES ASSUME phase' # "closed" PROVE FirstAhead'
    OBVIOUS
  <2>1. n + 1 < k /\ k <= n + 1 + Len(m_sendList')
    BY <1>2, <1>3, <1>5, <1>7
  <2>2. \A i \in 1 .. k - (n + 1) : m_sendList'[i] = <<1, n + 1 + i>>
    <3> TAKE i \in 1 .. k - (n + 1)
    <3>1. i \in 1 .. Len(m_sendList) - 1 /\ i + 1 \in 1 .. k - n /\ n + (i + 1) = n + 1 + i
      BY <1>2, <1>3
    <3> QED BY <1>3, <1>7, <3>1
  <2>3. answers'[1].packets = k
    BY <1>5 DEF k
  <2> QED BY <1>6, <2>1, <2>2, <2>3 DEF FirstAhead
<1>10. AnswerStages'
  BY <1>1, <1>5, <1>9 DEF AnswerStages
<1>11. AnswerExact'
  <2>1. \A i \in 1 .. Len(written') : written'[i] = <<1, i>>
    <3>1. \A i \in 1 .. n : written[i] = <<1, i>>
      BY <1>1 DEF AnswerExact, n
    <3>2. \A i \in 1 .. n + 1 : i = n + 1 \/ i \in 1 .. n
      BY <1>2
    <3> QED BY <1>6, <3>1, <3>2
  <2>2. headers' = <<HttpStatusCode[answers'[1].status]>>
    <3>1. CASE written = <<>>
      <4>1. n = 0 /\ headers = <<>>
        BY <1>1, <3>1 DEF AnswerExact, n
      <4> QED BY <1>5, <4>1
    <3>2. CASE written # <<>>
      <4>1. n # 0
        BY <1>1, <3>2 DEF n
      <4> QED BY <1>1, <1>2, <1>5, <3>2, <4>1 DEF AnswerExact
    <3> QED BY <3>1, <3>2
  <2> QED BY <1>6, <2>1, <2>2 DEF AnswerExact
<1>12. ClosedComplete'
  BY <1>1, <1>2, <1>5, <1>6 DEF ClosedComplete, k
<1> QED BY <1>8, <1>10, <1>11, <1>12 DEF AnswerInv, AnswerWhole

(* Steps that neither answer nor write. *)
LEMMA NotAnswering ==
    ASSUME AnswerInv, UNCHANGED <<answers, m_sendList, written, headers>>, phase' \in Phases,
           phase' \in {"new", "body"} => phase \in {"new", "body"},
           phase' = "handling" => phase \in {"new", "body", "handling"},
           phase' = "answering" => answers # <<>>,
           phase' = "closed" => \/ phase = "closed" /\ aborted' = aborted
                                \/ aborted'
                                \/ answers = <<>>,
           phase = "closed" => phase' = "closed"
    PROVE  AnswerInv'
<1>1. AnswersType'
  BY DEF AnswerInv, AnswersType
<1>2. FirstAhead' = FirstAhead /\ AnswerExact' = AnswerExact
  BY DEF FirstAhead, AnswerExact
<1>3. AnswerStages'
  BY <1>2 DEF AnswerInv, AnswersType, AnswerStages, Phases
<1>4. ClosedComplete'
  BY DEF AnswerInv, AnswersType, AnswerStages, Phases, AnswerWhole, ClosedComplete
<1> QED BY <1>1, <1>2, <1>3, <1>4 DEF AnswerInv, AnswerWhole

(* Every step keeps the answers exact. *)
LEMMA AnswerStep == ASSUME HeldInv, AnswerInv, [HttpNext]_httpVars PROVE AnswerInv'
<1> USE DEF handlerVars, requestVars, answerVars, writeVars
<1>1. phase \in Phases
  BY DEF AnswerInv, AnswersType
<1>2. ASSUME NEW url \in Urls, NEW method \in Methods, Handle(url, method) PROVE AnswerInv'
  BY <1>1, <1>2, NotAnswering DEF Handle, Registers
<1>3. ASSUME NEW r, NewConnection(r) PROVE AnswerInv'
  <2>1. phase = "new" /\ phase' \in {"body", "handling"} /\ UNCHANGED <<answers, m_sendList, written, headers>>
    BY <1>3 DEF NewConnection, Connects, HandledAtOnce, HandleHttpRequest
  <2> QED BY <2>1, NotAnswering DEF Phases
<1>4. CASE Body
  <2>1. phase = "answering" => answers # <<>>
    BY DEF AnswerInv, AnswerStages
  <2> QED BY <1>1, <1>4, <2>1, NotAnswering DEF Body, Receives
<1>5. CASE BodyCompletion
  <2>1. UNCHANGED <<answers, m_sendList, written, headers>> /\ Receives /\ CompletedRequest(request[1])
    BY <1>5 DEF BodyCompletion
  <2>2. \/ phase = "body" /\ phase' = "handling"
        \/ phase \in {"body", "answering"} /\ phase' = "crashed"
    BY <2>1 DEF Receives, CompletedRequest, HandleHttpRequest, HeldInv
  <2> QED BY <2>1, <2>2, NotAnswering DEF Phases
<1>6. CASE HandlerReturns
  BY <1>1, <1>6, NotAnswering DEF HandlerReturns
<1>7. ASSUME NEW k \in 1 .. MaxPackets, NEW c \in Statuses, HandlerAnswers(k, c) PROVE AnswerInv'
  <2>1. k \in Nat \ {0} /\ c \in DOMAIN HttpStatusCode
    BY HttpAssumption, StatusAssumption
  <2> QED BY <1>7, <2>1, PacketsPushed DEF HandlerAnswers, AnswerInv
<1>8. CASE NotFound
  <2>1. "NotFound" \in DOMAIN HttpStatusCode
    BY DEF HttpStatusCode
  <2> QED BY <1>8, <2>1, PacketsPushed DEF NotFound, AnswerInv
<1>9. CASE AsksToWrite
  <2>1. answers # <<>>
    BY <1>9 DEF AsksToWrite, HasDataToSend, AnswerInv, AnswerStages
  <2> QED BY <1>9, <2>1, NotAnswering DEF AsksToWrite, Handled, Phases
<1>10. CASE NothingToAnswer
  <2>1. answers = <<>>
    <3> SUFFICES ASSUME answers # <<>> PROVE FALSE
      OBVIOUS
    <3>1. FirstAhead /\ answers[1] \in Answer /\ m_sendList = <<>> /\ Len(written) \in Nat
      BY <1>10 DEF NothingToAnswer, Handled, HasDataToSend, AnswerInv, AnswerStages, AnswersType
    <3> QED BY <3>1 DEF FirstAhead, Answer
  <2> QED BY <1>10, <2>1, NotAnswering DEF NothingToAnswer, Handled, Phases
<1>11. CASE HttpWriteable
  BY <1>11, PacketWritten
<1>12. CASE Scan
  <2>1. answers # <<>>
    BY <1>12 DEF Scan, HasDataToSend, AnswerInv, AnswerStages
  <2> QED BY <1>12, <2>1, NotAnswering DEF Scan, Phases
<1>13. CASE Aborts
  BY <1>13, NotAnswering DEF Aborts, Phases
<1>14. CASE UNCHANGED httpVars
  <2>1. phase = "answering" => answers # <<>>
    BY DEF AnswerInv, AnswerStages
  <2> QED BY <1>1, <1>14, <2>1, NotAnswering DEF httpVars
<1> QED BY <1>2, <1>3, <1>4, <1>5, <1>6, <1>7, <1>8, <1>9, <1>10, <1>11, <1>12, <1>13, <1>14
        DEF HttpNext, Handling

(* The peer reads the first answer, whole and with its header, before the  *)
(* connection is closed (sendHttpResult(), LWS_CALLBACK_HTTP_WRITEABLE).   *)
THEOREM AnswerWholeHolds == HttpSpec => []AnswerWhole
<1>1. HttpInit => AnswerInv
  BY DEF HttpInit, AnswerInv, AnswersType, AnswerStages, Phases, AnswerWhole, AnswerExact,
         ClosedComplete
<1>2. AnswerInv => AnswerWhole
  BY DEF AnswerInv
<1> QED BY <1>1, <1>2, HeldInvariance, AnswerStep, PTL DEF HttpSpec

-----------------------------------------------------------------------------
(* HttpConnection: the request *)

LengthOf == request[1].contentLength

(* The fragments that came and those that are to come are the body. *)
BodyExact ==
    /\ LengthOf \in Nat
    /\ m_request = "held"
    /\ m_buffer \in Seq(Nat) /\ inbox \in Seq(Nat)
    /\ Len(m_buffer) + Len(inbox) = LengthOf
    /\ \A i \in 1 .. Len(m_buffer) : m_buffer[i] = i
    /\ \A i \in 1 .. Len(inbox) : inbox[i] = Len(m_buffer) + i

RequestInv ==
    /\ phase \in Phases
    /\ phase \in {"new", "body"} => given = <<>>
    /\ phase = "new" => m_buffer = <<>>
    /\ phase = "body" => BodyExact
    /\ RequestOnce

(* Steps that leave the request alone. *)
LEMMA RequestKept ==
    ASSUME RequestInv, phase' \in Phases, phase' \in {"new", "body"} => phase = phase',
           phase' = "crashed" => phase = "crashed", UNCHANGED requestVars
    PROVE  RequestInv'
  BY DEF RequestInv, requestVars, LengthOf, BodyExact, RequestOnce

(* A request is given with its body when it has come. *)
LEMMA GivenWhole ==
    ASSUME RequestInv, phase' = "handling", given = <<>>, given' = <<m_buffer>>,
           NEW n \in Nat, m_buffer \in Seq(Nat), Len(m_buffer) = n,
           \A i \in 1 .. n : m_buffer[i] = i, request'[1].contentLength = n
    PROVE  RequestInv'
<1>1. m_buffer = [j \in 1 .. n |-> j]
  OBVIOUS
<1>2. RequestOnce'
  BY <1>1 DEF RequestOnce
<1> QED BY <1>2 DEF RequestInv, Phases

(* Every step keeps the request exact. *)
LEMMA RequestStep == ASSUME HeldInv, RequestInv, [HttpNext]_httpVars PROVE RequestInv'
<1>1. phase \in Phases
  BY DEF RequestInv
<1>2. ASSUME NEW url \in Urls, NEW method \in Methods, Handle(url, method) PROVE RequestInv'
  BY <1>1, <1>2, RequestKept DEF Handle, Registers
<1>3. ASSUME NEW r, r.contentLength \in Nat, NewConnection(r) PROVE RequestInv'
  <2>1. phase = "new" /\ given = <<>> /\ m_buffer = <<>> /\ request' = <<r>>
        /\ inbox' = IF EmptyPost(r) THEN <<0>> ELSE [i \in 1 .. r.contentLength |-> i]
    BY <1>3 DEF NewConnection, Connects, RequestInv
  <2>2. CASE r.contentLength = 0
    <3>1. phase' = "handling" /\ given' = <<m_buffer>>
      BY <1>3, <2>1, <2>2 DEF NewConnection, HandledAtOnce, HandleHttpRequest
    <3>2. m_buffer \in Seq(Nat) /\ Len(m_buffer) = 0 /\ request'[1].contentLength = 0
      BY <2>1, <2>2
    <3> QED BY <2>1, <3>1, <3>2, GivenWhole
  <2>3. CASE r.contentLength # 0
    <3>1. phase' = "body" /\ given' = <<>> /\ m_request' = "held" /\ m_buffer' = <<>>
      BY <1>3, <2>1, <2>3 DEF NewConnection, Connects
    <3>2. LengthOf' = r.contentLength /\ LengthOf' \in Nat
      BY <1>3, <2>1 DEF LengthOf
    <3>3. inbox' \in Seq(Nat) /\ Len(inbox') = r.contentLength
          /\ \A i \in 1 .. Len(inbox') : inbox'[i] = i
      <4>1. inbox' = [i \in 1 .. r.contentLength |-> i]
        BY <2>1, <2>3 DEF EmptyPost
      <4> QED BY <1>3, <4>1
    <3>4. m_buffer' \in Seq(Nat) /\ Len(m_buffer') = 0
      BY <3>1
    <3>5. BodyExact'
      BY <3>1, <3>2, <3>3, <3>4 DEF BodyExact
    <3> QED BY <3>1, <3>5 DEF RequestInv, RequestOnce, Phases
  <2> QED BY <2>2, <2>3
<1>4. CASE Body /\ phase = "body"
  <2>1. /\ phase = "body" /\ phase' = "body" /\ inbox # <<>> /\ BodyExact
        /\ m_buffer' = Append(m_buffer, Head(inbox)) /\ inbox' = Tail(inbox)
        /\ UNCHANGED <<request, m_request, given>> /\ given = <<>>
    BY <1>4 DEF Body, RequestInv
  <2> DEFINE b == Len(m_buffer)
  <2>2. m_buffer \in Seq(Nat) /\ inbox \in Seq(Nat) /\ b \in Nat /\ Len(inbox) \in Nat
        /\ b + Len(inbox) = LengthOf
    BY <2>1 DEF BodyExact
  <2>3. Head(inbox) = b + 1 /\ \A i \in 1 .. b : m_buffer[i] = i
    BY <2>1, <2>2 DEF BodyExact
  <2>4. m_buffer' \in Seq(Nat) /\ Len(m_buffer') = b + 1
        /\ \A i \in 1 .. b + 1 : m_buffer'[i] = i
    BY <2>1, <2>2, <2>3
  <2>5. inbox' \in Seq(Nat) /\ Len(inbox') = Len(inbox) - 1
        /\ \A i \in 1 .. Len(inbox) - 1 : inbox'[i] = inbox[i + 1]
    BY <2>1, <2>2
  <2> HIDE DEF b
  <2>6. \A i \in 1 .. Len(inbox) - 1 : inbox[i + 1] = b + 1 + i
    <3> TAKE i \in 1 .. Len(inbox) - 1
    <3>1. i + 1 \in 1 .. Len(inbox) /\ b + (i + 1) = b + 1 + i
      BY <2>2
    <3> QED BY <2>1, <3>1 DEF BodyExact, b
  <2>7. LengthOf' = LengthOf
    BY <2>1 DEF LengthOf
  <2>8. BodyExact'
    <3>1. Len(m_buffer') + Len(inbox') = LengthOf' /\ LengthOf' \in Nat /\ m_request' = "held"
      <4>1. LengthOf \in Nat /\ m_request = "held"
        BY <2>1 DEF BodyExact
      <4>2. m_request' = m_request
        BY <2>1
      <4>3. (b + 1) + (Len(inbox) - 1) = LengthOf
        BY <2>2
      <4> QED BY <2>4, <2>5, <2>7, <4>1, <4>2, <4>3
    <3>2. \A i \in 1 .. Len(inbox') : inbox'[i] = Len(m_buffer') + i
      BY <2>4, <2>5, <2>6
    <3> QED BY <2>4, <2>5, <3>1, <3>2 DEF BodyExact
  <2> QED BY <2>1, <2>8 DEF RequestInv, RequestOnce, Phases
<1>10. CASE Body /\ phase # "body"
  BY <1>10 DEF Body, Receives, RequestInv, RequestOnce, Phases
<1>11. CASE BodyCompletion /\ phase # "body"
  <2>1. m_request = "moved" /\ CompletedRequest(request[1]) /\ request' = request
    BY <1>11 DEF BodyCompletion, Receives, HeldInv
  <2>2. given' = given /\ phase' = "crashed"
    BY <2>1 DEF CompletedRequest
  <2>3. EmptyPost(request'[1])
    BY <1>11, <2>1, <2>2, HeldStep DEF HeldInv
  <2> QED BY <2>1, <2>2, <2>3 DEF RequestInv, RequestOnce, Phases
<1>5. CASE BodyCompletion /\ phase = "body"
  <2>1. /\ phase = "body" /\ inbox = <<>> /\ BodyExact /\ given = <<>>
        /\ phase' = "handling" /\ request' = request
        /\ given' = Append(given, m_buffer)
    BY <1>5 DEF BodyCompletion, CompletedRequest, HandleHttpRequest, RequestInv, BodyExact
  <2>2. given' = <<m_buffer>>
    BY <2>1
  <2>3. LengthOf \in Nat /\ m_buffer \in Seq(Nat) /\ Len(m_buffer) = LengthOf
        /\ \A i \in 1 .. LengthOf : m_buffer[i] = i
    BY <2>1 DEF BodyExact
  <2>4. request'[1].contentLength = LengthOf
    BY <2>1 DEF LengthOf
  <2> QED BY <2>1, <2>2, <2>3, <2>4, GivenWhole
<1>6. CASE Handling
  BY <1>1, <1>6, RequestKept
     DEF Handling, HandlerReturns, HandlerAnswers, NotFound, AsksToWrite, NothingToAnswer,
         Handled, Phases
<1>7. CASE HttpWriteable \/ Scan \/ Aborts
  BY <1>1, <1>7, RequestKept DEF HttpWriteable, WritesPacket, Scan, Aborts, Phases
<1>8. CASE UNCHANGED httpVars
  BY <1>1, <1>8, RequestKept DEF httpVars
<1>9. ASSUME NEW token \in Tokens, NEW url \in RequestUrls, NEW n \in 0 .. MaxBody, NEW u, NEW m,
             NEW h \in BOOLEAN,
             NewConnection([url |-> u, method |-> m, header |-> h, contentLength |-> n])
      PROVE  RequestInv'
  <2>1. [url |-> u, method |-> m, header |-> h, contentLength |-> n].contentLength \in Nat
    BY HttpAssumption
  <2> QED BY <1>3, <1>9, <2>1
<1> QED BY <1>2, <1>4, <1>5, <1>6, <1>7, <1>8, <1>9, <1>10, <1>11 DEF HttpNext

-----------------------------------------------------------------------------
(* HttpConnection: the handlers *)

(* What occurs in a sequence, and that nothing occurs twice. *)
Elements(s) == {s[i] : i \in 1 .. Len(s)}
Distinct(s) == \A i, j \in 1 .. Len(s) : s[i] = s[j] => i = j

(* What occurs in two sequences occurs in their concatenation. *)
LEMMA ElementsConcat ==
    ASSUME NEW S, NEW s \in Seq(S), NEW t \in Seq(S)
    PROVE  Elements(s \o t) = Elements(s) \cup Elements(t)
<1> DEFINE n == Len(s)
<1>1. n \in Nat /\ Len(t) \in Nat /\ Len(s \o t) = n + Len(t)
  OBVIOUS
<1>2. \A i \in 1 .. n + Len(t) : (s \o t)[i] = IF i <= n THEN s[i] ELSE t[i - n]
  OBVIOUS
<1> HIDE DEF n
<1>3. ASSUME NEW x \in Elements(s \o t) PROVE x \in Elements(s) \cup Elements(t)
  <2>1. PICK i \in 1 .. n + Len(t) : x = (s \o t)[i]
    BY <1>1 DEF Elements
  <2>2. CASE i <= n
    <3>1. i \in 1 .. n /\ x = s[i]
      BY <1>1, <1>2, <2>1, <2>2
    <3> QED BY <3>1 DEF Elements, n
  <2>3. CASE ~(i <= n)
    <3>1. i - n \in 1 .. Len(t) /\ x = t[i - n]
      BY <1>1, <1>2, <2>1, <2>3
    <3> QED BY <3>1 DEF Elements
  <2> QED BY <2>2, <2>3
<1>4. ASSUME NEW i \in 1 .. n PROVE s[i] \in Elements(s \o t)
  <2>1. i \in 1 .. n + Len(t) /\ (s \o t)[i] = s[i]
    BY <1>1, <1>2
  <2> QED BY <1>1, <2>1 DEF Elements
<1>5. ASSUME NEW i \in 1 .. Len(t) PROVE t[i] \in Elements(s \o t)
  <2>1. n + i \in 1 .. n + Len(t) /\ (s \o t)[n + i] = t[i]
    <3>1. n + i \in 1 .. n + Len(t) /\ ~(n + i <= n) /\ (n + i) - n = i
      BY <1>1
    <3> QED BY <1>2, <3>1
  <2> QED BY <1>1, <2>1 DEF Elements
<1> QED BY <1>3, <1>4, <1>5 DEF Elements, n

(* Sequences without repetitions that have nothing in common. *)
LEMMA DistinctConcat ==
    ASSUME NEW S, NEW s \in Seq(S), NEW t \in Seq(S), Distinct(s), Distinct(t),
           Elements(s) \cap Elements(t) = {}
    PROVE  Distinct(s \o t)
<1> DEFINE n == Len(s)
<1>1. n \in Nat /\ Len(t) \in Nat /\ Len(s \o t) = n + Len(t)
  OBVIOUS
<1>2. \A i \in 1 .. n + Len(t) : (s \o t)[i] = IF i <= n THEN s[i] ELSE t[i - n]
  OBVIOUS
<1> HIDE DEF n
<1>3. SUFFICES ASSUME NEW i \in 1 .. n + Len(t), NEW j \in 1 .. n + Len(t),
                      (s \o t)[i] = (s \o t)[j]
               PROVE  i = j
  BY <1>1 DEF Distinct
<1>4. ASSUME NEW a \in 1 .. n + Len(t)
      PROVE  \/ a <= n /\ a \in 1 .. n /\ (s \o t)[a] = s[a] /\ s[a] \in Elements(s)
             \/ a > n /\ a - n \in 1 .. Len(t) /\ (s \o t)[a] = t[a - n] /\ t[a - n] \in Elements(t)
  <2>1. CASE a <= n
    <3>1. a \in 1 .. n
      BY <1>1, <2>1
    <3> QED BY <1>2, <2>1, <3>1 DEF Elements, n
  <2>2. CASE ~(a <= n)
    <3>1. a - n \in 1 .. Len(t) /\ a > n
      BY <1>1, <2>2
    <3> QED BY <1>2, <2>2, <3>1 DEF Elements
  <2> QED BY <2>1, <2>2
<1>5. CASE i <= n /\ j <= n
  <2>1. i \in 1 .. n /\ j \in 1 .. n /\ s[i] = s[j]
    BY <1>1, <1>2, <1>3, <1>5
  <2> QED BY <2>1 DEF Distinct, n
<1>6. CASE i > n /\ j > n
  <2>1. i - n \in 1 .. Len(t) /\ j - n \in 1 .. Len(t) /\ t[i - n] = t[j - n]
    BY <1>1, <1>2, <1>3, <1>6
  <2>2. i - n = j - n
    BY <2>1 DEF Distinct
  <2> QED BY <1>1, <2>2
<1>7. CASE ~(i <= n /\ j <= n) /\ ~(i > n /\ j > n)
  <2>1. \/ i <= n /\ j > n
        \/ i > n /\ j <= n
    BY <1>1, <1>7
  <2>2. \A a, b \in 1 .. n + Len(t) : a <= n /\ b > n => (s \o t)[a] # (s \o t)[b]
    <3> TAKE a, b \in 1 .. n + Len(t)
    <3> HAVE a <= n /\ b > n
    <3>1. (s \o t)[a] \in Elements(s)
      BY <1>1, <1>4
    <3>2. (s \o t)[b] \in Elements(t)
      BY <1>1, <1>4
    <3> QED BY <3>1, <3>2
  <2> QED BY <1>3, <2>1, <2>2
<1> QED BY <1>5, <1>6, <1>7

(* f[i] is the concatenation of the first i parts of q, for i up to n. *)
Joins(f, q, n) ==
    /\ n >= 1 => f[1] = q[1]
    /\ \A i \in 1 .. n : i # 1 => f[i] = f[i - 1] \o q[i]

(* There is such a function, up to the end: a first number for which there *)
(* is none would have a predecessor for which there is one.                *)
LEMMA JoinedExists ==
    ASSUME NEW S, NEW q \in Seq(Seq(S)), q # <<>>
    PROVE  \E f \in [1 .. Len(q) -> Seq(S)] : Joins(f, q, Len(q))
<1> DEFINE N == Len(q)
           Good(n) == \E f \in [1 .. n -> Seq(S)] : Joins(f, q, n)
           Bad == {n \in 1 .. N : ~Good(n)}
<1>1. N \in Nat \ {0} /\ \A i \in 1 .. N : q[i] \in Seq(S)
  OBVIOUS
<1>2. SUFFICES ASSUME Bad # {} PROVE FALSE
  <2>1. N \in 1 .. N
    BY <1>1
  <2>2. N \notin Bad
    BY <1>2
  <2> QED BY <2>1, <2>2
<1> HIDE DEF N
<1> DEFINE m == Min(Bad)
<1>3. m \in Bad /\ \A y \in Bad : m <= y
  <2>1. Bad \subseteq Nat
    BY <1>1
  <2> HIDE DEF Bad
  <2> QED BY <1>2, <2>1, MinFirst
<1> HIDE DEF m
<1>4. m \in 1 .. N /\ m \in Nat /\ ~Good(m)
  BY <1>1, <1>3
<1>5. CASE m = 1
  <2> DEFINE g == [i \in 1 .. 1 |-> q[1]]
  <2>1. g \in [1 .. 1 -> Seq(S)]
    BY <1>1
  <2>2. Joins(g, q, 1)
    BY DEF Joins
  <2> HIDE DEF g
  <2>3. Good(1)
    BY <2>1, <2>2
  <2> HIDE DEF Good
  <2> QED BY <1>4, <1>5, <2>3
<1>6. CASE m # 1
  <2>1. m - 1 \in 1 .. N /\ ~(m <= m - 1)
    BY <1>1, <1>4, <1>6
  <2>2. Good(m - 1)
    BY <1>3, <2>1
  <2>3. PICK f \in [1 .. m - 1 -> Seq(S)] : Joins(f, q, m - 1)
    BY <2>2
  <2> DEFINE g == [i \in 1 .. m |-> IF i < m THEN f[i] ELSE f[m - 1] \o q[m]]
  <2>4. \A i \in 1 .. m - 1 : i \in 1 .. m /\ i < m
    BY <1>4
  <2>5. m - 1 \in 1 .. m - 1 /\ 1 \in 1 .. m - 1 /\ m \in 1 .. m
    BY <1>1, <1>4, <1>6
  <2>6. f[m - 1] \o q[m] \in Seq(S)
    BY <1>1, <1>4, <2>3, <2>5
  <2>7. g \in [1 .. m -> Seq(S)]
    <3>1. \A i \in 1 .. m : i < m => i \in 1 .. m - 1
      BY <1>4
    <3>2. \A i \in 1 .. m : (IF i < m THEN f[i] ELSE f[m - 1] \o q[m]) \in Seq(S)
      BY <2>3, <2>6, <3>1
    <3> QED BY <3>2
  <2>8. g[m] = f[m - 1] \o q[m] /\ \A i \in 1 .. m - 1 : g[i] = f[i]
    <3>1. ~(m < m)
      BY <1>4
    <3>2. \A i \in 1 .. m : g[i] = IF i < m THEN f[i] ELSE f[m - 1] \o q[m]
      OBVIOUS
    <3> HIDE DEF g
    <3>3. g[m] = f[m - 1] \o q[m]
      BY <2>5, <3>1, <3>2
    <3>4. \A i \in 1 .. m - 1 : g[i] = f[i]
      BY <2>4, <3>2
    <3> QED BY <3>3, <3>4
  <2> HIDE DEF g
  <2>9. ASSUME NEW i \in 1 .. m, i # 1 PROVE g[i] = g[i - 1] \o q[i]
    <3>1. i - 1 \in 1 .. m - 1
      BY <1>4, <2>9
    <3>2. CASE i = m
      BY <2>8, <3>1, <3>2
    <3>3. CASE i # m
      <4>1. i \in 1 .. m - 1
        BY <1>4, <3>3
      <4> QED BY <2>3, <2>8, <2>9, <3>1, <4>1 DEF Joins
    <3> QED BY <3>2, <3>3
  <2>10. g[1] = q[1]
    <3>1. f[1] = q[1]
      BY <1>4, <1>6, <2>3 DEF Joins
    <3> QED BY <2>5, <2>8, <3>1
  <2>11. Joins(g, q, m)
    BY <2>9, <2>10 DEF Joins
  <2>12. Good(m)
    BY <2>7, <2>11
  <2> HIDE DEF Good
  <2> QED BY <1>4, <2>12
<1> QED BY <1>5, <1>6

(* FlattenSeq is made in this way. *)
LEMMA FlattenJoined ==
    ASSUME NEW S, NEW q \in Seq(Seq(S)), q # <<>>
    PROVE  \E f \in [1 .. Len(q) -> Seq(S)] : Joins(f, q, Len(q)) /\ FlattenSeq(q) = f[Len(q)]
<1> DEFINE N == Len(q)
           Is(g) == g = [i \in 1 .. N |-> IF i = 1 THEN q[i] ELSE g[i - 1] \o q[i]]
           F == CHOOSE g : Is(g)
<1>1. N \in Nat \ {0} /\ \A i \in 1 .. N : q[i] \in Seq(S)
  OBVIOUS
<1>2. PICK f \in [1 .. N -> Seq(S)] : Joins(f, q, N)
  BY JoinedExists
<1>3. Is(f)
  <2>1. \A i \in 1 .. N : f[i] = IF i = 1 THEN q[i] ELSE f[i - 1] \o q[i]
    <3>1. 1 \in 1 .. N /\ N >= 1
      BY <1>1
    <3> QED BY <1>2, <3>1 DEF Joins
  <2> QED BY <2>1
<1>4. Is(F)
  <2> HIDE DEF Is
  <2> QED BY <1>3
<1>5. FlattenSeq(q) = F[N]
  BY <1>1 DEF FlattenSeq
<1> HIDE DEF F
<1>6. \A i \in 1 .. N : F[i] = f[i]
  <2> DEFINE Bad == {i \in 1 .. N : F[i] # f[i]}
             m == Min(Bad)
  <2>1. SUFFICES ASSUME Bad # {} PROVE FALSE
    OBVIOUS
  <2>2. m \in Bad /\ \A y \in Bad : m <= y
    <3>1. Bad \subseteq Nat
      BY <1>1
    <3> HIDE DEF Bad
    <3> QED BY <2>1, <3>1, MinFirst
  <2> HIDE DEF m
  <2>3. m \in 1 .. N /\ F[m] # f[m]
    BY <2>2
  <2>4. F[m] = IF m = 1 THEN q[m] ELSE F[m - 1] \o q[m]
    BY <1>4, <2>3
  <2>5. f[m] = IF m = 1 THEN q[m] ELSE f[m - 1] \o q[m]
    BY <1>3, <2>3
  <2>6. m # 1 => F[m - 1] = f[m - 1]
    <3> HAVE m # 1
    <3>1. m - 1 \in 1 .. N /\ ~(m <= m - 1)
      BY <1>1, <2>3
    <3> QED BY <2>2, <3>1
  <2> QED BY <2>3, <2>4, <2>5, <2>6
<1>7. N \in 1 .. N
  BY <1>1
<1> QED BY <1>2, <1>5, <1>6, <1>7

(* Nothing occurs twice in a part or in two parts. *)
PartsDistinct(q) ==
    /\ \A i \in 1 .. Len(q) : Distinct(q[i])
    /\ \A i, j \in 1 .. Len(q) : i # j => Elements(q[i]) \cap Elements(q[j]) = {}

(* What occurs in the whole is what occurs in a part; nothing occurs twice *)
(* in it when nothing occurs twice in the parts.                           *)
LEMMA FlattenExact ==
    ASSUME NEW S, NEW q \in Seq(Seq(S))
    PROVE  /\ FlattenSeq(q) \in Seq(S)
           /\ Elements(FlattenSeq(q)) = UNION {Elements(q[i]) : i \in 1 .. Len(q)}
           /\ PartsDistinct(q) => Distinct(FlattenSeq(q))
<1>1. CASE q = <<>>
  <2>1. FlattenSeq(q) = <<>> /\ Len(q) = 0
    BY <1>1 DEF FlattenSeq
  <2> QED BY <2>1 DEF Elements, Distinct
<1>2. CASE q # <<>>
  <2> DEFINE N == Len(q)
             Upto(n) == UNION {Elements(q[i]) : i \in 1 .. n}
  <2>1. N \in Nat \ {0} /\ \A i \in 1 .. N : q[i] \in Seq(S)
    BY <1>2
  <2>2. PICK f \in [1 .. N -> Seq(S)] : Joins(f, q, N) /\ FlattenSeq(q) = f[N]
    BY <1>2, FlattenJoined
  <2>3. 1 \in 1 .. N /\ N \in 1 .. N /\ N >= 1
    BY <2>1
  <2>4. f[1] = q[1] /\ \A i \in 1 .. N : i # 1 => f[i] = f[i - 1] \o q[i]
    BY <2>2, <2>3 DEF Joins
  <2> HIDE DEF N
  <2> DEFINE Good(n) == Elements(f[n]) = Upto(n) /\ (PartsDistinct(q) => Distinct(f[n]))
             Bad == {n \in 1 .. N : ~Good(n)}
             m == Min(Bad)
  <2>5. Bad = {}
    <3>1. SUFFICES ASSUME Bad # {} PROVE FALSE
      OBVIOUS
    <3>2. m \in Bad /\ \A y \in Bad : m <= y
      <4>1. Bad \subseteq Nat
        BY <2>1
      <4> HIDE DEF Bad
      <4> QED BY <3>1, <4>1, MinFirst
    <3> HIDE DEF m
    <3>3. m \in 1 .. N /\ ~Good(m)
      BY <3>2
    <3>4. CASE m = 1
      <4>1. Upto(1) = Elements(q[1])
        OBVIOUS
      <4>2. PartsDistinct(q) => Distinct(q[1])
        BY <2>3 DEF PartsDistinct, N
      <4> QED BY <2>4, <3>3, <3>4, <4>1, <4>2
    <3>5. CASE m # 1
      <4>1. m - 1 \in 1 .. N /\ ~(m <= m - 1) /\ m \in Nat
        BY <2>1, <3>3, <3>5
      <4>2. Good(m - 1)
        BY <3>2, <4>1
      <4>3. f[m] = f[m - 1] \o q[m] /\ f[m - 1] \in Seq(S) /\ q[m] \in Seq(S)
        BY <2>1, <2>2, <2>4, <3>3, <3>5, <4>1
      <4>4. Upto(m) = Upto(m - 1) \cup Elements(q[m])
        <5>1. 1 .. m = (1 .. m - 1) \cup {m}
          BY <4>1, <3>3
        <5> QED BY <5>1
      <4>5. Elements(f[m]) = Upto(m)
        <5>1. Elements(f[m]) = Elements(f[m - 1]) \cup Elements(q[m])
          BY <4>3, ElementsConcat
        <5>2. Elements(f[m - 1]) = Upto(m - 1)
          BY <4>2
        <5> QED BY <4>4, <5>1, <5>2
      <4>6. ASSUME PartsDistinct(q) PROVE Distinct(f[m])
        <5>1. Distinct(f[m - 1]) /\ Distinct(q[m])
          BY <3>3, <4>2, <4>6 DEF PartsDistinct, N
        <5>2. \A i \in 1 .. m - 1 : i \in 1 .. N /\ i # m
          BY <2>1, <3>3
        <5>3. \A i \in 1 .. m - 1 : Elements(q[i]) \cap Elements(q[m]) = {}
          BY <3>3, <4>6, <5>2 DEF PartsDistinct, N
        <5>4. Elements(f[m - 1]) = Upto(m - 1)
          BY <4>2
        <5>5. Elements(f[m - 1]) \cap Elements(q[m]) = {}
          BY <5>3, <5>4
        <5> QED BY <4>3, <5>1, <5>5, DistinctConcat
      <4> QED BY <3>3, <4>5, <4>6
    <3> QED BY <3>4, <3>5
  <2>6. Good(N)
    BY <2>3, <2>5
  <2> QED BY <2>2, <2>3, <2>6 DEF N
<1> QED BY <1>1, <1>2

-----------------------------------------------------------------------------
(* The entries of the handlers and what was registered. *)
Entry == [url : Urls, method : Methods, callbacks : Seq(Nat)]
Entries == 1 .. Len(httpHandlers)

HandlersType ==
    /\ httpHandlers \in Seq(Entry)
    /\ registered \in Seq(Urls \X Methods)

(* A url and a method have one entry, with callbacks that were registered  *)
(* for them, each once.                                                    *)
EntryOK(i) ==
    LET h == httpHandlers[i]
    IN  /\ h.callbacks # <<>> /\ Distinct(h.callbacks)
        /\ \A c \in Elements(h.callbacks) :
              c \in 1 .. Len(registered) /\ registered[c] = <<h.url, h.method>>

EntriesExact ==
    /\ \A i \in Entries : EntryOK(i)
    /\ \A i, j \in Entries : httpHandlers[i].url = httpHandlers[j].url
                             /\ httpHandlers[i].method = httpHandlers[j].method => i = j
    /\ \A c \in 1 .. Len(registered) : \E i \in Entries : c \in Elements(httpHandlers[i].callbacks)

HandlersInv == HandlersType /\ EntriesExact

(* The callbacks of some entries are those registered for the entries.     *)
LEMMA CallbacksExact ==
    ASSUME HandlersInv, NEW E \in SUBSET Entries
    PROVE  /\ CallbacksOf(E) \in Seq(Nat)
           /\ Elements(CallbacksOf(E)) = UNION {Elements(httpHandlers[i].callbacks) : i \in E}
           /\ Distinct(CallbacksOf(E))
<1> DEFINE N == Len(httpHandlers)
           q == [i \in 1 .. N |-> IF i \in E THEN httpHandlers[i].callbacks ELSE <<>>]
<1>1. N \in Nat /\ \A i \in 1 .. N : httpHandlers[i] \in Entry /\ httpHandlers[i].callbacks \in Seq(Nat)
  <2>1. httpHandlers \in Seq(Entry)
    BY DEF HandlersInv, HandlersType
  <2>2. N \in Nat /\ \A i \in 1 .. N : httpHandlers[i] \in Entry
    BY <2>1
  <2> QED BY <2>2 DEF Entry
<1>2. \A i \in 1 .. N : (IF i \in E THEN httpHandlers[i].callbacks ELSE <<>>) \in Seq(Nat)
  BY <1>1
<1>3. q \in Seq(Seq(Nat)) /\ Len(q) = N
      /\ \A i \in 1 .. N : q[i] = IF i \in E THEN httpHandlers[i].callbacks ELSE <<>>
  BY <1>1, <1>2
<1>4. CallbacksOf(E) = FlattenSeq(q)
  BY DEF CallbacksOf
<1> HIDE DEF q
<1>5. Elements(<<>>) = {} /\ Distinct(<<>>)
  BY DEF Elements, Distinct
<1>6. UNION {Elements(q[i]) : i \in 1 .. Len(q)} = UNION {Elements(httpHandlers[i].callbacks) : i \in E}
  <2>1. E \subseteq 1 .. N
    BY DEF Entries
  <2>2. \A i \in 1 .. N : Elements(q[i]) = IF i \in E THEN Elements(httpHandlers[i].callbacks) ELSE {}
    BY <1>3, <1>5
  <2> QED BY <1>3, <2>1, <2>2
<1>7. PartsDistinct(q)
  <2>1. ASSUME NEW i \in 1 .. N PROVE Distinct(q[i])
    BY <1>3, <1>5 DEF HandlersInv, EntriesExact, Entries, EntryOK
  <2>2. ASSUME NEW i \in 1 .. N, NEW j \in 1 .. N, NEW c, c \in Elements(q[i]), c \in Elements(q[j])
        PROVE  i = j
    <3>1. i \in E /\ j \in E /\ q[i] = httpHandlers[i].callbacks /\ q[j] = httpHandlers[j].callbacks
      BY <1>3, <1>5, <2>2
    <3>2. registered[c] = <<httpHandlers[i].url, httpHandlers[i].method>>
          /\ registered[c] = <<httpHandlers[j].url, httpHandlers[j].method>>
      BY <2>2, <3>1 DEF HandlersInv, EntriesExact, Entries, EntryOK
    <3>3. httpHandlers[i].url = httpHandlers[j].url /\ httpHandlers[i].method = httpHandlers[j].method
      BY <3>2
    <3> QED BY <3>3 DEF HandlersInv, EntriesExact, Entries
  <2> QED BY <1>3, <2>1, <2>2 DEF PartsDistinct
<1> QED BY <1>3, <1>4, <1>6, <1>7, FlattenExact

(* The callbacks that were registered for a request. *)
Matching(r) == {c \in 1 .. Len(registered) :
                   MatchInclusiveUrl(r.url, registered[c][1]) /\ registered[c][2] = r.method}
Wild(r) == {c \in 1 .. Len(registered) :
                   registered[c][1] = Wildcard /\ registered[c][2] = r.method}
Due(r) == IF Matching(r) # {} THEN Matching(r) ELSE Wild(r)

(* The search finds them. *)
LEMMA FoundExact ==
    ASSUME HandlersInv, NEW r
    PROVE  Found(r) \in Seq(Nat) /\ Elements(Found(r)) = Due(r) /\ Distinct(Found(r))
<1> DEFINE M == {i \in Entries : MatchInclusiveUrl(r.url, httpHandlers[i].url)
                                 /\ httpHandlers[i].method = r.method}
           W == {i \in Entries : httpHandlers[i].url = Wildcard /\ httpHandlers[i].method = r.method}
           In(E) == UNION {Elements(httpHandlers[i].callbacks) : i \in E}
<1>1. Found(r) = CallbacksOf(IF M # {} THEN M ELSE W)
  BY DEF Found, Entries
<1>2. M \in SUBSET Entries /\ W \in SUBSET Entries
  OBVIOUS
<1>3. ASSUME NEW i \in Entries
      PROVE  /\ \E c : c \in Elements(httpHandlers[i].callbacks)
             /\ \A c \in Elements(httpHandlers[i].callbacks) :
                   /\ c \in 1 .. Len(registered)
                   /\ registered[c][1] = httpHandlers[i].url
                   /\ registered[c][2] = httpHandlers[i].method
  <2>1. EntryOK(i) /\ httpHandlers[i] \in Entry
    BY DEF HandlersInv, HandlersType, EntriesExact, Entries
  <2>2. httpHandlers[i].callbacks \in Seq(Nat) /\ httpHandlers[i].callbacks # <<>>
    BY <2>1 DEF EntryOK, Entry
  <2>3. 1 \in 1 .. Len(httpHandlers[i].callbacks)
    BY <2>2
  <2>4. httpHandlers[i].callbacks[1] \in Elements(httpHandlers[i].callbacks)
    BY <2>3 DEF Elements
  <2> QED BY <2>1, <2>4 DEF EntryOK
<1>4. \A c \in 1 .. Len(registered) : \E i \in Entries : c \in Elements(httpHandlers[i].callbacks)
  BY DEF HandlersInv, EntriesExact
<1>5. In(M) = Matching(r) /\ (M = {} <=> Matching(r) = {})
  BY <1>3, <1>4 DEF Matching
<1>6. In(W) = Wild(r)
  BY <1>3, <1>4 DEF Wild
<1> HIDE DEF M, W
<1>7. CASE M # {}
  BY <1>1, <1>2, <1>5, <1>7, CallbacksExact DEF Due
<1>8. CASE M = {}
  <2>1. Found(r) = CallbacksOf(W) /\ Due(r) = Wild(r)
    BY <1>1, <1>5, <1>8 DEF Due
  <2> QED BY <1>2, <1>6, <2>1, CallbacksExact
<1> QED BY <1>7, <1>8

(* handle() keeps the entries exact. *)
LEMMA HandleKeeps ==
    ASSUME HandlersInv, NEW url \in Urls, NEW method \in Methods, Handle(url, method)
    PROVE  HandlersInv'
<1> DEFINE c0 == Len(registered) + 1
           same == SameEntry(url, method)
<1>1. httpHandlers \in Seq(Entry) /\ registered \in Seq(Urls \X Methods) /\ EntriesExact
  BY DEF HandlersInv, HandlersType
<1>2. Len(registered) \in Nat /\ Len(httpHandlers) \in Nat /\ c0 \in Nat
  BY <1>1
<1>3. /\ registered' \in Seq(Urls \X Methods) /\ Len(registered') = c0
      /\ registered'[c0] = <<url, method>>
      /\ \A c \in 1 .. Len(registered) : registered'[c] = registered[c] /\ c \in 1 .. c0 /\ c # c0
  BY <1>1, <1>2 DEF Handle, Registers
<1>4. c0 \in 1 .. c0 /\ \A c \in 1 .. c0 : c = c0 \/ c \in 1 .. Len(registered)
  BY <1>2
<1>5. \A i \in Entries : httpHandlers[i] \in Entry
  BY <1>1 DEF Entries
<1>6. same = {i \in Entries : httpHandlers[i].url = url /\ httpHandlers[i].method = method}
  BY <1>1 DEF SameEntry, Entries
<1> HIDE DEF c0, same
<1>7. ASSUME NEW i \in Entries
      PROVE  /\ httpHandlers[i].callbacks \in Seq(Nat) /\ httpHandlers[i].callbacks # <<>>
             /\ httpHandlers[i].url \in Urls /\ httpHandlers[i].method \in Methods
             /\ Distinct(httpHandlers[i].callbacks)
             /\ \A c \in Elements(httpHandlers[i].callbacks) :
                   /\ c \in 1 .. Len(registered) /\ c \in 1 .. c0 /\ c # c0
                   /\ registered'[c] = <<httpHandlers[i].url, httpHandlers[i].method>>
  <2>1. EntryOK(i)
    BY <1>1 DEF EntriesExact
  <2>2. httpHandlers[i] \in Entry
    BY <1>5
  <2> QED BY <1>3, <2>1, <2>2 DEF EntryOK, Entry
<1>8. CASE same # {}
  <2> DEFINE New(i) == IF i \in same
                       THEN [httpHandlers[i] EXCEPT !.callbacks = Append(@, c0)]
                       ELSE httpHandlers[i]
  <2>1. httpHandlers' = [i \in Entries |-> New(i)]
    BY <1>1, <1>8 DEF Handle, Entries, c0, same
  <2>2. ASSUME NEW i \in Entries
        PROVE  /\ New(i) \in Entry
               /\ New(i).url = httpHandlers[i].url /\ New(i).method = httpHandlers[i].method
               /\ New(i).callbacks = IF i \in same THEN Append(httpHandlers[i].callbacks, c0)
                                                   ELSE httpHandlers[i].callbacks
    <3>1. Append(httpHandlers[i].callbacks, c0) \in Seq(Nat)
      BY <1>2, <1>7
    <3> QED BY <1>5, <3>1 DEF Entry
  <2> HIDE DEF New
  <2>3. httpHandlers' \in Seq(Entry) /\ Len(httpHandlers') = Len(httpHandlers)
        /\ Entries' = Entries /\ \A i \in Entries : httpHandlers'[i] = New(i)
    BY <1>2, <2>1, <2>2 DEF Entries
  <2>4. ASSUME NEW i \in Entries
        PROVE  /\ New(i).callbacks \in Seq(Nat) /\ New(i).callbacks # <<>> /\ Distinct(New(i).callbacks)
               /\ Elements(New(i).callbacks) =
                     Elements(httpHandlers[i].callbacks) \cup (IF i \in same THEN {c0} ELSE {})
    <3> DEFINE q == httpHandlers[i].callbacks
    <3>1. CASE i \in same
      <4>1. q \in Seq(Nat) /\ <<c0>> \in Seq(Nat) /\ Append(q, c0) = q \o <<c0>> /\ Distinct(q)
        <5>1. q \in Seq(Nat) /\ Distinct(q)
          BY <1>7
        <5> HIDE DEF q
        <5> QED BY <1>2, <5>1, AppendIsConcat
      <4>2. Elements(<<c0>>) = {c0} /\ Distinct(<<c0>>)
        BY DEF Elements, Distinct
      <4>3. c0 \notin Elements(q)
        BY <1>7
      <4> HIDE DEF q
      <4>4. Elements(Append(q, c0)) = Elements(q) \cup {c0} /\ Distinct(Append(q, c0))
        <5>1. Elements(q) \cap Elements(<<c0>>) = {}
          BY <4>2, <4>3
        <5>2. Distinct(q \o <<c0>>) /\ Elements(q \o <<c0>>) = Elements(q) \cup Elements(<<c0>>)
          <6>1. \A t \in Seq(Nat) : Distinct(t) /\ Elements(q) \cap Elements(t) = {} => Distinct(q \o t)
            BY <4>1, DistinctConcat
          <6>2. \A t \in Seq(Nat) : Elements(q \o t) = Elements(q) \cup Elements(t)
            BY <4>1, ElementsConcat
          <6> QED BY <4>1, <4>2, <5>1, <6>1, <6>2
        <5> QED BY <4>1, <4>2, <5>2
      <4>5. Append(q, c0) \in Seq(Nat) /\ Append(q, c0) # <<>>
        BY <1>2, <4>1
      <4> QED BY <2>2, <3>1, <4>4, <4>5 DEF q
    <3>2. CASE i \notin same
      BY <1>7, <2>2, <3>2
    <3> QED BY <3>1, <3>2
  <2>5. ASSUME NEW i \in Entries' PROVE EntryOK(i)'
    <3>1. i \in Entries /\ httpHandlers'[i] = New(i)
      BY <2>3
    <3>2. \A c \in Elements(New(i).callbacks) :
             c \in 1 .. Len(registered') /\ registered'[c] = <<New(i).url, New(i).method>>
      <4> TAKE c \in Elements(New(i).callbacks)
      <4>1. CASE c \in Elements(httpHandlers[i].callbacks)
        BY <1>3, <1>7, <2>2, <3>1, <4>1
      <4>2. CASE c \notin Elements(httpHandlers[i].callbacks)
        <5>1. i \in same /\ c = c0
          BY <2>4, <3>1, <4>2
        <5>2. httpHandlers[i].url = url /\ httpHandlers[i].method = method
          BY <1>6, <5>1
        <5> QED BY <1>3, <1>4, <2>2, <3>1, <5>1, <5>2
      <4> QED BY <4>1, <4>2
    <3> QED BY <2>4, <3>1, <3>2 DEF EntryOK
  <2>6. \A i, j \in Entries' : httpHandlers'[i].url = httpHandlers'[j].url
                               /\ httpHandlers'[i].method = httpHandlers'[j].method => i = j
    BY <1>1, <2>2, <2>3 DEF EntriesExact
  <2>7. \A c \in 1 .. Len(registered') : \E i \in Entries' : c \in Elements(httpHandlers'[i].callbacks)
    <3> TAKE c \in 1 .. Len(registered')
    <3>1. CASE c = c0
      <4>1. PICK i \in same : i \in Entries
        BY <1>6, <1>8
      <4> QED BY <2>3, <2>4, <3>1, <4>1
    <3>2. CASE c # c0
      <4>1. PICK i \in Entries : c \in Elements(httpHandlers[i].callbacks)
        BY <1>1, <1>3, <1>4, <3>2 DEF EntriesExact
      <4> QED BY <2>3, <2>4, <4>1
    <3> QED BY <3>1, <3>2
  <2> QED BY <1>3, <2>3, <2>5, <2>6, <2>7 DEF HandlersInv, HandlersType, EntriesExact
<1>9. CASE same = {}
  <2> DEFINE new == [url |-> url, method |-> method, callbacks |-> <<c0>>]
             n == Len(httpHandlers)
  <2>1. httpHandlers' = Append(httpHandlers, new)
    BY <1>9 DEF Handle, c0, same
  <2>2. new \in Entry /\ new.url = url /\ new.method = method /\ new.callbacks = <<c0>>
    BY <1>2 DEF Entry
  <2> HIDE DEF new
  <2>3. /\ httpHandlers' \in Seq(Entry) /\ Len(httpHandlers') = n + 1
        /\ httpHandlers'[n + 1] = new
        /\ \A i \in 1 .. n : httpHandlers'[i] = httpHandlers[i]
    BY <1>1, <1>2, <2>1, <2>2
  <2>4. n + 1 \in Entries' /\ \A i \in Entries' : i = n + 1 \/ i \in Entries
    BY <1>2, <2>3 DEF Entries
  <2>5. \A i \in Entries : i \in Entries' /\ i # n + 1 /\ httpHandlers'[i] = httpHandlers[i]
    BY <1>2, <2>3 DEF Entries
  <2>6. Elements(<<c0>>) = {c0} /\ Distinct(<<c0>>) /\ <<c0>> # <<>>
    BY DEF Elements, Distinct
  <2> HIDE DEF n
  <2>7. ASSUME NEW i \in Entries' PROVE EntryOK(i)'
    <3>1. CASE i = n + 1
      BY <1>3, <1>4, <2>2, <2>3, <2>6, <3>1 DEF EntryOK
    <3>2. CASE i \in Entries
      BY <1>3, <1>7, <2>5, <3>2 DEF EntryOK
    <3> QED BY <2>4, <3>1, <3>2
  <2>8. \A i \in Entries : ~(httpHandlers[i].url = url /\ httpHandlers[i].method = method)
    BY <1>6, <1>9
  <2>9. \A i, j \in Entries' : httpHandlers'[i].url = httpHandlers'[j].url
                               /\ httpHandlers'[i].method = httpHandlers'[j].method => i = j
    <3> TAKE i, j \in Entries'
    <3>1. CASE i \in Entries /\ j \in Entries
      BY <1>1, <2>5, <3>1 DEF EntriesExact
    <3>2. CASE i = n + 1 /\ j \in Entries
      BY <2>2, <2>3, <2>5, <2>8, <3>2
    <3>3. CASE i \in Entries /\ j = n + 1
      BY <2>2, <2>3, <2>5, <2>8, <3>3
    <3> QED BY <2>4, <3>1, <3>2, <3>3
  <2>10. \A c \in 1 .. Len(registered') : \E i \in Entries' : c \in Elements(httpHandlers'[i].callbacks)
    <3> TAKE c \in 1 .. Len(registered')
    <3>1. CASE c = c0
      BY <2>2, <2>3, <2>4, <2>6, <3>1
    <3>2. CASE c # c0
      <4>1. PICK i \in Entries : c \in Elements(httpHandlers[i].callbacks)
        BY <1>1, <1>3, <1>4, <3>2 DEF EntriesExact
      <4> QED BY <2>5, <4>1
    <3> QED BY <3>1, <3>2
  <2> QED BY <1>3, <2>3, <2>7, <2>9, <2>10 DEF HandlersInv, HandlersType, EntriesExact
<1> QED BY <1>8, <1>9

-----------------------------------------------------------------------------
(* Those that were run and those still to be run are those registered. *)
Runs == phase \in {"handling", "answering"} =>
            Elements(ran \o toRun) = Due(request[1]) /\ Distinct(ran \o toRun)

RunsInv ==
    /\ phase \in Phases
    /\ HandlersInv
    /\ ran \in Seq(Nat) /\ toRun \in Seq(Nat)
    /\ phase \in {"new", "body"} => ran = <<>>
    /\ Runs

(* Runs, with what was registered written out. *)
LEMMA RunsMeans == ASSUME RunsInv PROVE RunsRegistered
<1> DEFINE r == request[1]
           called == ran \o toRun
<1>1. called \in Seq(Nat) /\ registered \in Seq(Urls \X Methods) /\ (phase \in {"handling", "answering"} =>
            Elements(called) = Due(r) /\ Distinct(called))
  BY DEF RunsInv, Runs, HandlersInv, HandlersType
<1>2. DOMAIN called = 1 .. Len(called) /\ DOMAIN registered = 1 .. Len(registered)
  BY <1>1
<1>3. ToSet(called) = Elements(called)
  BY <1>2 DEF ToSet, Elements
<1> QED BY <1>1, <1>2, <1>3 DEF RunsRegistered, Due, Matching, Wild, Distinct

(* Steps that neither register nor run. *)
LEMMA RunsKept ==
    ASSUME RunsInv, UNCHANGED <<handlerVars, ran, toRun, request>>, phase' \in Phases,
           phase' \in {"new", "body"} => phase \in {"new", "body"},
           phase' \in {"handling", "answering"} => phase \in {"handling", "answering"}
    PROVE  RunsInv'
<1>1. HandlersInv' = HandlersInv
  BY DEF handlerVars, HandlersInv, HandlersType, EntriesExact, Entries, EntryOK
<1>2. Due(request[1])' = Due(request[1])
  BY DEF handlerVars, Due, Matching, Wild
<1>3. Runs'
  BY <1>2 DEF RunsInv, Runs
<1> QED BY <1>1, <1>3 DEF RunsInv

(* A request is handed to those registered for it. *)
LEMMA RunsBegin ==
    ASSUME RunsInv, NEW r, phase \in {"new", "body"}, UNCHANGED <<handlerVars, ran>>,
           HandleHttpRequest(r), request'[1] = r
    PROVE  RunsInv'
<1>1. HandlersInv' = HandlersInv
  BY DEF handlerVars, HandlersInv, HandlersType, EntriesExact, Entries, EntryOK
<1>2. Due(r)' = Due(r)
  BY DEF handlerVars, Due, Matching, Wild
<1>3. ran' = <<>> /\ toRun' = Found(r) /\ phase' = "handling"
  BY DEF RunsInv, HandleHttpRequest
<1>4. Found(r) \in Seq(Nat) /\ Elements(Found(r)) = Due(r) /\ Distinct(Found(r))
  BY FoundExact DEF RunsInv
<1>5. ran' \o toRun' = Found(r)
  BY <1>3, <1>4
<1>6. Runs'
  BY <1>2, <1>4, <1>5 DEF Runs, Due, Matching, Wild, handlerVars
<1> QED BY <1>1, <1>3, <1>4, <1>6 DEF RunsInv, Phases

(* Every step keeps to those registered. *)
LEMMA RunsStep == ASSUME HeldInv, RunsInv, [HttpNext]_httpVars PROVE RunsInv'
<1> USE DEF requestVars
<1>1. phase \in Phases
  BY DEF RunsInv
<1>2. ASSUME NEW url \in Urls, NEW method \in Methods, Handle(url, method) PROVE RunsInv'
  <2>1. phase = "new" /\ phase' = "new" /\ UNCHANGED <<ran, toRun>>
    BY <1>2 DEF Handle, Registers
  <2> QED BY <1>2, <2>1, HandleKeeps DEF RunsInv, Runs
<1>3. ASSUME NEW r, NewConnection(r) PROVE RunsInv'
  <2>1. phase = "new" /\ request' = <<r>> /\ UNCHANGED <<handlerVars, ran>>
    BY <1>3 DEF NewConnection, Connects
  <2>2. CASE r.contentLength = 0
    <3>1. HandleHttpRequest(r) /\ request'[1] = r
      BY <1>3, <2>1, <2>2 DEF NewConnection, HandledAtOnce
    <3> QED BY <2>1, <3>1, RunsBegin
  <2>3. CASE r.contentLength # 0
    <3>1. phase' = "body" /\ toRun' = toRun
      BY <1>3, <2>3 DEF NewConnection
    <3>2. HandlersInv' = HandlersInv
      BY <2>1 DEF handlerVars, HandlersInv, HandlersType, EntriesExact, Entries, EntryOK
    <3> QED BY <2>1, <3>1, <3>2 DEF RunsInv, Runs, Phases
  <2> QED BY <2>2, <2>3
<1>4. CASE Body
  BY <1>1, <1>4, RunsKept DEF Body
<1>5. CASE BodyCompletion
  <2>1. Receives /\ CompletedRequest(request[1]) /\ UNCHANGED <<handlerVars, ran, request>>
    BY <1>5 DEF BodyCompletion
  <2>2. CASE m_request = "held"
    <3>1. phase = "body" /\ HandleHttpRequest(request[1])
      BY <2>1, <2>2 DEF Receives, CompletedRequest, HeldInv
    <3> QED BY <2>1, <3>1, RunsBegin
  <2>3. CASE m_request # "held"
    <3>1. phase' = "crashed" /\ toRun' = toRun
      BY <2>1, <2>3 DEF CompletedRequest
    <3> QED BY <2>1, <3>1, RunsKept DEF Phases
  <2> QED BY <2>2, <2>3
<1>6. CASE HandlerReturns
  <2>1. /\ phase = "handling" /\ phase' = "handling" /\ toRun # <<>>
        /\ ran \in Seq(Nat) /\ toRun \in Seq(Nat)
        /\ ran' = Append(ran, Head(toRun)) /\ toRun' = Tail(toRun)
        /\ UNCHANGED <<handlerVars, request>>
    BY <1>6 DEF HandlerReturns, RunsInv
  <2>2. ran' \in Seq(Nat) /\ toRun' \in Seq(Nat) /\ ran' \o toRun' = ran \o toRun
    <3>1. Head(toRun) \in Nat /\ Tail(toRun) \in Seq(Nat) /\ toRun = <<Head(toRun)>> \o Tail(toRun)
      BY <2>1
    <3>2. ran' = ran \o <<Head(toRun)>>
      BY <2>1, <3>1, AppendIsConcat
    <3>3. <<Head(toRun)>> \in Seq(Nat)
      BY <3>1
    <3>4. (ran \o <<Head(toRun)>>) \o Tail(toRun) = ran \o (<<Head(toRun)>> \o Tail(toRun))
      BY <2>1, <3>1, <3>3, ConcatAssociative
    <3> QED BY <2>1, <3>1, <3>2, <3>4
  <2>3. HandlersInv' = HandlersInv
    BY <2>1 DEF handlerVars, HandlersInv, HandlersType, EntriesExact, Entries, EntryOK
  <2>4. Due(request[1])' = Due(request[1])
    BY <2>1 DEF handlerVars, Due, Matching, Wild
  <2>5. Runs'
    BY <2>1, <2>2, <2>4 DEF RunsInv, Runs
  <2> QED BY <2>1, <2>2, <2>3, <2>5 DEF RunsInv, Phases
<1>7. CASE Handling /\ ~HandlerReturns
  BY <1>1, <1>7, RunsKept
     DEF Handling, HandlerAnswers, NotFound, AsksToWrite, NothingToAnswer, Handled, Phases
<1>8. CASE HttpWriteable \/ Scan \/ Aborts
  BY <1>1, <1>8, RunsKept DEF HttpWriteable, WritesPacket, Scan, Aborts, Phases
<1>9. CASE UNCHANGED httpVars
  BY <1>1, <1>9, RunsKept DEF httpVars
<1> QED BY <1>2, <1>3, <1>4, <1>5, <1>6, <1>7, <1>8, <1>9 DEF HttpNext

(* A request is given to the handlers once and with its whole body, no     *)
(* completion of a body but that of an empty POST finds it moved out, and  *)
(* every callback registered for it is run once (handle(),                 *)
(* handleHttpRequest(), completedRequest()).                               *)
THEOREM RequestHandledHolds == HttpSpec => []RequestHandled
<1>1. HttpInit => RequestInv /\ RunsInv
  <2> SUFFICES ASSUME HttpInit PROVE RequestInv /\ RunsInv
    OBVIOUS
  <2>1. RequestInv
    BY DEF HttpInit, RequestInv, RequestOnce, Phases
  <2>2. httpHandlers = <<>> /\ registered = <<>> /\ Entries = {} /\ 1 .. Len(registered) = {}
    BY DEF HttpInit, Entries
  <2>3. HandlersInv
    BY <2>2 DEF HandlersInv, HandlersType, EntriesExact
  <2> QED BY <2>1, <2>3 DEF HttpInit, RunsInv, Runs, Phases
<1>2. RequestInv /\ RunsInv => RequestHandled
  BY RunsMeans DEF RequestInv, RequestHandled
<1> QED BY <1>1, <1>2, HeldInvariance, RequestStep, RunsStep, PTL DEF HttpSpec

-----------------------------------------------------------------------------
(* HttpConnection: the types *)

SendType ==
    \A i \in 1 .. Len(m_sendList) :
        /\ m_sendList[i][1] \in 1 .. Len(answers)
        /\ m_sendList[i][2] \in 1 .. answers[m_sendList[i][1]].packets

HttpTypeInv ==
    /\ HttpTypeOK
    /\ Len(registered) <= MaxHandlers
    /\ phase # "new" => request # <<>>
    /\ m_sendList \in Seq(Nat \X Nat)
    /\ SendType

(* The search for callbacks returns callbacks. *)
LEMMA FoundTyped ==
    ASSUME HttpTypeOK, NEW r PROVE Found(r) \in Seq(Callbacks)
<1>1. ASSUME NEW E PROVE CallbacksOf(E) \in Seq(Callbacks)
  <2> DEFINE N == Len(httpHandlers)
             q == [i \in 1 .. N |-> IF i \in E THEN httpHandlers[i].callbacks ELSE <<>>]
             H == [url : Urls, method : Methods, callbacks : Seq(Callbacks)]
  <2>1. httpHandlers \in Seq(H)
    BY DEF HttpTypeOK
  <2>2. N \in Nat /\ \A i \in 1 .. N : httpHandlers[i] \in H
    <3> HIDE DEF H
    <3> QED BY <2>1
  <2>3. \A i \in 1 .. N : (IF i \in E THEN httpHandlers[i].callbacks ELSE <<>>) \in Seq(Callbacks)
    BY <2>2
  <2>4. q \in Seq(Seq(Callbacks))
    BY <2>2, <2>3
  <2> HIDE DEF q
  <2>5. FlattenSeq(q) \in Seq(Callbacks)
    BY <2>4, FlattenExact
  <2> QED BY <2>5 DEF CallbacksOf, q
<1> QED BY <1>1 DEF Found

(* An answer and its packets have their types. *)
LEMMA SendTyped ==
    ASSUME HttpTypeInv, NEW k \in 1 .. MaxPackets, NEW c \in DOMAIN HttpStatusCode,
           SendHttpResult(k, c)
    PROVE  /\ answers' \in Seq([packets : 1 .. MaxPackets, status : DOMAIN HttpStatusCode])
           /\ m_sendList' \in Seq(Nat \X Nat)
           /\ SendType'
<1> DEFINE A == [packets : 1 .. MaxPackets, status : DOMAIN HttpStatusCode]
           new == [packets |-> k, status |-> c]
           a == Len(answers)
           n == Len(m_sendList)
           pushed == [i \in 1 .. k |-> <<a + 1, i>>]
<1>1. answers \in Seq(A) /\ a \in Nat /\ new \in A /\ m_sendList \in Seq(Nat \X Nat) /\ n \in Nat
      /\ k \in Nat
  BY HttpAssumption DEF HttpTypeInv, HttpTypeOK
<1>2. answers' = Append(answers, new) /\ m_sendList' = m_sendList \o pushed
  BY DEF SendHttpResult
<1>3. pushed \in Seq(Nat \X Nat) /\ Len(pushed) = k /\ \A i \in 1 .. k : pushed[i] = <<a + 1, i>>
  <2>1. \A i \in 1 .. k : <<a + 1, i>> \in Nat \X Nat
    BY <1>1
  <2> QED BY <1>1, <2>1
<1>4. new.packets = k
  OBVIOUS
<1> HIDE DEF A, new, pushed
<1>5. /\ answers' \in Seq(A) /\ Len(answers') = a + 1 /\ answers'[a + 1] = new
      /\ \A i \in 1 .. a : answers'[i] = answers[i]
  BY <1>1, <1>2
<1>6. m_sendList' \in Seq(Nat \X Nat) /\ Len(m_sendList') = n + k
      /\ \A i \in 1 .. n + k : m_sendList'[i] = IF i <= n THEN m_sendList[i] ELSE pushed[i - n]
  <2>1. m_sendList \o pushed \in Seq(Nat \X Nat) /\ Len(m_sendList \o pushed) = n + k
        /\ \A i \in 1 .. n + k : (m_sendList \o pushed)[i] = IF i <= n THEN m_sendList[i] ELSE pushed[i - n]
    BY <1>1, <1>3, ConcatProperties
  <2> QED BY <1>2, <2>1
<1>7. ASSUME NEW i \in 1 .. n + k
      PROVE  /\ m_sendList'[i][1] \in 1 .. Len(answers')
             /\ m_sendList'[i][2] \in 1 .. answers'[m_sendList'[i][1]].packets
  <2>1. CASE i <= n
    <3>1. i \in 1 .. n /\ m_sendList'[i] = m_sendList[i]
      <4>1. i \in 1 .. n
        BY <1>1, <2>1
      <4> QED BY <1>6, <2>1, <4>1
    <3>2. m_sendList[i][1] \in 1 .. a /\ m_sendList[i][2] \in 1 .. answers[m_sendList[i][1]].packets
      BY <3>1 DEF HttpTypeInv, SendType
    <3>3. m_sendList[i][1] \in 1 .. a + 1
      BY <1>1, <3>2
    <3> QED BY <1>5, <3>1, <3>2, <3>3
  <2>2. CASE ~(i <= n)
    <3>1. i - n \in 1 .. k /\ m_sendList'[i] = <<a + 1, i - n>>
      <4>1. i - n \in 1 .. k
        BY <1>1, <2>2
      <4>2. m_sendList'[i] = pushed[i - n]
        BY <1>6, <2>2
      <4> QED BY <1>3, <4>1, <4>2
    <3>2. m_sendList'[i][1] = a + 1 /\ m_sendList'[i][2] = i - n /\ a + 1 \in 1 .. a + 1
      BY <1>1, <3>1
    <3> QED BY <1>4, <1>5, <3>1, <3>2
  <2> QED BY <2>1, <2>2
<1>8. SendType'
  BY <1>6, <1>7 DEF SendType
<1> QED BY <1>5, <1>6, <1>8 DEF A

(* Every step keeps the types. *)
LEMMA HttpTypeStep == ASSUME HttpTypeInv, [HttpNext]_httpVars PROVE HttpTypeInv'
<1> USE DEF handlerVars, requestVars, answerVars, writeVars
<1> DEFINE H == [url : Urls, method : Methods, callbacks : Seq(Callbacks)]
<1>1. HttpTypeOK /\ httpHandlers \in Seq(H)
  BY DEF HttpTypeInv, HttpTypeOK
<1>2. ASSUME NEW url \in Urls, NEW method \in Methods, Handle(url, method) PROVE HttpTypeInv'
  <2> DEFINE c0 == Len(registered) + 1
             same == SameEntry(url, method)
             new == [url |-> url, method |-> method, callbacks |-> <<c0>>]
             New(i) == IF i \in same THEN [httpHandlers[i] EXCEPT !.callbacks = Append(@, c0)]
                                     ELSE httpHandlers[i]
  <2>1. Registers(url, method)
        /\ httpHandlers' = IF same # {} THEN [i \in DOMAIN httpHandlers |-> New(i)]
                                        ELSE Append(httpHandlers, new)
    BY <1>2 DEF Handle
  <2>2. registered \in Seq(Urls \X Methods) /\ Len(registered) < MaxHandlers
        /\ registered' = Append(registered, <<url, method>>)
    BY <2>1 DEF Registers, HttpTypeInv, HttpTypeOK
  <2>3. registered' \in Seq(Urls \X Methods) /\ Len(registered') <= MaxHandlers /\ c0 \in Callbacks
    BY <2>2, HttpAssumption DEF Callbacks
  <2>4. <<c0>> \in Seq(Callbacks) /\ new \in H
    BY <2>3
  <2>5. \A i \in DOMAIN httpHandlers : New(i) \in H
    <3> TAKE i \in DOMAIN httpHandlers
    <3>1. httpHandlers[i] \in H
      <4> HIDE DEF H
      <4> QED BY <1>1
    <3>2. httpHandlers[i].callbacks \in Seq(Callbacks)
      BY <3>1
    <3>3. Append(httpHandlers[i].callbacks, c0) \in Seq(Callbacks)
      BY <2>3, <3>2
    <3> QED BY <3>1, <3>3
  <2> HIDE DEF H, New, new, same, c0
  <2>6. httpHandlers' \in Seq(H)
    <3>1. DOMAIN httpHandlers = 1 .. Len(httpHandlers) /\ Len(httpHandlers) \in Nat
      BY <1>1
    <3>2. [i \in 1 .. Len(httpHandlers) |-> New(i)] \in Seq(H)
      BY <2>5, <3>1
    <3> QED BY <1>1, <2>1, <2>4, <3>1, <3>2
  <2>7. UNCHANGED <<phase, toRun, ran, wantWritable, requestVars, answerVars, writeVars>>
    BY <2>1 DEF Registers
  <2> QED BY <2>3, <2>6, <2>7 DEF HttpTypeInv, HttpTypeOK, SendType, H
<1>3. ASSUME NEW r \in Requests, NewConnection(r) PROVE HttpTypeInv'
  <2>1. /\ request' = <<r>>
        /\ inbox' = <<0>> \/ inbox' = [i \in 1 .. r.contentLength |-> i]
        /\ bodyDue' \in BOOLEAN
        /\ phase' \in {"handling", "body"} /\ m_request' \in {"held", "moved"}
        /\ toRun' \in {Found(r), toRun}
        /\ UNCHANGED <<ran, m_buffer, wantWritable, handlerVars, answerVars, writeVars>>
    <3>1. bodyDue' \in BOOLEAN
      BY <1>3, Zenon DEF NewConnection, Connects
    <3> QED BY <1>3, <3>1 DEF NewConnection, Connects, HandledAtOnce, HandleHttpRequest
  <2>2. request' \in Seq(Requests) /\ Len(request') <= 1 /\ request' # <<>>
    BY <2>1
  <2>3. inbox' \in Seq(0 .. MaxBody)
    <3>1. r.contentLength \in 0 .. MaxBody
      BY DEF Requests
    <3>2. \A i \in 1 .. r.contentLength : i \in 0 .. MaxBody
      BY <3>1, HttpAssumption
    <3>3. r.contentLength \in Nat
      BY <3>1, HttpAssumption
    <3>4. [i \in 1 .. r.contentLength |-> i] \in [1 .. r.contentLength -> 0 .. MaxBody]
      BY <3>2
    <3> DEFINE f == [i \in 1 .. r.contentLength |-> i]
               S == 0 .. MaxBody
    <3>5. \E n \in Nat : f \in [1 .. n -> S]
      BY <3>3, <3>4
    <3>7. <<0>> \in Seq(S) /\ S = 0 .. MaxBody
      <4>1. 0 \in S
        BY HttpAssumption
      <4> HIDE DEF S
      <4>2. <<0>> \in Seq(S)
        BY <4>1
      <4> QED BY <4>2 DEF S
    <3>8. f = [i \in 1 .. r.contentLength |-> i]
      OBVIOUS
    <3> HIDE DEF f, S
    <3>6. f \in Seq(S)
      BY <3>5, SeqDef
    <3> QED BY <2>1, <3>6, <3>7, <3>8
  <2>4. toRun' \in Seq(Callbacks)
    BY <1>1, <2>1, FoundTyped DEF HttpTypeOK
  <2> QED BY <2>1, <2>2, <2>3, <2>4 DEF HttpTypeInv, HttpTypeOK, SendType
<1>4. CASE Body
  <2>1. inbox \in Seq(0 .. MaxBody) /\ m_buffer \in Seq(0 .. MaxBody) /\ inbox # <<>>
        /\ m_buffer' = Append(m_buffer, Head(inbox)) /\ inbox' = Tail(inbox)
    BY <1>4 DEF Body, HttpTypeInv, HttpTypeOK
  <2> DEFINE S == 0 .. MaxBody
  <2>2. inbox' \in Seq(S) /\ m_buffer' \in Seq(S)
    <3>1. inbox \in Seq(S) /\ m_buffer \in Seq(S)
      BY <2>1
    <3> HIDE DEF S
    <3>2. Head(inbox) \in S /\ Tail(inbox) \in Seq(S)
      BY <2>1, <3>1
    <3>3. Append(m_buffer, Head(inbox)) \in Seq(S)
      BY <3>1, <3>2
    <3> QED BY <2>1, <3>2, <3>3
  <2> QED BY <1>4, <2>2 DEF Body, HttpTypeInv, HttpTypeOK, SendType
<1>5. CASE BodyCompletion
  <2>1. toRun' \in Seq(Callbacks) /\ m_buffer' \in Seq(0 .. MaxBody)
    BY <1>1, <1>5, FoundTyped DEF BodyCompletion, HandleHttpRequest, CompletedRequest, HttpTypeOK
  <2>2. phase' \in {"handling", "crashed"} /\ m_request' \in {"held", "moved"} /\ phase # "new"
        /\ bodyDue' = FALSE
        /\ UNCHANGED <<ran, handlerVars, request, inbox, wantWritable, answerVars, writeVars>>
    BY <1>5 DEF BodyCompletion, Receives, HandleHttpRequest, CompletedRequest
  <2> QED BY <2>1, <2>2 DEF HttpTypeInv, HttpTypeOK, SendType
<1>6. CASE HandlerReturns
  <2>1. ran' \in Seq(Callbacks) /\ toRun' \in Seq(Callbacks)
    BY <1>6 DEF HandlerReturns, HttpTypeInv, HttpTypeOK
  <2> QED BY <1>6, <2>1 DEF HandlerReturns, HttpTypeInv, HttpTypeOK, SendType
<1>7. ASSUME NEW k \in 1 .. MaxPackets, NEW c \in Statuses, HandlerAnswers(k, c) PROVE HttpTypeInv'
  <2>1. SendType' /\ m_sendList' \in Seq(Nat \X Nat)
        /\ answers' \in Seq([packets : 1 .. MaxPackets, status : DOMAIN HttpStatusCode])
    BY <1>7, SendTyped, StatusAssumption DEF HandlerAnswers
  <2> QED BY <1>7, <2>1 DEF HandlerAnswers, HttpTypeInv, HttpTypeOK, SendType
<1>8. CASE NotFound
  <2>1. "NotFound" \in DOMAIN HttpStatusCode
    BY DEF HttpStatusCode
  <2>2. 1 \in 1 .. MaxPackets
    BY HttpAssumption
  <2>3. SendType' /\ m_sendList' \in Seq(Nat \X Nat)
        /\ answers' \in Seq([packets : 1 .. MaxPackets, status : DOMAIN HttpStatusCode])
    BY <1>8, <2>1, <2>2, SendTyped DEF NotFound
  <2> QED BY <1>8, <2>3 DEF NotFound, HttpTypeInv, HttpTypeOK, SendType
<1>9. CASE AsksToWrite \/ NothingToAnswer \/ Scan \/ Aborts
  BY <1>9 DEF AsksToWrite, NothingToAnswer, Scan, Aborts, Handled, HttpTypeInv, HttpTypeOK, SendType
<1>10. CASE HttpWriteable
  <2> DEFINE n == Len(m_sendList)
             p == Head(m_sendList)
  <2>1. /\ m_sendList \in Seq(Nat \X Nat) /\ m_sendList # <<>> /\ SendType
        /\ m_sendList' = Tail(m_sendList) /\ answers' = answers
        /\ answers \in Seq([packets : 1 .. MaxPackets, status : DOMAIN HttpStatusCode])
        /\ headers \in Seq(Range(HttpStatusCode))
        /\ headers' = IF IsFirst(p) THEN Append(headers, ToLwsStatusCode(answers[p[1]].status)) ELSE headers
        /\ phase' \in {"closed", "answering"} /\ phase = "answering" /\ wantWritable' \in BOOLEAN
    BY <1>10 DEF HttpWriteable, WritesPacket, HasDataToSend, HttpTypeInv, HttpTypeOK
  <2>2. p = m_sendList[1] /\ n \in Nat /\ 1 \in 1 .. n
    BY <2>1
  <2>3. p[1] \in 1 .. Len(answers)
    BY <2>1, <2>2 DEF SendType
  <2>4. answers[p[1]].status \in DOMAIN HttpStatusCode
    <3> DEFINE A == [packets : 1 .. MaxPackets, status : DOMAIN HttpStatusCode]
    <3>1. answers[p[1]] \in A
      <4> HIDE DEF A, p
      <4>1. answers \in Seq(A)
        BY <2>1 DEF A
      <4> QED BY <2>3, <4>1
    <3> QED BY <3>1
  <2>5. headers' \in Seq(Range(HttpStatusCode))
    <3>1. HttpStatusCode[answers[p[1]].status] \in Range(HttpStatusCode)
      BY <2>4 DEF Range
    <3> QED BY <2>1, <3>1 DEF ToLwsStatusCode
  <2>6. m_sendList' \in Seq(Nat \X Nat) /\ Len(m_sendList') = n - 1
        /\ \A i \in 1 .. n - 1 : m_sendList'[i] = m_sendList[i + 1]
    BY <2>1, <2>2
  <2>7. \A i \in 1 .. n - 1 : i + 1 \in 1 .. n
    BY <2>2
  <2>8. SendType'
    BY <2>1, <2>6, <2>7 DEF SendType
  <2>9. UNCHANGED <<toRun, ran, handlerVars, requestVars, answers, aborted>>
    BY <1>10 DEF HttpWriteable, WritesPacket
  <2> QED BY <2>1, <2>5, <2>6, <2>8, <2>9 DEF HttpTypeInv, HttpTypeOK, SendType
<1>11. CASE UNCHANGED httpVars
  BY <1>11 DEF httpVars, HttpTypeInv, HttpTypeOK, SendType
<1>12. ASSUME NEW token \in Tokens, NEW url \in RequestUrls, NEW n \in 0 .. MaxBody,
              NEW h \in BOOLEAN
       PROVE  [url |-> GetMethod(token, url).url, method |-> GetMethod(token, url).method,
               header |-> h, contentLength |-> n] \in Requests
  BY DEF GetMethod, Requests
<1> QED BY <1>2, <1>3, <1>4, <1>5, <1>6, <1>7, <1>8, <1>9, <1>10, <1>11, <1>12 DEF HttpNext, Handling

(* The type invariant. *)
THEOREM HttpTypeCorrect == HttpSpec => []HttpTypeOK
<1>1. HttpInit => HttpTypeInv
  <2> SUFFICES ASSUME HttpInit PROVE HttpTypeInv
    OBVIOUS
  <2>1. \A S : <<>> \in Seq(S)
    OBVIOUS
  <2>2. 1 .. Len(m_sendList) = {} /\ Len(registered) <= MaxHandlers /\ Len(request) <= 1
    BY HttpAssumption DEF HttpInit
  <2>3. HttpTypeOK
    BY <2>1, <2>2 DEF HttpInit, HttpTypeOK
  <2> QED BY <2>1, <2>2, <2>3 DEF HttpInit, HttpTypeInv, SendType
<1>2. HttpTypeInv => HttpTypeOK
  BY DEF HttpTypeInv
<1> QED BY <1>1, <1>2, HttpTypeStep, PTL DEF HttpSpec
=============================================================================
