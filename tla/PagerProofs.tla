----------------------------- MODULE PagerProofs -----------------------------
(***************************************************************************)
(* Theorems about Pager, for every set of pages, memory size, swap size,   *)
(* trace and algorithm, and the lemmas about Replacement they rest on.     *)
(***************************************************************************)
EXTENDS Pager, FiniteSetTheorems, WellFoundedInduction, SequenceTheorems, TLAPS

-----------------------------------------------------------------------------
(* What the list operations of the replacement algorithms return: a        *)
(* reference adds at most the referenced page, an eviction removes exactly *)
(* the victim, and neither duplicates or loses a node.  P is any set of    *)
(* pages, F any set of frame numbers.                                      *)

Words(P, F) == [P -> [num : F, valid : BOOLEAN, dirty : BOOLEAN, ref : BOOLEAN,
                      onswap : BOOLEAN]]

\* Frame words that agree in all but the reference bits.
SameButRef(w, x) ==
    \A q \in DOMAIN w : /\ x[q].num = w[q].num
                        /\ x[q].valid = w[q].valid
                        /\ x[q].dirty = w[q].dirty
                        /\ x[q].onswap = w[q].onswap

\* A nonempty set of natural numbers has a least element, and Min returns it.
LEMMA MinProps ==
    ASSUME NEW S, S \subseteq Nat, S # {}
    PROVE  Min(S) \in S /\ \A x \in S : Min(S) <= x
<1> DEFINE R == {ss \in Nat \X Nat : ss[1] < ss[2]}
<1>1. IsWellFoundedOn(R, Nat)
  BY NatLessThanWellFounded, Zenon DEF OpToRel
<1> HIDE DEF R
<1>2. PICK m \in S : \A y \in S : ~ (<<y, m>> \in R)
  BY <1>1, WFMin
<1>3. \A y \in S : m <= y
  <2>1. SUFFICES ASSUME NEW y \in S, y < m PROVE FALSE
    OBVIOUS
  <2>2. <<y, m>> \in Nat \X Nat /\ <<y, m>>[1] < <<y, m>>[2]
    BY <2>1
  <2> QED BY <1>2, <2>1, <2>2 DEF R
<1> QED BY <1>3 DEF Min

-----------------------------------------------------------------------------
(* References.                                                             *)

\* A new head is put before the nodes of the list.
LEMMA PrependProps ==
    ASSUME NEW P, NEW l \in Seq(P), NEW p \in P
    PROVE  /\ Prepend(l, p) \in Seq(P)
           /\ Range(Prepend(l, p)) = Range(l) \union {p}
           /\ IsInjective(l) /\ p \notin Range(l) => IsInjective(Prepend(l, p))
<1> DEFINE m == Prepend(l, p)
<1>1. /\ m \in Seq(P) /\ Len(m) = Len(l) + 1 /\ DOMAIN m = 1..(Len(l) + 1)
      /\ m[1] = p /\ \A i \in 1..Len(l) : m[i + 1] = l[i]
  BY DEF Prepend
<1>2. \A j \in DOMAIN m : j # 1 => j - 1 \in 1..Len(l) /\ m[j] = l[j - 1]
  BY <1>1
<1> HIDE DEF m
<1>3. Range(m) = Range(l) \union {p}
  <2>1. ASSUME NEW j \in DOMAIN m PROVE m[j] \in Range(l) \union {p}
    <3>1. CASE j = 1
      BY <1>1, <3>1
    <3>2. CASE j # 1
      <4>1. j - 1 \in DOMAIN l /\ m[j] = l[j - 1]
        BY <1>2, <3>2
      <4> QED BY <4>1 DEF Range
    <3> QED BY <3>1, <3>2
  <2>2. p \in Range(m)
    BY <1>1 DEF Range
  <2>3. ASSUME NEW i \in DOMAIN l PROVE l[i] \in Range(m)
    <3>1. i + 1 \in DOMAIN m /\ m[i + 1] = l[i]
      BY <1>1
    <3> QED BY <3>1 DEF Range
  <2> QED BY <2>1, <2>2, <2>3 DEF Range
<1>4. ASSUME IsInjective(l), p \notin Range(l), NEW i \in DOMAIN m, NEW j \in DOMAIN m, m[i] = m[j]
      PROVE  i = j
  <2>1. CASE i = 1 /\ j # 1
    BY <1>1, <1>2, <1>4, <2>1 DEF Range
  <2>2. CASE i # 1 /\ j = 1
    BY <1>1, <1>2, <1>4, <2>2 DEF Range
  <2>3. CASE i # 1 /\ j # 1
    BY <1>1, <1>2, <1>4, <2>3 DEF IsInjective
  <2> QED BY <2>1, <2>2, <2>3
<1> QED BY <1>1, <1>3, <1>4 DEF IsInjective, m

\* Moving a node to the front permutes the list.
LEMMA MoveToFrontProps ==
    ASSUME NEW P, NEW l \in Seq(P), NEW k \in DOMAIN l
    PROVE  /\ MoveToFront(l, k) \in Seq(P)
           /\ Range(MoveToFront(l, k)) = Range(l)
           /\ IsInjective(l) => IsInjective(MoveToFront(l, k))
<1> DEFINE m == MoveToFront(l, k)
           at(j) == IF j = 1 THEN k ELSE IF j <= k THEN j - 1 ELSE j
           to(i) == IF i = k THEN 1 ELSE IF i < k THEN i + 1 ELSE i
<1>1. DOMAIN l = 1..Len(l) /\ Len(l) \in Nat /\ \A i \in DOMAIN l : l[i] \in P
  OBVIOUS
<1>2. DOMAIN m = 1..Len(l)
  BY <1>1 DEF MoveToFront
<1>3. \A j \in DOMAIN m : m[j] = l[at(j)] /\ at(j) \in DOMAIN l
  BY <1>1, <1>2 DEF MoveToFront
<1>4. \A i \in DOMAIN l : to(i) \in DOMAIN m /\ at(to(i)) = i
  BY <1>1, <1>2
<1>5. \A i, j \in DOMAIN m : at(i) = at(j) => i = j
  BY <1>1, <1>2
<1>6. m \in Seq(P)
  <2>1. m \in [1..Len(l) -> P]
    BY <1>1, <1>2, <1>3 DEF MoveToFront
  <2> QED BY <1>1, <2>1
<1> HIDE DEF m, at, to
<1>7. Range(m) = Range(l)
  <2>1. ASSUME NEW i \in DOMAIN l PROVE l[i] \in Range(m)
    <3>1. to(i) \in DOMAIN m /\ m[to(i)] = l[i]
      BY <1>3, <1>4
    <3> QED BY <3>1 DEF Range
  <2>2. \A j \in DOMAIN m : m[j] \in Range(l)
    BY <1>3 DEF Range
  <2> QED BY <2>1, <2>2 DEF Range
<1>8. IsInjective(l) => IsInjective(m)
  BY <1>3, <1>5 DEF IsInjective
<1> QED BY <1>6, <1>7, <1>8 DEF m

\* What the three list algorithms keep after a reference: the same pages, and
\* the referenced one if no node has its frame word.
LEMMA RefFcnProps ==
    ASSUME NEW P, NEW l \in Seq(P), NEW p \in P, NEW w, NEW rule
    PROVE  /\ RefFcn(rule, l, w, p) \in Seq(P)
           /\ rule \in {"lru", "fifo", "clock"} /\ IsInjective(l)
                /\ (Matches(l, w, p) = {} <=> p \notin Range(l))
              => /\ Range(RefFcn(rule, l, w, p)) = Range(l) \union {p}
                 /\ IsInjective(RefFcn(rule, l, w, p))
<1>1. Matches(l, w, p) \subseteq Nat /\ Matches(l, w, p) \subseteq DOMAIN l
  BY DEF Matches
<1>2. Matches(l, w, p) # {} => Min(Matches(l, w, p)) \in DOMAIN l
  BY <1>1, MinProps
<1>3. CASE rule = "lru"
  <2>1. CASE Matches(l, w, p) = {}
    BY <1>3, <2>1, PrependProps DEF RefFcn, LruRef
  <2>2. CASE Matches(l, w, p) # {}
    BY <1>2, <1>3, <2>2, MoveToFrontProps DEF RefFcn, LruRef
  <2> QED BY <2>1, <2>2
<1>4. CASE rule = "fifo"
  BY <1>4, PrependProps DEF RefFcn, FifoRef
<1>5. CASE rule = "clock"
  <2>1. /\ Append(l, p) \in Seq(P)
        /\ Len(Append(l, p)) = Len(l) + 1
        /\ \A i \in 1..Len(l) : Append(l, p)[i] = l[i]
        /\ Append(l, p)[Len(l) + 1] = p
    OBVIOUS
  <2> DEFINE m == Append(l, p)
  <2>2. DOMAIN l = 1..Len(l) /\ DOMAIN m = 1..(Len(l) + 1) /\ Len(l) \in Nat
    BY <2>1
  <2> HIDE DEF m
  <2>3. Range(m) = Range(l) \union {p}
    <3>1. ASSUME NEW i \in DOMAIN l PROVE l[i] \in Range(m)
      <4>1. i \in DOMAIN m /\ m[i] = l[i]
        BY <2>1, <2>2 DEF m
      <4> QED BY <4>1 DEF Range
    <3>2. p \in Range(m)
      <4>1. Len(l) + 1 \in DOMAIN m /\ m[Len(l) + 1] = p
        BY <2>1, <2>2 DEF m
      <4> QED BY <4>1 DEF Range
    <3>3. ASSUME NEW i \in DOMAIN m PROVE m[i] \in Range(l) \union {p}
      <4>1. (i \in DOMAIN l /\ m[i] = l[i]) \/ m[i] = p
        BY <2>1, <2>2 DEF m
      <4> QED BY <4>1 DEF Range
    <3> QED BY <3>1, <3>2, <3>3 DEF Range
  <2>4. ASSUME IsInjective(l), p \notin Range(l) PROVE IsInjective(m)
    <3>1. \A i \in DOMAIN m : (i \in DOMAIN l /\ m[i] = l[i] /\ l[i] # p)
                              \/ (i = Len(l) + 1 /\ m[i] = p)
      BY <2>1, <2>2, <2>4 DEF m, Range
    <3> QED BY <2>2, <2>4, <3>1 DEF IsInjective
  <2> QED BY <1>5, <2>1, <2>3, <2>4 DEF RefFcn, ClockRef, m
<1>6. CASE rule \notin {"lru", "fifo", "clock"}
  BY <1>6 DEF RefFcn
<1> QED BY <1>3, <1>4, <1>5, <1>6

-----------------------------------------------------------------------------
(* Evictions.                                                              *)

\* What an eviction gives, for node k of the list: the frame of that node's
\* page, and a list without it.
Evicts(l, w, k, e) ==
    /\ e.frame = w[l[k]].num
    /\ IsInjective(l) => /\ Range(e.list) = Range(l) \ {l[k]}
                         /\ IsInjective(e.list)

\* lru and fifo evict the page of the last node.
LEMMA TailEvictProps ==
    ASSUME NEW P, NEW F, NEW l \in Seq(P), l # <<>>, NEW w \in Words(P, F)
    PROVE  LET e == TailEvict(l, w)
           IN  /\ e.frame \in F /\ e.list \in Seq(P) /\ e.word = w
               /\ Evicts(l, w, Len(l), e)
<1> DEFINE n == Len(l)
           m == SubSeq(l, 1, n - 1)
<1>1. n \in Nat \ {0} /\ DOMAIN l = 1..n /\ l[n] \in P
  OBVIOUS
<1>2. m \in Seq(P) /\ DOMAIN m = 1..(n - 1) /\ \A i \in 1..(n - 1) : m[i] = l[i]
  BY <1>1
<1>3. w[l[n]].num \in F
  BY <1>1 DEF Words
<1> HIDE DEF m
<1>4. ASSUME IsInjective(l) PROVE Range(m) = Range(l) \ {l[n]} /\ IsInjective(m)
  <2>1. IsInjective(m)
    BY <1>1, <1>2, <1>4 DEF IsInjective
  <2>2. ASSUME NEW i \in DOMAIN m PROVE m[i] \in Range(l) /\ m[i] # l[n]
    <3>1. i \in DOMAIN l /\ i # n /\ m[i] = l[i]
      BY <1>1, <1>2
    <3> QED BY <1>1, <1>4, <3>1 DEF IsInjective, Range
  <2>3. ASSUME NEW i \in DOMAIN l, l[i] # l[n] PROVE l[i] \in Range(m)
    <3>1. i \in DOMAIN m /\ m[i] = l[i]
      BY <1>1, <1>2, <2>3
    <3> QED BY <3>1 DEF Range
  <2> QED BY <2>1, <2>2, <2>3 DEF Range
<1> QED BY <1>2, <1>3, <1>4 DEF TailEvict, Evicts, m

\* clock evicts the page the hand stops at and changes reference bits only.
LEMMA ClockEvictProps ==
    ASSUME NEW P, NEW F, NEW l \in Seq(P), l # <<>>, NEW w \in Words(P, F)
    PROVE  LET e == ClockEvict(l, w)
           IN  /\ e.frame \in F /\ e.list \in Seq(P)
               /\ e.word \in Words(P, F) /\ SameButRef(w, e.word)
               /\ \E k \in DOMAIN l : Evicts(l, w, k, e)
<1> DEFINE n == Len(l)
           unref == {i \in DOMAIN l : ~w[l[i]].ref}
           k == IF unref = {} THEN 1 ELSE Min(unref)
           back == SubSeq(l, k + 1, n)
           front == SubSeq(l, 1, k - 1)
           m == back \o front
           x == ClockEvict(l, w).word
<1>1. n \in Nat \ {0} /\ DOMAIN l = 1..n /\ \A i \in DOMAIN l : l[i] \in P
  OBVIOUS
<1>2. k \in 1..n
  <2>1. unref \subseteq Nat /\ unref \subseteq 1..n
    BY <1>1
  <2>2. unref # {} => Min(unref) \in unref
    BY <2>1, MinProps
  <2> QED BY <1>1, <2>1, <2>2
<1> HIDE DEF k
<1>3. back \in Seq(P) /\ Len(back) = n - k /\ \A i \in 1..(n - k) : back[i] = l[k + i]
  <2>1. k + 1 \in Int /\ n \in Int /\ \A i \in (k + 1)..n : l[i] \in P
    BY <1>1, <1>2
  <2>2. /\ back \in Seq(P)
        /\ Len(back) = IF k + 1 <= n THEN n - (k + 1) + 1 ELSE 0
        /\ \A i \in 1..(n - (k + 1) + 1) : back[i] = l[(k + 1) + i - 1]
    BY <2>1, SubSeqProperties
  <2> HIDE DEF back, n
  <2>3. Len(back) = n - k /\ n - (k + 1) + 1 = n - k
    BY <1>1, <1>2, <2>2
  <2>4. \A i \in 1..(n - k) : (k + 1) + i - 1 = k + i
    BY <1>1, <1>2
  <2> QED BY <2>2, <2>3, <2>4
<1>4. front \in Seq(P) /\ Len(front) = k - 1 /\ \A i \in 1..(k - 1) : front[i] = l[i]
  BY <1>1, <1>2, SubSeqProperties
<1> HIDE DEF back, front
<1>5. /\ m \in Seq(P) /\ DOMAIN m = 1..(n - 1)
      /\ \A i \in 1..(n - k) : m[i] = l[k + i]
      /\ \A i \in (n - k + 1)..(n - 1) : m[i] = l[i - (n - k)]
  <2>0. /\ m \in Seq(P) /\ Len(m) = Len(back) + Len(front)
        /\ \A i \in 1..(Len(back) + Len(front)) :
              m[i] = IF i <= Len(back) THEN back[i] ELSE front[i - Len(back)]
    BY <1>3, <1>4, ConcatProperties
  <2> HIDE DEF m, n
  <2>1. Len(m) = n - 1 /\ DOMAIN m = 1..(n - 1)
    BY <1>1, <1>2, <1>3, <1>4, <2>0
  <2>2. \A i \in 1..(n - k) : m[i] = back[i]
    BY <1>1, <1>2, <1>3, <1>4, <2>0
  <2>3. \A i \in (n - k + 1)..(n - 1) : m[i] = front[i - (n - k)]
    BY <1>1, <1>2, <1>3, <1>4, <2>0
  <2>4. \A i \in (n - k + 1)..(n - 1) : i - (n - k) \in 1..(k - 1)
    BY <1>1, <1>2
  <2> QED BY <1>3, <1>4, <2>0, <2>1, <2>2, <2>3, <2>4
<1>6. w[l[k]].num \in F
  BY <1>1, <1>2 DEF Words
<1>7. x \in Words(P, F) /\ SameButRef(w, x)
  BY DEF ClockEvict, Words, SameButRef
<1> DEFINE at(i) == IF i <= n - k THEN k + i ELSE i - (n - k)
           to(i) == IF i > k THEN i - k ELSE i + (n - k)
<1> HIDE DEF m
<1>8. \A i \in DOMAIN m : at(i) \in DOMAIN l /\ at(i) # k /\ m[i] = l[at(i)]
  BY <1>1, <1>2, <1>5
<1>9. \A i \in DOMAIN l : i # k => to(i) \in DOMAIN m /\ at(to(i)) = i
  BY <1>1, <1>2, <1>5
<1>10. \A i, j \in DOMAIN m : at(i) = at(j) => i = j
  BY <1>1, <1>2, <1>5
<1> HIDE DEF at, to
<1>11. ASSUME IsInjective(l) PROVE Range(m) = Range(l) \ {l[k]} /\ IsInjective(m)
  <2>1. IsInjective(m)
    BY <1>8, <1>10, <1>11 DEF IsInjective
  <2>2. ASSUME NEW i \in DOMAIN m PROVE m[i] \in Range(l) /\ m[i] # l[k]
    BY <1>1, <1>2, <1>8, <1>11 DEF IsInjective, Range
  <2>3. ASSUME NEW i \in DOMAIN l, l[i] # l[k] PROVE l[i] \in Range(m)
    <3>2. i # k
      BY <2>3
    <3>3. to(i) \in DOMAIN m /\ at(to(i)) = i
      BY <1>9, <3>2
    <3>1. to(i) \in DOMAIN m /\ m[to(i)] = l[i]
      BY <1>8, <3>3
    <3> QED BY <3>1 DEF Range
  <2> QED BY <2>1, <2>2, <2>3 DEF Range
<1>12. /\ ClockEvict(l, w).frame = w[l[k]].num
       /\ ClockEvict(l, w).list = m
  BY DEF ClockEvict, k, m, back, front
<1> QED BY <1>1, <1>2, <1>5, <1>6, <1>7, <1>11, <1>12 DEF Evicts

\* opt always finds a frame, as the next uses are bounded by the trace's end,
\* and no frame's page is used later than its page.
LEMMA OptEvictProps ==
    ASSUME NEW l, NEW w, NEW cm, NEW n \in Nat \ {0}, DOMAIN cm = 0..(n - 1),
           NEW A, NEW refs \in Seq(A), NEW now \in Nat
    PROVE  /\ OptEvict(l, w, cm, refs, now).frame \in 0..(n - 1)
           /\ \A g \in 0..(n - 1) :
                 Distance(refs, now, cm[g].vaddr)
                    <= Distance(refs, now, cm[OptEvict(l, w, cm, refs, now).frame].vaddr)
<1> DEFINE L == Len(refs)
           far(f) == Distance(refs, now, cm[f].vaddr)
           slack == {L - now - far(f) : f \in 0..(n - 1)}
           best == {f \in DOMAIN cm : \A g \in DOMAIN cm : far(g) <= far(f)}
<1>1. L \in Nat
  OBVIOUS
<1>2. \A f \in 0..(n - 1) : far(f) \in Int /\ far(f) <= L - now
  <2> TAKE f \in 0..(n - 1)
  <2> DEFINE uses == {i \in (now + 1)..L : refs[i].page = cm[f].vaddr}
  <2>1. uses \subseteq Nat /\ uses \subseteq (now + 1)..L
    BY <1>1
  <2>2. uses # {} => Min(uses) \in uses
    BY <2>1, MinProps
  <2>3. far(f) = (IF uses = {} THEN L + 1 ELSE Min(uses)) - now - 1
    BY DEF Distance
  <2> HIDE DEF uses, far, L
  <2>4. CASE uses = {}
    BY <1>1, <2>3, <2>4
  <2>5. CASE uses # {}
    <3>1. PICK i \in Nat : i = Min(uses) /\ i <= L
      BY <1>1, <2>1, <2>2, <2>5
    <3> QED BY <1>1, <2>3, <2>5, <3>1
  <2> QED BY <2>4, <2>5
<1> HIDE DEF L, far
<1>3. slack \subseteq Nat /\ slack # {}
  <2>1. \A f \in 0..(n - 1) : L - now - far(f) \in Nat
    BY <1>1, <1>2
  <2>2. 0 \in 0..(n - 1)
    OBVIOUS
  <2> QED BY <2>1, <2>2
<1>4. PICK f \in 0..(n - 1) : \A g \in 0..(n - 1) : L - now - far(f) <= L - now - far(g)
  <2>1. Min(slack) \in slack /\ \A x \in slack : Min(slack) <= x
    BY <1>3, MinProps
  <2> QED BY <2>1
<1>5. \A g \in 0..(n - 1) : far(g) <= far(f)
  BY <1>1, <1>2, <1>4
<1>6. f \in best /\ best \subseteq 0..(n - 1)
  BY <1>4, <1>5
<1>7. Min(best) \in best
  <2> HIDE DEF best
  <2>1. best \subseteq Nat /\ best # {}
    BY <1>6
  <2> QED BY <2>1, MinProps
<1>8. OptEvict(l, w, cm, refs, now).frame = Min(best)
  BY DEF OptEvict, far
<1> QED BY <1>6, <1>7, <1>8 DEF far

\* Every result of evict_fcn: it names a frame, keeps the types, changes
\* reference bits only, and a list algorithm takes one node off its list.
LEMMA EvictFcnProps ==
    ASSUME NEW P, NEW n \in Nat \ {0}, NEW l \in Seq(P), NEW w \in Words(P, 0..(n - 1)),
           NEW cm, DOMAIN cm = 0..(n - 1), NEW A, NEW refs \in Seq(A), NEW now \in Nat,
           NEW rule, EvictDefined(rule, l), NEW e \in EvictFcn(rule, l, w, cm, refs, now)
    PROVE  /\ e.frame \in 0..(n - 1) /\ e.list \in Seq(P)
           /\ e.word \in Words(P, 0..(n - 1)) /\ SameButRef(w, e.word)
           /\ rule \in {"lru", "fifo", "clock"} => \E k \in DOMAIN l : Evicts(l, w, k, e)
<1>1. SameButRef(w, w)
  BY DEF SameButRef
<1>2. CASE rule \in {"lru", "fifo"}
  <2>1. l # <<>> /\ Len(l) \in DOMAIN l /\ e = TailEvict(l, w)
    BY <1>2 DEF EvictDefined, EvictFcn
  <2> QED BY <1>1, <2>1, TailEvictProps
<1>3. CASE rule = "clock"
  <2>1. l # <<>> /\ e = ClockEvict(l, w)
    BY <1>3 DEF EvictDefined, EvictFcn
  <2> QED BY <2>1, ClockEvictProps
<1>4. CASE rule = "opt"
  <2>1. e = OptEvict(l, w, cm, refs, now)
    BY <1>4 DEF EvictFcn
  <2>2. e.list = l /\ e.word = w
    BY <2>1 DEF OptEvict
  <2> QED BY <1>1, <1>4, <2>1, <2>2, OptEvictProps
<1>5. CASE rule \notin {"lru", "fifo", "clock", "opt"}
  <2>1. PICK f \in DOMAIN cm : e = RandEvict(l, w, f)
    BY <1>5 DEF EvictFcn
  <2> QED BY <1>1, <1>5, <2>1 DEF RandEvict
<1> QED BY <1>2, <1>3, <1>4, <1>5

-----------------------------------------------------------------------------
(* The order of the lists.                                                 *)

\* Along the list the values of m strictly decrease.
Descending(m, l) == \A i, j \in DOMAIN l : i < j => m[l[i]] > m[l[j]]

\* n is m after page p got a value above all others.
Raised(m, n, P, p) ==
    /\ m \in [P -> Nat] /\ n \in [P -> Nat]
    /\ \A q \in P : q # p => n[q] = m[q] /\ n[q] < n[p]

LEMMA PrependDescends ==
    ASSUME NEW P, NEW l \in Seq(P), NEW p \in P, NEW m, NEW n, Raised(m, n, P, p),
           Descending(m, l), p \notin Range(l)
    PROVE  Descending(n, Prepend(l, p))
<1> DEFINE r == Prepend(l, p)
<1>1. /\ DOMAIN r = 1..(Len(l) + 1) /\ r[1] = p
      /\ \A i \in 1..Len(l) : r[i + 1] = l[i]
  BY DEF Prepend
<1>2. \A i \in DOMAIN l : l[i] \in P /\ l[i] # p
  BY DEF Range
<1> HIDE DEF r
<1>3. \A i \in DOMAIN r : i # 1 => i - 1 \in DOMAIN l /\ r[i] = l[i - 1]
  BY <1>1
<1>4. ASSUME NEW i \in DOMAIN r, NEW j \in DOMAIN r, i < j PROVE n[r[i]] > n[r[j]]
  <2>1. /\ j - 1 \in DOMAIN l /\ r[j] = l[j - 1] /\ r[j] \in P /\ r[j] # p
        /\ n[r[j]] = m[r[j]] /\ n[r[j]] < n[p] /\ n[r[j]] \in Nat /\ n[p] \in Nat
    <3>1. j - 1 \in DOMAIN l /\ r[j] = l[j - 1]
      BY <1>1, <1>3, <1>4
    <3>2. r[j] \in P /\ r[j] # p
      BY <1>2, <3>1
    <3> QED BY <3>1, <3>2 DEF Raised
  <2>2. CASE i = 1
    BY <1>1, <2>1, <2>2
  <2>3. CASE i # 1
    <3>1. i - 1 \in DOMAIN l /\ r[i] = l[i - 1] /\ r[i] \in P /\ r[i] # p /\ i - 1 < j - 1
      BY <1>1, <1>2, <1>3, <1>4, <2>3
    <3>2. m[r[i]] > m[r[j]]
      BY <2>1, <3>1 DEF Descending
    <3> QED BY <2>1, <3>1, <3>2 DEF Raised
  <2> QED BY <2>2, <2>3
<1> QED BY <1>4 DEF Descending, r

LEMMA MoveDescends ==
    ASSUME NEW P, NEW l \in Seq(P), NEW k \in DOMAIN l, NEW m, NEW n,
           Raised(m, n, P, l[k]), Descending(m, l), IsInjective(l)
    PROVE  Descending(n, MoveToFront(l, k))
<1> DEFINE r == MoveToFront(l, k)
           at(j) == IF j = 1 THEN k ELSE IF j <= k THEN j - 1 ELSE j
<1>1. DOMAIN l = 1..Len(l) /\ Len(l) \in Nat /\ k \in 1..Len(l) /\ \A i \in DOMAIN l : l[i] \in P
  OBVIOUS
<1>2. DOMAIN r = DOMAIN l /\ \A j \in DOMAIN l : r[j] = l[at(j)] /\ at(j) \in DOMAIN l
  BY <1>1 DEF MoveToFront
<1>3. \A i, j \in DOMAIN l : i < j => at(j) # k /\ (i = 1 \/ at(i) < at(j)) /\ (i = 1 \/ at(i) # k)
  BY <1>1
<1>4. at(1) = k
  OBVIOUS
<1> HIDE DEF r, at
<1>5. ASSUME NEW i \in DOMAIN r, NEW j \in DOMAIN r, i < j PROVE n[r[i]] > n[r[j]]
  <2>1. at(j) \in DOMAIN l /\ r[j] = l[at(j)] /\ r[j] \in P /\ r[j] # l[k]
    BY <1>1, <1>2, <1>3, <1>5 DEF IsInjective
  <2>2. n[r[j]] = m[r[j]] /\ n[r[j]] < n[l[k]] /\ n[r[j]] \in Nat /\ n[l[k]] \in Nat
    BY <1>1, <2>1 DEF Raised
  <2>3. CASE i = 1
    BY <1>2, <1>4, <2>2, <2>3
  <2>4. CASE i # 1
    <3>1. at(i) \in DOMAIN l /\ r[i] = l[at(i)] /\ r[i] \in P /\ r[i] # l[k] /\ at(i) < at(j)
      BY <1>1, <1>2, <1>3, <1>5, <2>4 DEF IsInjective
    <3>2. m[r[i]] > m[r[j]]
      BY <2>1, <3>1 DEF Descending
    <3> QED BY <2>2, <3>1, <3>2 DEF Raised
  <2> QED BY <2>3, <2>4
<1> QED BY <1>5 DEF Descending, r

\* The victim of lru and fifo has the least value; the others stay in order.
LEMMA TailDescends ==
    ASSUME NEW P, NEW l \in Seq(P), l # <<>>, NEW w, NEW m, Descending(m, l)
    PROVE  /\ Descending(m, TailEvict(l, w).list)
           /\ \A i \in DOMAIN l : l[i] # l[Len(l)] => m[l[i]] > m[l[Len(l)]]
<1> DEFINE r == TailEvict(l, w).list
<1>1. DOMAIN l = 1..Len(l) /\ Len(l) \in Nat \ {0}
  OBVIOUS
<1>2. r = SubSeq(l, 1, Len(l) - 1)
  BY DEF TailEvict
<1>3. \A i \in DOMAIN r : i \in DOMAIN l /\ r[i] = l[i]
  BY <1>1, <1>2
<1> HIDE DEF r
<1>4. Descending(m, r)
  BY <1>3 DEF Descending
<1>5. \A i \in DOMAIN l : l[i] # l[Len(l)] => i < Len(l) /\ Len(l) \in DOMAIN l
  BY <1>1
<1> QED BY <1>4, <1>5 DEF Descending, r

\* clock gives the last node of its list a second chance.
LEMMA ClockSpares ==
    ASSUME NEW l, DOMAIN l = 1..Len(l), Len(l) \in Nat, Len(l) >= 2, NEW w, w[l[Len(l)]].ref
    PROVE  \E k \in DOMAIN l : k < Len(l) /\ ClockEvict(l, w).frame = w[l[k]].num
<1> DEFINE unref == {i \in DOMAIN l : ~w[l[i]].ref}
           k == IF unref = {} THEN 1 ELSE Min(unref)
<1>1. ClockEvict(l, w).frame = w[l[k]].num
  BY DEF ClockEvict
<1>2. unref # {} => Min(unref) \in unref
  <2>1. unref \subseteq Nat
    OBVIOUS
  <2> QED BY <2>1, MinProps
<1>3. k \in DOMAIN l /\ k # Len(l)
  BY <1>2
<1>4. k < Len(l)
  BY <1>3
<1> QED BY <1>1, <1>3, <1>4

-----------------------------------------------------------------------------
(* The types.                                                              *)

USE PagesAssumption, TableAssumption, SizeAssumption, AlgAssumption, TraceAssumption,
    FaultAssumption

\* Only a page marked ONSWAP is read from its slot, and none ever is: without
\* this the contents of a frame would have no type.
TypeInv == TypeOK /\ \A q \in Pages : ~word[q].onswap

\* The types of what a step passes to Reference.
WordsOK(w) == w \in [Pages -> WordType] /\ \A q \in Pages : ~w[q].onswap
CoremapOK(cm) ==
    /\ cm \in [Frames -> FrameType]
    /\ \A f \in Frames : cm[f].in_use => cm[f].pte \in Pages

LEMMA FramesInterval == Frames = 0..(memsize - 1) /\ 0 \in Frames /\ memsize \in Nat \ {0}
BY DEF Frames

\* Counting an event keeps five natural numbers.
LEMMA CountTypes ==
    ASSUME NEW c \in CountType
    PROVE  /\ [c EXCEPT !.hit = c.hit + 1] \in CountType
           /\ [c EXCEPT !.miss = c.miss + 1] \in CountType
           /\ [c EXCEPT !.ref = c.ref + 1] \in CountType
           /\ [c EXCEPT !.clean = c.clean + 1] \in CountType
           /\ [c EXCEPT !.dirty = c.dirty + 1] \in CountType
<1>1. \A n \in Nat : /\ [c EXCEPT !.hit = n] \in CountType
                     /\ [c EXCEPT !.miss = n] \in CountType
                     /\ [c EXCEPT !.ref = n] \in CountType
                     /\ [c EXCEPT !.clean = n] \in CountType
                     /\ [c EXCEPT !.dirty = n] \in CountType
  BY DEF CountType
<1>2. /\ c.hit + 1 \in Nat /\ c.miss + 1 \in Nat /\ c.ref + 1 \in Nat
      /\ c.clean + 1 \in Nat /\ c.dirty + 1 \in Nat
  BY DEF CountType
<1> QED BY <1>1, <1>2

\* Marking a page dirty before a frame is sought keeps the types.
LEMMA FirstUseTypes ==
    ASSUME NEW w, WordsOK(w), NEW q \in Pages
    PROVE  WordsOK(FirstUse(w, q))
<1> DEFINE r == [w[q] EXCEPT !.dirty = TRUE]
<1>1. r \in WordType /\ r.onswap = w[q].onswap
  BY DEF WordsOK, WordType
<1>2. FirstUse(w, q) = [w EXCEPT ![q] = r]
  BY DEF FirstUse, WordsOK
<1> HIDE DEF r
<1> QED BY <1>1, <1>2 DEF WordsOK

LEMMA CurrentAccess ==
    ASSUME TypeInv, Replaying
    PROVE  /\ Page \in Pages /\ Type \in AccessTypes
           /\ pos \in 1..Len(trace) /\ Len(trace) \in Nat
<1>1. trace \in Seq(Accesses) /\ pos \in DOMAIN trace
  BY DEF TypeInv, TypeOK, Replaying
<1>2. trace[pos] \in Accesses /\ pos \in 1..Len(trace) /\ Len(trace) \in Nat
  BY <1>1
<1> QED BY <1>2 DEF Page, Type, Accesses

LEMMA WordsForTypes ==
    ASSUME TypeInv, NEW q \in Pages
    PROVE  /\ WordsOK(WordsFor(q))
           /\ OffsFor(q) \in [Pages -> Slots \union {NoSlot}]
<1>1. ZeroWord \in WordType /\ ~ZeroWord.onswap
  BY FramesInterval DEF ZeroWord, WordType
<1> QED BY <1>1 DEF TypeInv, TypeOK, WordsFor, OffsFor, WordsOK

\* A completed reference keeps the types if what it is given has them.
LEMMA ReferenceTypes ==
    ASSUME TypeInv, Replaying,
           NEW w, WordsOK(w), NEW cm, CoremapOK(cm), NEW pm \in [Frames -> PageType],
           NEW l \in Seq(Pages), NEW c \in CountType, Reference(w, cm, pm, l, c),
           swap_off' \in [Pages -> Slots \union {NoSlot}], swapmap' \subseteq Slots,
           swapfile' \in [Slots -> PageType]
    PROVE  TypeInv'
<1>1. /\ Page \in Pages /\ Type \in AccessTypes /\ pos \in 1..Len(trace) /\ Len(trace) \in Nat
  BY CurrentAccess
<1> DEFINE f == w[Page].num
<1>2. f \in Frames
  BY <1>1 DEF WordsOK, WordType
<1>3. WordsOK(word')
  <2> DEFINE r == [w[Page] EXCEPT !.valid = TRUE, !.ref = TRUE,
                                  !.dirty = w[Page].dirty \/ Type = Store]
  <2>1. w[Page] \in WordType /\ ~w[Page].onswap
    BY <1>1 DEF WordsOK
  <2>2. r \in WordType /\ r.onswap = w[Page].onswap
    BY <2>1 DEF WordType
  <2> HIDE DEF r
  <2>3. WordsOK([w EXCEPT ![Page] = r])
    BY <1>1, <2>1, <2>2 DEF WordsOK
  <2> QED BY <2>3 DEF Reference, Touch, r
<1>4. CoremapOK(coremap')
  <2>1. coremap' = [cm EXCEPT ![f].vaddr = Page]
    BY DEF Reference
  <2>2. cm[f] \in FrameType /\ [cm[f] EXCEPT !.vaddr = Page] \in FrameType
    BY <1>1, <1>2 DEF CoremapOK, FrameType
  <2> QED BY <1>2, <2>1, <2>2 DEF CoremapOK, FrameType
<1>5. physmem' \in [Frames -> PageType]
  <2> DEFINE more == IF Type = Store THEN 1 ELSE 0
             r == [pm[f] EXCEPT !.version = pm[f].version + more]
  <2>1. physmem' = [pm EXCEPT ![f].version = pm[f].version + more]
    BY DEF Reference
  <2>2. pm[f] \in PageType /\ more \in Nat
    BY <1>2
  <2>3. r \in PageType
    <3>1. pm[f].version + more \in Nat
      BY <2>2 DEF PageType
    <3>2. \A n \in Nat : [pm[f] EXCEPT !.version = n] \in PageType
      BY <2>2 DEF PageType
    <3> QED BY <3>1, <3>2
  <2> QED BY <2>1, <2>3
<1>6. referlist' \in Seq(Pages)
  <2>1. referlist' = RefFcn(alg, l, Touch(w, Page, Type), Page)
    BY DEF Reference
  <2> QED BY <1>1, <2>1, RefFcnProps
<1>7. count' \in CountType
  BY CountTypes DEF Reference
<1>8. pgdir' \subseteq Nat
  <2>1. PgdirIndex(Page) \in Nat
    BY <1>1 DEF PgdirIndex
  <2> QED BY <2>1 DEF Reference, TypeInv, TypeOK
<1>9. pos' \in 1..(Len(trace') + 1) /\ curr' = IF alg' = "opt" THEN pos' ELSE 1
  BY <1>1 DEF Reference, TypeInv, TypeOK
<1>10. trace' \in Seq(Accesses) /\ alg' \in Algs /\ status' \in {"running", "done", "crashed"}
  BY DEF Reference, TypeInv, TypeOK
<1> QED BY <1>3, <1>4, <1>5, <1>6, <1>7, <1>8, <1>9, <1>10
        DEF TypeInv, TypeOK, WordsOK, CoremapOK

\* The same for a reference whose page was just put in frame f.
LEMMA PlaceTypes ==
    ASSUME TypeInv, Replaying,
           NEW w, WordsOK(w), NEW l \in Seq(Pages), NEW f \in Frames, NEW c \in CountType,
           Place(w, l, f, c),
           swap_off' \in [Pages -> Slots \union {NoSlot}], swapmap' \subseteq Slots,
           swapfile' \in [Slots -> PageType]
    PROVE  TypeInv'
<1>1. Page \in Pages
  BY CurrentAccess
<1>2. WordsOK(Install(w, Page, f))
  BY <1>1 DEF WordsOK, Install, WordType, ZeroWord
<1>3. CoremapOK(Own(coremap, Page, f))
  BY <1>1 DEF CoremapOK, Own, FrameType, TypeInv, TypeOK
<1>4. Fill(Page) \in PageType
  BY <1>1, WordsForTypes DEF Fill, PageType, WordsOK
<1>5. [physmem EXCEPT ![f] = Fill(Page)] \in [Frames -> PageType]
  BY <1>4 DEF TypeInv, TypeOK
<1>6. [c EXCEPT !.miss = c.miss + 1] \in CountType
  BY CountTypes
<1> QED BY <1>2, <1>3, <1>5, <1>6, ReferenceTypes DEF Place

\* A victim chosen by evict_fcn: its frame, owner and unmapped frame words.
LEMMA VictimTypes ==
    ASSUME TypeInv, Evicting, EvictDefined(alg, referlist), NEW e \in Victims
    PROVE  /\ e.frame \in Frames /\ e.list \in Seq(Pages) /\ Owner(e) \in Pages
           /\ WordsOK(Unmapped(e))
           /\ SameButRef(FirstUse(WordsFor(Page), Page), e.word)
<1> DEFINE w == FirstUse(WordsFor(Page), Page)
<1>1. Page \in Pages /\ pos \in Nat
  BY CurrentAccess DEF Evicting, Missing
<1>2. WordsOK(w)
  BY <1>1, WordsForTypes, FirstUseTypes
<1>3. w \in Words(Pages, 0..(memsize - 1))
  BY <1>2 DEF WordsOK, WordType, Words, Frames
<1>4. DOMAIN coremap = 0..(memsize - 1) /\ referlist \in Seq(Pages) /\ trace \in Seq(Accesses)
      /\ curr \in Nat
  BY <1>1 DEF TypeInv, TypeOK, Frames
<1>5. /\ e.frame \in 0..(memsize - 1) /\ e.list \in Seq(Pages)
      /\ e.word \in Words(Pages, 0..(memsize - 1)) /\ SameButRef(w, e.word)
  BY <1>3, <1>4, EvictFcnProps DEF Victims
<1>6. e.frame \in Frames /\ WordsOK(e.word)
  BY <1>2, <1>3, <1>5 DEF Frames, WordsOK, WordType, Words, SameButRef
<1>7. Owner(e) \in Pages
  BY <1>6 DEF Owner, TypeInv, TypeOK, Evicting, FreeFrames
<1>8. WordsOK(Unmapped(e))
  BY <1>6, <1>7 DEF Unmapped, ToggleValid, WordsOK, WordType
<1> QED BY <1>5, <1>6, <1>7, <1>8

\* The slot chosen for a page is a slot.
LEMMA SlotTypes ==
    ASSUME NEW offs \in [Pages -> Slots \union {NoSlot}], NEW q \in Pages,
           NEW s \in SlotsFor(offs, q)
    PROVE  s \in Slots
<1>1. CASE offs[q] # NoSlot
  BY <1>1 DEF SlotsFor
<1>2. CASE offs[q] = NoSlot
  <2>1. Slots \ swapmap # {} /\ Slots \ swapmap \subseteq Nat /\ s = Min(Slots \ swapmap)
    BY <1>2 DEF SlotsFor, Slots
  <2> QED BY <2>1, MinProps
<1> QED BY <1>1, <1>2

LEMMA InitTypes == Init => TypeInv
<1> SUFFICES ASSUME Init PROVE TypeInv
  OBVIOUS
<1>1. trace \in Seq(Accesses) /\ pos \in 1..(Len(trace) + 1)
  BY DEF Init
<1>2. word \in [Pages -> WordType] /\ \A q \in Pages : ~word[q].onswap
  BY FramesInterval DEF Init, ZeroWord, WordType
<1>3. coremap \in [Frames -> FrameType] /\ \A f \in Frames : ~coremap[f].in_use
  BY DEF Init, EmptyFrame, FrameType
<1>4. BlankPage \in PageType
  BY DEF BlankPage, PageType
<1> QED BY <1>1, <1>2, <1>3, <1>4 DEF Init, TypeInv, TypeOK, CountType

LEMMA NextTypes == TypeInv /\ [Next]_vars => TypeInv'
<1> SUFFICES ASSUME TypeInv, [Next]_vars PROVE TypeInv'
  OBVIOUS
<1> DEFINE SwapOK == /\ swap_off' \in [Pages -> Slots \union {NoSlot}]
                     /\ swapmap' \subseteq Slots /\ swapfile' \in [Slots -> PageType]
           w0 == WordsFor(Page)
<1>a. /\ swapmap \subseteq Slots /\ swapfile \in [Slots -> PageType] /\ count \in CountType
      /\ physmem \in [Frames -> PageType] /\ referlist \in Seq(Pages) /\ CoremapOK(coremap)
  BY DEF TypeInv, TypeOK, CoremapOK
<1>b. /\ [count EXCEPT !.hit = count.hit + 1] \in CountType
      /\ [count EXCEPT !.miss = count.miss + 1] \in CountType
      /\ [count EXCEPT !.clean = count.clean + 1] \in CountType
      /\ [count EXCEPT !.dirty = count.dirty + 1] \in CountType
  BY <1>a, CountTypes
<1>c. Replaying => /\ Page \in Pages /\ WordsOK(w0)
                   /\ OffsFor(Page) \in [Pages -> Slots \union {NoSlot}]
                   /\ WordsOK(FirstUse(w0, Page))
  <2> SUFFICES ASSUME Replaying
               PROVE  /\ Page \in Pages /\ WordsOK(w0)
                      /\ OffsFor(Page) \in [Pages -> Slots \union {NoSlot}]
                      /\ WordsOK(FirstUse(w0, Page))
    OBVIOUS
  <2>1. Page \in Pages
    BY CurrentAccess
  <2>2. WordsOK(w0) /\ OffsFor(Page) \in [Pages -> Slots \union {NoSlot}]
    BY <2>1, WordsForTypes
  <2>3. WordsOK(FirstUse(w0, Page))
    BY <2>1, <2>2, FirstUseTypes
  <2> QED BY <2>1, <2>2, <2>3
<1> HIDE DEF w0
<1>1. CASE Hit
  <2>1. SwapOK
    BY <1>1, <1>a, <1>c DEF Hit
  <2> QED BY <1>1, <1>a, <1>b, <1>c, <2>1, ReferenceTypes DEF Hit, w0
<1>2. CASE UseFreeFrame
  <2>1. SwapOK
    BY <1>2, <1>a, <1>c DEF UseFreeFrame, Missing
  <2>2. Min(FreeFrames) \in Frames
    <3>1. FreeFrames \subseteq Nat /\ FreeFrames \subseteq Frames /\ FreeFrames # {}
      BY <1>2 DEF UseFreeFrame, FreeFrames, Frames
    <3> QED BY <3>1, MinProps
  <2> QED BY <1>2, <1>a, <1>c, <2>1, <2>2, PlaceTypes DEF UseFreeFrame, Missing, w0
<1>3. CASE EvictClean
  <2>1. SwapOK
    BY <1>3, <1>a, <1>c DEF EvictClean, Evicting, Missing
  <2>2. PICK e \in Victims :
          Place(Unmapped(e), e.list, Unmapped(e)[Owner(e)].num,
                [count EXCEPT !.clean = count.clean + 1])
    BY <1>3 DEF EvictClean
  <2>3. e.list \in Seq(Pages) /\ Owner(e) \in Pages /\ WordsOK(Unmapped(e))
    BY <1>3, VictimTypes DEF EvictClean
  <2>4. Unmapped(e)[Owner(e)].num \in Frames
    BY <2>3 DEF WordsOK, WordType
  <2> QED BY <1>3, <1>b, <2>1, <2>2, <2>3, <2>4, PlaceTypes DEF EvictClean, Evicting, Missing
<1>4. CASE EvictDirty
  <2>1. PICK e \in Victims : \E s \in SlotsFor(OffsFor(Page), Owner(e)) :
          /\ swapmap' = swapmap \union {s}
          /\ swapfile' = [swapfile EXCEPT ![s] = physmem[SwapSource(e.frame)]]
          /\ swap_off' = [OffsFor(Page) EXCEPT ![Owner(e)] = s]
          /\ Place(ClearDirty(Unmapped(e), Owner(e)), e.list, Unmapped(e)[Owner(e)].num,
                   [count EXCEPT !.dirty = count.dirty + 1])
    BY <1>4 DEF EvictDirty
  <2>2. /\ e.frame \in Frames /\ e.list \in Seq(Pages) /\ Owner(e) \in Pages
        /\ WordsOK(Unmapped(e))
    BY <1>4, VictimTypes DEF EvictDirty
  <2>3. Unmapped(e)[Owner(e)].num \in Frames /\ WordsOK(ClearDirty(Unmapped(e), Owner(e)))
    BY <2>2 DEF WordsOK, WordType, ClearDirty
  <2>4. SwapSource(e.frame) \in Frames
    BY <2>2 DEF SwapSource, PAGE_SIZE, Frames
  <2>5. SwapOK
    <3>1. physmem[SwapSource(e.frame)] \in PageType
      BY <1>a, <2>4
    <3>2. OffsFor(Page) \in [Pages -> Slots \union {NoSlot}]
      BY <1>4, <1>c DEF EvictDirty, Evicting, Missing
    <3>3. PICK s \in SlotsFor(OffsFor(Page), Owner(e)) :
            /\ swapmap' = swapmap \union {s}
            /\ swapfile' = [swapfile EXCEPT ![s] = physmem[SwapSource(e.frame)]]
            /\ swap_off' = [OffsFor(Page) EXCEPT ![Owner(e)] = s]
      BY <2>1
    <3>4. s \in Slots
      BY <2>2, <3>2, SlotTypes
    <3> QED BY <1>a, <2>2, <3>1, <3>2, <3>3, <3>4
  <2> QED BY <1>4, <1>b, <2>1, <2>2, <2>3, <2>5, PlaceTypes DEF EvictDirty, Evicting, Missing
<1>5. CASE SwapFails
  <2>1. PICK e \in Victims :
          /\ \/ swapmap' = swapmap
             \/ \E s \in SlotsFor(OffsFor(Page), Owner(e)) : swapmap' = swapmap \union {s}
          /\ swap_off' = [OffsFor(Page) EXCEPT ![Owner(e)] = NoSlot]
          /\ Reference(Unmapped(e), coremap, physmem, e.list,
                       [count EXCEPT !.miss = count.miss + 1])
    BY <1>5 DEF SwapFails
  <2>2. e.list \in Seq(Pages) /\ Owner(e) \in Pages /\ WordsOK(Unmapped(e))
    BY <1>5, VictimTypes DEF SwapFails
  <2>3. SwapOK
    BY <1>5, <1>a, <1>c, <2>1, <2>2, SlotTypes DEF SwapFails, Evicting, Missing
  <2> QED BY <1>5, <1>a, <1>b, <2>1, <2>2, <2>3, ReferenceTypes DEF SwapFails, Evicting, Missing
<1>6. CASE EvictCrashes \/ Finish
  BY <1>6 DEF EvictCrashes, Finish, TypeInv, TypeOK
<1>7. CASE Stopped \/ UNCHANGED vars
  BY <1>7 DEF Stopped, vars, TypeInv, TypeOK
<1> QED BY <1>1, <1>2, <1>3, <1>4, <1>5, <1>6, <1>7 DEF Next

\* Every reachable state has its types, whatever the sizes, the algorithm and
\* the failures of the swap file: no frame word ever names a frame outside
\* memory, no core map entry in use lacks a page and no slot lies outside the
\* swap file.
THEOREM TypeCorrect == Spec => []TypeOK
<1>1. TypeInv => TypeOK
  BY DEF TypeInv
<1> QED BY <1>1, InitTypes, NextTypes, PTL DEF Spec

-----------------------------------------------------------------------------
(* What a full swap file and failing writes leave in order.                *)

\* A reference counts itself and keeps what was counted before it.
LEMMA Counted ==
    ASSUME NEW c \in CountType, NEW w, NEW cm, NEW pm, NEW l, Reference(w, cm, pm, l, c)
    PROVE  /\ pos' = pos + 1 /\ count'.ref = c.ref + 1
           /\ count'.hit = c.hit /\ count'.miss = c.miss
           /\ count'.clean = c.clean /\ count'.dirty = c.dirty
<1>1. pos' = pos + 1 /\ count' = [c EXCEPT !.ref = c.ref + 1]
  BY DEF Reference
<1> QED BY <1>1 DEF CountType

LEMMA PlaceCounted ==
    ASSUME NEW c \in CountType, NEW w, NEW l, NEW f, Place(w, l, f, c)
    PROVE  /\ pos' = pos + 1 /\ count'.ref = c.ref + 1
           /\ count'.hit = c.hit /\ count'.miss = c.miss + 1
           /\ count'.clean = c.clean /\ count'.dirty = c.dirty
<1> DEFINE d == [c EXCEPT !.miss = c.miss + 1]
<1>1. d \in CountType
  BY CountTypes
<1>2. d.ref = c.ref /\ d.hit = c.hit /\ d.miss = c.miss + 1 /\ d.clean = c.clean /\ d.dirty = c.dirty
  BY DEF CountType
<1>3. Reference(Install(w, Page, f), Own(coremap, Page, f), [physmem EXCEPT ![f] = Fill(Page)], l, d)
  BY DEF Place
<1> HIDE DEF d
<1> QED BY <1>1, <1>2, <1>3, Counted

\* What each kind of step counts.
LEMMA StepCounted ==
    ASSUME TypeInv, [Next]_vars
    PROVE  \/ UNCHANGED <<pos, count>>
           \/ /\ pos' = pos + 1 /\ count'.ref = count.ref + 1
              /\ \/ /\ Hit
                    /\ count'.hit = count.hit + 1 /\ count'.miss = count.miss
                    /\ count'.clean = count.clean /\ count'.dirty = count.dirty
                 \/ /\ UseFreeFrame \/ SwapFails
                    /\ count'.hit = count.hit /\ count'.miss = count.miss + 1
                    /\ count'.clean = count.clean /\ count'.dirty = count.dirty
                 \/ /\ EvictClean
                    /\ count'.hit = count.hit /\ count'.miss = count.miss + 1
                    /\ count'.clean = count.clean + 1 /\ count'.dirty = count.dirty
                 \/ /\ EvictDirty
                    /\ count'.hit = count.hit /\ count'.miss = count.miss + 1
                    /\ count'.clean = count.clean /\ count'.dirty = count.dirty + 1
<1>0. count \in CountType
  BY DEF TypeInv, TypeOK
<1> DEFINE h == [count EXCEPT !.hit = count.hit + 1]
           m == [count EXCEPT !.miss = count.miss + 1]
           n == [count EXCEPT !.clean = count.clean + 1]
           d == [count EXCEPT !.dirty = count.dirty + 1]
<1>1. h \in CountType /\ m \in CountType /\ n \in CountType /\ d \in CountType
  BY <1>0, CountTypes
<1>2. /\ h.ref = count.ref /\ h.hit = count.hit + 1 /\ h.miss = count.miss
      /\ h.clean = count.clean /\ h.dirty = count.dirty
  BY <1>0 DEF CountType
<1>3. /\ m.ref = count.ref /\ m.hit = count.hit /\ m.miss = count.miss + 1
      /\ m.clean = count.clean /\ m.dirty = count.dirty
  BY <1>0 DEF CountType
<1>4. /\ n.ref = count.ref /\ n.hit = count.hit /\ n.miss = count.miss
      /\ n.clean = count.clean + 1 /\ n.dirty = count.dirty
  BY <1>0 DEF CountType
<1>5. /\ d.ref = count.ref /\ d.hit = count.hit /\ d.miss = count.miss
      /\ d.clean = count.clean /\ d.dirty = count.dirty + 1
  BY <1>0 DEF CountType
<1>6. CASE Hit
  <2>1. Reference(WordsFor(Page), coremap, physmem, referlist, h)
    BY <1>6 DEF Hit
  <2> HIDE DEF h, m, n, d
  <2> QED BY <1>1, <1>2, <1>6, <2>1, Counted
<1>7. CASE UseFreeFrame
  <2>1. Place(FirstUse(WordsFor(Page), Page), referlist, Min(FreeFrames), count)
    BY <1>7 DEF UseFreeFrame
  <2> QED BY <1>0, <1>7, <2>1, PlaceCounted
<1>8. CASE EvictClean
  <2>1. PICK e \in Victims : Place(Unmapped(e), e.list, Unmapped(e)[Owner(e)].num, n)
    BY <1>8 DEF EvictClean
  <2> HIDE DEF h, m, n, d
  <2> QED BY <1>1, <1>4, <1>8, <2>1, PlaceCounted
<1>9. CASE EvictDirty
  <2>1. PICK e \in Victims :
          Place(ClearDirty(Unmapped(e), Owner(e)), e.list, Unmapped(e)[Owner(e)].num, d)
    BY <1>9 DEF EvictDirty
  <2> HIDE DEF h, m, n, d
  <2> QED BY <1>1, <1>5, <1>9, <2>1, PlaceCounted
<1>10. CASE SwapFails
  <2>1. PICK e \in Victims : Reference(Unmapped(e), coremap, physmem, e.list, m)
    BY <1>10 DEF SwapFails
  <2> HIDE DEF h, m, n, d
  <2> QED BY <1>1, <1>3, <1>10, <2>1, Counted
<1>11. CASE EvictCrashes \/ Finish \/ Stopped \/ UNCHANGED vars
  BY <1>11 DEF EvictCrashes, Finish, Stopped, vars
<1> QED BY <1>6, <1>7, <1>8, <1>9, <1>10, <1>11 DEF Next

\* Whatever fails: every reference is counted as a hit or a miss, and no miss
\* as two evictions.
THEOREM CountersAgree == Spec => []CountersAddUp
<1>1. TypeInv /\ CountersAddUp /\ [Next]_vars => CountersAddUp'
  <2> SUFFICES ASSUME TypeInv, CountersAddUp, [Next]_vars PROVE CountersAddUp'
    OBVIOUS
  <2>1. count \in CountType /\ count' \in CountType /\ pos \in Nat
    BY NextTypes DEF TypeInv, TypeOK
  <2>2. /\ count.hit \in Nat /\ count.miss \in Nat /\ count.ref \in Nat
        /\ count.clean \in Nat /\ count.dirty \in Nat
    BY <2>1 DEF CountType
  <2>3. CASE UNCHANGED <<pos, count>>
    BY <2>3 DEF CountersAddUp
  <2>4. CASE ~UNCHANGED <<pos, count>>
    <3>1. /\ pos' = pos + 1 /\ count'.ref = count.ref + 1
          /\ \/ /\ count'.hit = count.hit + 1 /\ count'.miss = count.miss
                /\ count'.clean = count.clean /\ count'.dirty = count.dirty
             \/ /\ count'.hit = count.hit /\ count'.miss = count.miss + 1
                /\ \/ count'.clean = count.clean /\ count'.dirty = count.dirty
                   \/ count'.clean = count.clean + 1 /\ count'.dirty = count.dirty
                   \/ count'.clean = count.clean /\ count'.dirty = count.dirty + 1
      BY <2>4, StepCounted
    <3>2. /\ count.hit + count.miss = count.ref /\ count.ref = pos - 1
          /\ count.clean + count.dirty <= count.miss
      BY DEF CountersAddUp
    <3>3. /\ count'.hit + count'.miss = count'.ref /\ count'.ref = pos' - 1
          /\ count'.clean + count'.dirty <= count'.miss
      BY <2>1, <2>2, <3>1, <3>2, SMTT(30)
    <3> QED BY <3>3 DEF CountersAddUp
  <2> QED BY <2>3, <2>4
<1>2. Init => TypeInv /\ CountersAddUp
  BY InitTypes DEF Init, CountersAddUp
<1> QED BY <1>1, <1>2, NextTypes, PTL DEF Spec

\* One page gets a slot: the one it has or one that is free.
LEMMA OneSlot ==
    ASSUME NEW offs \in [Pages -> Slots \union {NoSlot}], NEW q \in Pages,
           NEW s \in SlotsFor(offs, q)
    PROVE  s \in Slots /\ (offs[q] = s \/ (offs[q] = NoSlot /\ s \notin swapmap))
<1>1. s \in Slots
  BY SlotTypes
<1>2. CASE offs[q] # NoSlot
  BY <1>1, <1>2 DEF SlotsFor
<1>3. CASE offs[q] = NoSlot
  <2>1. Slots \ swapmap # {} /\ Slots \ swapmap \subseteq Nat /\ s = Min(Slots \ swapmap)
    BY <1>3 DEF SlotsFor, Slots
  <2> QED BY <1>1, <1>3, <2>1, MinProps
<1> QED BY <1>2, <1>3

\* Pages that lose their slots, a page that gets one, and more marks keep the
\* slots distinct.
LEMMA SlotsKept ==
    ASSUME SlotsDistinct, NEW p \in Pages, NEW s,
           swapmap \subseteq swapmap',
           \A q \in Pages : q # p => swap_off'[q] \in {swap_off[q], NoSlot},
           swap_off'[p] \in {swap_off[p], NoSlot, s},
           \/ swap_off[p] = s
           \/ s \in swapmap' /\ s \notin swapmap
           \/ s = NoSlot
    PROVE  SlotsDistinct'
BY DEF SlotsDistinct

\* Two pages never share a slot, also when writes fail and when the file is
\* full, and the slot of a page is never handed out again.
THEOREM SlotsNeverShared == Spec => []SlotsDistinct
<1>1. TypeInv /\ SlotsDistinct /\ [Next]_vars => SlotsDistinct'
  <2> SUFFICES ASSUME TypeInv, SlotsDistinct, [Next]_vars PROVE SlotsDistinct'
    OBVIOUS
  <2>0. swap_off \in [Pages -> Slots \union {NoSlot}] /\ NoSlot \notin Slots
    BY DEF TypeInv, TypeOK, Slots, NoSlot
  <2>1. /\ OffsFor(Page) \in [Pages -> Slots \union {NoSlot}]
        /\ \A q \in Pages : OffsFor(Page)[q] \in {swap_off[q], NoSlot}
    BY <2>0 DEF OffsFor
  <2>2. CASE Hit \/ UseFreeFrame \/ EvictClean
    <3>1. swap_off' = OffsFor(Page) /\ swapmap' = swapmap
      BY <2>2 DEF Hit, UseFreeFrame, EvictClean
    <3> QED BY <2>1, <3>1 DEF SlotsDistinct
  <2>3. CASE EvictDirty \/ SwapFails
    <3>1. PICK e \in Victims : \E s \in SlotsFor(OffsFor(Page), Owner(e)) \union {NoSlot} :
            /\ swap_off' = [OffsFor(Page) EXCEPT ![Owner(e)] = s]
            /\ swapmap \subseteq swapmap'
            /\ s # NoSlot => s \in swapmap'
      <4>1. CASE EvictDirty
        BY <4>1 DEF EvictDirty
      <4>2. CASE SwapFails
        BY <4>2 DEF SwapFails
      <4> QED BY <2>3, <4>1, <4>2
    <3>2. PICK s \in SlotsFor(OffsFor(Page), Owner(e)) \union {NoSlot} :
            /\ swap_off' = [OffsFor(Page) EXCEPT ![Owner(e)] = s]
            /\ swapmap \subseteq swapmap'
            /\ s # NoSlot => s \in swapmap'
      BY <3>1
    <3>3. Owner(e) \in Pages
      BY <2>3, VictimTypes DEF EvictDirty, SwapFails
    <3>4. s = NoSlot \/ (OffsFor(Page)[Owner(e)] = s /\ s \in Slots)
          \/ (s \notin swapmap /\ s \in swapmap')
      BY <2>1, <3>2, <3>3, OneSlot
    <3>5. s = NoSlot \/ swap_off[Owner(e)] = s \/ (s \in swapmap' /\ s \notin swapmap)
      BY <2>0, <2>1, <3>3, <3>4
    <3>6. /\ \A q \in Pages : q # Owner(e) => swap_off'[q] \in {swap_off[q], NoSlot}
          /\ swap_off'[Owner(e)] = s
      BY <2>1, <3>2, <3>3
    <3> QED BY <3>2, <3>3, <3>5, <3>6, SlotsKept
  <2>4. CASE EvictCrashes \/ Finish \/ Stopped \/ UNCHANGED vars
    BY <2>4 DEF EvictCrashes, Finish, Stopped, vars, SlotsDistinct
  <2> QED BY <2>2, <2>3, <2>4 DEF Next
<1>2. Init => TypeInv /\ SlotsDistinct
  BY InitTypes DEF Init, SlotsDistinct
<1> QED BY <1>1, <1>2, NextTypes, PTL DEF Spec

-----------------------------------------------------------------------------
(* No two pages share a frame: the page table, the core map, the list of   *)
(* the replacement algorithm, the contents of memory and the swap slots    *)
(* stay consistent as long as the swap file can hold every page.           *)

RoomySwap == ~WriteFaults /\ Cardinality(Pages) <= swapsize

\* The inductive invariant.  The frame table needs the list, because a list
\* algorithm names its victim by a list node; the list needs the frame table,
\* because the list is searched by frame word; TablesFresh makes a new
\* second-level table harmless, and SlotsOwned shows there is a slot left for
\* every victim.
FrameInv ==
    /\ TypeInv
    /\ TablesFresh
    /\ FrameTable
    /\ ListTracksMemory
    /\ SelfCheck
    /\ SlotsOwned

ListAlg == alg \in {"lru", "fifo", "clock"}

\* The state between the removal of a victim (if any) and the placement of
\* the page in frame f: w and l are the frame words and the list.
Vacated(w, l, f) ==
    LET R == {q \in Pages : w[q].valid}
    IN  /\ Page \notin R
        /\ \A q \in R : LET c == coremap[w[q].num]
                        IN  w[q].num # f /\ c.in_use /\ c.pte = q /\ c.vaddr = q
        /\ \A g \in Frames \ {f} : coremap[g].in_use =>
             w[coremap[g].pte].valid /\ w[coremap[g].pte].num = g
        /\ ListAlg => Range(l) = R /\ IsInjective(l)
        /\ \A q \in R : physmem[w[q].num].vaddr = q

\* Vacated looks at nothing but the valid bits and frame numbers of words.
LEMMA VacatedSameFrames ==
    ASSUME NEW u, NEW w, NEW l, NEW f, Vacated(u, l, f),
           \A q \in Pages : w[q].valid = u[q].valid /\ w[q].num = u[q].num,
           \A g \in Frames : coremap[g].in_use => coremap[g].pte \in Pages
    PROVE  Vacated(w, l, f)
<1> DEFINE R(v) == {q \in Pages : v[q].valid}
<1>1. R(w) = R(u)
  OBVIOUS
<1>2. R(u) \subseteq Pages
  OBVIOUS
<1>3. /\ Page \notin R(u)
      /\ \A q \in R(u) : LET c == coremap[u[q].num]
                          IN  u[q].num # f /\ c.in_use /\ c.pte = q /\ c.vaddr = q
      /\ \A g \in Frames \ {f} : coremap[g].in_use =>
           u[coremap[g].pte].valid /\ u[coremap[g].pte].num = g
      /\ ListAlg => Range(l) = R(u) /\ IsInjective(l)
      /\ \A q \in R(u) : physmem[u[q].num].vaddr = q
  BY DEF Vacated
<1> HIDE DEF R
<1>4. \A q \in R(w) : w[q].num = u[q].num
  BY <1>1, <1>2
<1>5. \A g \in Frames \ {f} : coremap[g].in_use =>
        w[coremap[g].pte].valid /\ w[coremap[g].pte].num = g
  BY <1>3
<1>6. /\ \A q \in R(w) : LET c == coremap[w[q].num]
                          IN  w[q].num # f /\ c.in_use /\ c.pte = q /\ c.vaddr = q
      /\ \A q \in R(w) : physmem[w[q].num].vaddr = q
  BY <1>1, <1>3, <1>4
<1> QED BY <1>1, <1>3, <1>5, <1>6 DEF Vacated, R

\* A new second-level table changes no valid entry and no slot.
LEMMA NewTableHarmless ==
    ASSUME FrameInv, NEW p \in Pages
    PROVE  /\ OffsFor(p) = swap_off
           /\ \A q \in Pages : /\ WordsFor(p)[q].valid = word[q].valid
                               /\ word[q].valid => WordsFor(p)[q] = word[q]
<1>1. \A q \in NewTable(p) : ~word[q].valid /\ swap_off[q] = NoSlot
  BY DEF NewTable, FrameInv, TablesFresh
<1>2. \A q \in NewTable(p) : word[q].valid = FALSE
  BY <1>1 DEF FrameInv, TypeInv, TypeOK, WordType, NewTable
<1>3. swap_off \in [Pages -> Slots \union {NoSlot}]
  BY DEF FrameInv, TypeInv, TypeOK
<1>4. OffsFor(p) = swap_off
  BY <1>1, <1>3 DEF OffsFor
<1>5. ASSUME NEW q \in Pages
      PROVE  /\ WordsFor(p)[q].valid = word[q].valid
             /\ word[q].valid => WordsFor(p)[q] = word[q]
  <2>1. CASE q \in NewTable(p)
    BY <1>2, <2>1 DEF WordsFor, ZeroWord
  <2>2. CASE q \notin NewTable(p)
    BY <2>2 DEF WordsFor
  <2> QED BY <2>1, <2>2
<1> QED BY <1>4, <1>5

\* Completing a reference to a resident page keeps frame table, list and
\* memory: among resident pages only the page itself has its frame word.
LEMMA ReferenceKeeps ==
    ASSUME TypeInv, Replaying, NEW w, WordsOK(w), NEW cm, CoremapOK(cm),
           NEW pm \in [Frames -> PageType], NEW l \in Seq(Pages), NEW c,
           Reference(w, cm, pm, l, c),
           w[Page].valid,
           \A q \in Pages : w[q].valid => cm[w[q].num].in_use /\ cm[w[q].num].pte = q,
           \A q \in Pages : w[q].valid /\ q # Page => cm[w[q].num].vaddr = q,
           \A g \in Frames : cm[g].in_use => w[cm[g].pte].valid /\ w[cm[g].pte].num = g,
           ListAlg => /\ Range(l) \union {Page} = {q \in Pages : w[q].valid}
                      /\ IsInjective(l),
           \A q \in Pages : w[q].valid => pm[w[q].num].vaddr = q
    PROVE  FrameTable' /\ ListTracksMemory' /\ SelfCheck'
<1> DEFINE f == w[Page].num
           t == Touch(w, Page, Type)
           r == [w[Page] EXCEPT !.valid = TRUE, !.ref = TRUE,
                                !.dirty = w[Page].dirty \/ Type = Store]
<1>1. Page \in Pages /\ w \in [Pages -> WordType] /\ f \in Frames
  BY CurrentAccess DEF WordsOK, WordType
<1>2. t = [w EXCEPT ![Page] = r] /\ word' = t
  BY DEF Touch, Reference
<1>3. r.num = f /\ r.valid = TRUE
  BY <1>1 DEF WordType
<1>4. \A q \in Pages : t[q].num = w[q].num /\ (t[q].valid <=> w[q].valid)
  <2> HIDE DEF r, f, t
  <2> QED BY <1>1, <1>2, <1>3 DEF f
<1>5. \A q \in Pages : w[q].num \in Frames
  BY <1>1 DEF WordType
<1> HIDE DEF t, r
<1>6. coremap' = [cm EXCEPT ![f].vaddr = Page]
  BY DEF Reference
<1>7. /\ \A g \in Frames : coremap'[g].in_use = cm[g].in_use /\ coremap'[g].pte = cm[g].pte
      /\ \A g \in Frames : g # f => coremap'[g].vaddr = cm[g].vaddr
      /\ coremap'[f].vaddr = Page
  BY <1>1, <1>6 DEF CoremapOK, FrameType
<1>8. \A q \in Pages : w[q].valid /\ w[q].num = f => q = Page
  BY <1>1
<1>9. FrameTable'
  <2>1. ASSUME NEW q \in Resident'
        PROVE  LET d == coremap'[word'[q].num] IN d.in_use /\ d.pte = q /\ d.vaddr = q
    <3>1. q \in Pages /\ w[q].valid /\ word'[q].num = w[q].num /\ w[q].num \in Frames
      BY <1>2, <1>4, <1>5, <2>1 DEF Resident
    <3>2. CASE q = Page
      BY <1>7, <3>1, <3>2
    <3>3. CASE q # Page
      BY <1>7, <1>8, <3>1, <3>3
    <3> QED BY <3>2, <3>3
  <2>2. ASSUME NEW g \in Frames, coremap'[g].in_use
        PROVE  word'[coremap'[g].pte].valid /\ word'[coremap'[g].pte].num = g
    <3>1. cm[g].in_use /\ coremap'[g].pte = cm[g].pte /\ cm[g].pte \in Pages
      BY <1>7, <2>2 DEF CoremapOK
    <3> QED BY <1>2, <1>4, <3>1
  <2> QED BY <2>1, <2>2 DEF FrameTable
<1>10. Resident' = {q \in Pages : w[q].valid}
  BY <1>2, <1>4 DEF Resident
<1>11. ListTracksMemory'
  <2> SUFFICES ASSUME ListAlg PROVE Range(referlist') = Resident' /\ IsInjective(referlist')
    BY DEF ListTracksMemory, ListAlg, Reference
  <2>1. \A i \in DOMAIN l : l[i] \in Pages /\ w[l[i]].valid
    BY DEF Range
  <2>2. ASSUME NEW i \in DOMAIN l, t[l[i]] = t[Page] PROVE l[i] = Page
    <3>1. t[l[i]].num = w[l[i]].num /\ t[Page].num = f
      BY <1>1, <1>4, <2>1
    <3>2. w[l[i]].num = f
      BY <2>2, <3>1
    <3> QED BY <1>8, <2>1, <3>2
  <2>3. Matches(l, t, Page) = {} <=> Page \notin Range(l)
    BY <2>2 DEF Matches, Range
  <2>4. referlist' = RefFcn(alg, l, t, Page)
    BY DEF Reference, t
  <2>5. Range(referlist') = Range(l) \union {Page} /\ IsInjective(referlist')
    BY <1>1, <2>3, <2>4, RefFcnProps DEF ListAlg
  <2> QED BY <1>10, <2>5
<1>12. SelfCheck'
  <2>1. physmem' = [pm EXCEPT ![f].version = pm[f].version + (IF Type = Store THEN 1 ELSE 0)]
    BY DEF Reference
  <2>2. \A g \in Frames : physmem'[g].vaddr = pm[g].vaddr
    BY <1>1, <2>1 DEF PageType
  <2> QED BY <1>2, <1>4, <1>5, <1>10, <2>2 DEF SelfCheck
<1> QED BY <1>9, <1>11, <1>12

\* Placing a page in a vacated frame does so too.
LEMMA PlaceKeeps ==
    ASSUME FrameInv, Replaying, NEW w, WordsOK(w), NEW l \in Seq(Pages), NEW f \in Frames,
           NEW c, Vacated(w, l, f), Place(w, l, f, c)
    PROVE  FrameTable' /\ ListTracksMemory' /\ SelfCheck'
<1> DEFINE x == Install(w, Page, f)
           cm == Own(coremap, Page, f)
           pm == [physmem EXCEPT ![f] = Fill(Page)]
           d == [c EXCEPT !.miss = c.miss + 1]
           z == [ZeroWord EXCEPT !.num = f, !.valid = TRUE]
<1>1. Page \in Pages /\ TypeInv /\ w \in [Pages -> WordType]
  BY CurrentAccess DEF FrameInv, WordsOK
<1>2. x = [w EXCEPT ![Page] = z] /\ z \in WordType /\ z.num = f /\ z.valid /\ ~z.onswap
  BY DEF Install, ZeroWord, WordType
<1> HIDE DEF z
<1>3. /\ WordsOK(x) /\ x[Page].valid /\ x[Page].num = f
      /\ \A q \in Pages : q # Page => x[q] = w[q]
  BY <1>1, <1>2 DEF WordsOK
<1>4. /\ CoremapOK(cm) /\ cm[f].in_use /\ cm[f].pte = Page
      /\ \A g \in Frames : g # f => cm[g] = coremap[g]
  <2>1. coremap \in [Frames -> FrameType] /\ \A g \in Frames : coremap[g].in_use => coremap[g].pte \in Pages
    BY <1>1 DEF TypeInv, TypeOK
  <2> QED BY <1>1, <2>1 DEF Own, CoremapOK, FrameType
<1>5. /\ pm \in [Frames -> PageType] /\ pm[f].vaddr = Page
      /\ \A g \in Frames : g # f => pm[g] = physmem[g]
  <2>1. physmem \in [Frames -> PageType]
    BY <1>1 DEF TypeInv, TypeOK
  <2>2. Fill(Page) = [version |-> 0, vaddr |-> Page]
    BY <1>1, WordsForTypes DEF Fill, WordsOK
  <2> QED BY <1>1, <2>1, <2>2 DEF PageType
<1>6. Reference(x, cm, pm, l, d)
  BY DEF Place
<1>7. \A q \in Pages : q # Page /\ w[q].valid =>
        /\ w[q].num \in Frames /\ w[q].num # f
        /\ coremap[w[q].num].in_use /\ coremap[w[q].num].pte = q /\ coremap[w[q].num].vaddr = q
        /\ physmem[w[q].num].vaddr = q
  BY <1>1 DEF Vacated, WordType
<1>8. \A q \in Pages : x[q].valid => cm[x[q].num].in_use /\ cm[x[q].num].pte = q
  BY <1>3, <1>4, <1>7
<1>9. \A q \in Pages : x[q].valid /\ q # Page => cm[x[q].num].vaddr = q
  BY <1>3, <1>4, <1>7
<1>10. \A g \in Frames : cm[g].in_use => x[cm[g].pte].valid /\ x[cm[g].pte].num = g
  <2> TAKE g \in Frames
  <2>1. CASE g = f
    BY <1>3, <1>4, <2>1
  <2>2. CASE g # f
    <3>1. coremap[g].in_use => /\ coremap[g].pte \in Pages
                               /\ w[coremap[g].pte].valid /\ w[coremap[g].pte].num = g
      BY <1>1, <2>2 DEF Vacated, TypeInv, TypeOK
    <3>2. coremap[g].in_use => coremap[g].pte # Page
      BY <1>1, <3>1 DEF Vacated
    <3> QED BY <1>3, <1>4, <2>2, <3>1, <3>2, ZenonT(60)
  <2> QED BY <2>1, <2>2
<1>11. ListAlg => /\ Range(l) \union {Page} = {q \in Pages : x[q].valid}
                  /\ IsInjective(l)
  <2> HIDE DEF x
  <2>1. {q \in Pages : x[q].valid} = {q \in Pages : w[q].valid} \union {Page}
    BY <1>1, <1>3
  <2> QED BY <2>1 DEF Vacated
<1>12. \A q \in Pages : x[q].valid => pm[x[q].num].vaddr = q
  BY <1>3, <1>5, <1>7
<1> HIDE DEF x, cm, pm, d
<1> QED BY <1>1, <1>3, <1>4, <1>5, <1>6, <1>8, <1>9, <1>10, <1>11, <1>12, ReferenceKeeps

\* evict_fcn names the frame of a resident page, its owner, and a list
\* algorithm takes exactly that page off its list.
LEMMA VictimVacates ==
    ASSUME FrameInv, Evicting, EvictDefined(alg, referlist), NEW e \in Victims
    PROVE  /\ e.frame \in Frames /\ e.list \in Seq(Pages) /\ WordsOK(Unmapped(e))
           /\ Owner(e) \in Resident /\ Unmapped(e)[Owner(e)].num = e.frame
           /\ Vacated(Unmapped(e), e.list, e.frame)
<1> DEFINE w0 == WordsFor(Page)
           w1 == FirstUse(w0, Page)
           u == Unmapped(e)
           o == Owner(e)
<1>1. TypeInv /\ Page \in Pages /\ ~word[Page].valid /\ WordsOK(w0) /\ WordsOK(w1)
  <2>1. TypeInv /\ Page \in Pages
    BY CurrentAccess DEF FrameInv, Evicting, Missing
  <2>2. ~w0[Page].valid
    BY DEF Evicting, Missing
  <2> QED BY <2>1, <2>2, WordsForTypes, FirstUseTypes, NewTableHarmless
<1>2. \A q \in Pages : (w1[q].valid <=> word[q].valid) /\ (word[q].valid => w1[q] = word[q])
  <2>1. \A q \in Pages : (w0[q].valid <=> word[q].valid) /\ (word[q].valid => w0[q] = word[q])
    BY <1>1, NewTableHarmless
  <2>2. w1[Page].valid = w0[Page].valid /\ \A q \in Pages : q # Page => w1[q] = w0[q]
    BY <1>1 DEF FirstUse, WordsOK, WordType
  <2> HIDE DEF w0, w1
  <2> QED BY <1>1, <2>1, <2>2
<1>3. /\ e.frame \in Frames /\ e.list \in Seq(Pages) /\ o \in Pages
      /\ WordsOK(u) /\ SameButRef(w1, e.word)
  BY <1>1, VictimTypes
<1>4. e.word \in Words(Pages, 0..(memsize - 1))
      /\ (ListAlg => \E k \in DOMAIN referlist : Evicts(referlist, w1, k, e))
  <2>1. w1 \in Words(Pages, 0..(memsize - 1))
    BY <1>1 DEF WordsOK, WordType, Words, Frames
  <2>2. DOMAIN coremap = 0..(memsize - 1) /\ referlist \in Seq(Pages) /\ trace \in Seq(Accesses)
        /\ curr \in Nat
    BY <1>1 DEF TypeInv, TypeOK, Frames
  <2> QED BY <2>1, <2>2, EvictFcnProps DEF Victims, ListAlg
<1>5. \A q \in Pages : e.word[q].num = w1[q].num /\ (e.word[q].valid <=> w1[q].valid)
  BY <1>1, <1>3 DEF SameButRef, WordsOK
<1> HIDE DEF w0, w1
<1>6. \A g \in Frames : coremap[g].in_use
  BY DEF Evicting, FreeFrames
<1>7. word[o].valid /\ word[o].num = e.frame /\ o # Page /\ o \in Resident
  BY <1>1, <1>3, <1>6 DEF FrameInv, FrameTable, Owner, Resident
<1>8. /\ ~u[o].valid /\ u[o].num = e.frame
      /\ \A q \in Pages : q # o => u[q] = e.word[q]
  <2>1. e.word[o].valid = TRUE /\ e.word[o].num = e.frame
    BY <1>2, <1>3, <1>4, <1>5, <1>7 DEF Words
  <2> QED BY <1>3, <1>4, <2>1 DEF Unmapped, ToggleValid, Words
<1> HIDE DEF u, o
<1>9. \A q \in Pages : u[q].valid <=> word[q].valid /\ q # o
  BY <1>2, <1>5, <1>8
<1>10. \A q \in Pages : word[q].valid /\ q # o => u[q].num = word[q].num
  BY <1>2, <1>5, <1>8
<1>11. \A q \in Pages : word[q].valid /\ word[q].num = e.frame => q = o
  BY <1>3 DEF FrameInv, FrameTable, Resident, Owner, o
<1>12. Vacated(u, e.list, e.frame)
  <2> DEFINE R == {q \in Pages : u[q].valid}
  <2>1. R = Resident \ {o}
    BY <1>9 DEF Resident
  <2>2. Page \notin R
    BY <1>1, <1>9
  <2>3. ASSUME NEW q \in R
        PROVE  LET c == coremap[u[q].num]
               IN  u[q].num # e.frame /\ c.in_use /\ c.pte = q /\ c.vaddr = q
    <3>1. q \in Resident /\ q # o /\ u[q].num = word[q].num /\ word[q].valid /\ q \in Pages
      BY <1>9, <1>10, <2>3 DEF Resident
    <3> QED BY <1>11, <3>1 DEF FrameInv, FrameTable
  <2>4. ASSUME NEW g \in Frames \ {e.frame}
        PROVE  u[coremap[g].pte].valid /\ u[coremap[g].pte].num = g
    <3>1. /\ coremap[g].pte \in Pages
          /\ word[coremap[g].pte].valid /\ word[coremap[g].pte].num = g
      BY <1>1, <1>6 DEF FrameInv, FrameTable, TypeInv, TypeOK
    <3>2. coremap[g].pte # o
      BY <1>7, <3>1
    <3> QED BY <1>9, <1>10, <3>1, <3>2
  <2>5. ListAlg => Range(e.list) = R /\ IsInjective(e.list)
    <3> SUFFICES ASSUME ListAlg PROVE Range(e.list) = R /\ IsInjective(e.list)
      OBVIOUS
    <3>1. Range(referlist) = Resident /\ IsInjective(referlist)
      BY DEF FrameInv, ListTracksMemory, ListAlg
    <3>2. PICK k \in DOMAIN referlist : Evicts(referlist, w1, k, e)
      BY <1>4
    <3>3. referlist[k] \in Resident /\ referlist[k] \in Pages
      BY <3>1 DEF Range, Resident
    <3>4. e.frame = word[referlist[k]].num
      BY <1>2, <3>2, <3>3 DEF Evicts, Resident
    <3>5. referlist[k] = o
      BY <1>11, <3>3, <3>4 DEF Resident
    <3> QED BY <2>1, <3>1, <3>2, <3>5 DEF Evicts
  <2>6. \A q \in R : physmem[u[q].num].vaddr = q
    BY <1>9, <1>10 DEF FrameInv, SelfCheck, Resident
  <2> QED BY <2>2, <2>3, <2>4, <2>5, <2>6 DEF Vacated
<1> QED BY <1>3, <1>7, <1>8, <1>12 DEF u, o

\* With as many slots as pages, a page without a slot finds a free one.
LEMMA RoomForVictim ==
    ASSUME RoomySwap, FrameInv, NEW q \in Pages
    PROVE  SlotsFor(swap_off, q) # {}
<1>1. CASE swap_off[q] # NoSlot
  BY <1>1 DEF SlotsFor
<1>2. CASE swap_off[q] = NoSlot
  <2>1. SUFFICES ASSUME Slots \subseteq swapmap PROVE FALSE
    BY <1>2 DEF SlotsFor
  <2> DEFINE owner == [s \in Slots |-> CHOOSE r \in Pages : swap_off[r] = s]
             Others == Pages \ {q}
  <2>2. \A s \in Slots : owner[s] \in Pages /\ swap_off[owner[s]] = s
    BY <2>1 DEF FrameInv, SlotsOwned
  <2>3. \A s \in Slots : s # NoSlot
    BY DEF Slots, NoSlot
  <2>4. owner \in Injection(Slots, Others)
    BY <1>2, <2>2, <2>3 DEF Injection, IsInjective
  <2>5. IsFiniteSet(Others) /\ Cardinality(Others) = Cardinality(Pages) - 1
        /\ Cardinality(Pages) \in Nat
    <3>1. IsFiniteSet(Pages)
      OBVIOUS
    <3> QED BY <3>1, FS_RemoveElement, FS_CardinalityType
  <2>6. Cardinality(Slots) <= Cardinality(Others)
    BY <2>4, <2>5, FS_Injection
  <2>7. Cardinality(Slots) = swapsize
    BY FS_Interval DEF Slots
  <2> QED BY <2>5, <2>6, <2>7 DEF RoomySwap
<1> QED BY <1>1, <1>2

\* Slots stay owned by one page each when a victim is written out.
LEMMA PageOutKeepsSlots ==
    ASSUME FrameInv, NEW q \in Pages, NEW s \in SlotsFor(swap_off, q),
           swapmap' = swapmap \union {s}, swap_off' = [swap_off EXCEPT ![q] = s]
    PROVE  SlotsOwned'
<1>1. swap_off \in [Pages -> Slots \union {NoSlot}] /\ swapmap \subseteq Slots
  BY DEF FrameInv, TypeInv, TypeOK
<1>2. s \in Slots /\ s # NoSlot
  <2>1. s \in Slots
    BY <1>1, SlotTypes
  <2> QED BY <2>1 DEF Slots, NoSlot
<1>3. swap_off[q] = s \/ (swap_off[q] = NoSlot /\ s \notin swapmap)
  <2>1. CASE swap_off[q] # NoSlot
    BY <2>1 DEF SlotsFor
  <2>2. CASE swap_off[q] = NoSlot
    <3>1. Slots \ swapmap # {} /\ Slots \ swapmap \subseteq Nat /\ s = Min(Slots \ swapmap)
      BY <2>2 DEF SlotsFor, Slots
    <3> QED BY <2>2, <3>1, MinProps
  <2> QED BY <2>1, <2>2
<1>4. \A r \in Pages : r # q => swap_off'[r] = swap_off[r]
  BY <1>1
<1>5. swap_off'[q] = s
  BY <1>1
<1>6. \A r \in Pages : r # q => swap_off[r] # s
  BY <1>2, <1>3 DEF FrameInv, SlotsOwned, SlotsDistinct
<1>7. SlotsDistinct'
  BY <1>4, <1>5, <1>6 DEF FrameInv, SlotsOwned, SlotsDistinct
<1>8. \A x \in swapmap' : \E r \in Pages : swap_off'[r] = x
  <2> TAKE x \in swapmap'
  <2>1. CASE x = s
    BY <1>5, <2>1
  <2>2. CASE x # s
    <3>1. PICK r \in Pages : swap_off[r] = x
      BY <2>2 DEF FrameInv, SlotsOwned
    <3>2. x \in Slots /\ NoSlot \notin Slots
      BY <1>1, <2>2 DEF Slots, NoSlot
    <3>3. r # q
      BY <1>3, <2>2, <3>1, <3>2
    <3> QED BY <1>4, <3>1, <3>3
  <2> QED BY <2>1, <2>2
<1> QED BY <1>7, <1>8 DEF SlotsOwned

\* After a reference the page has its second-level table, so what was fresh
\* and is still without a table was not touched.
LEMMA FreshKept ==
    ASSUME FrameInv, Replaying, pgdir' = pgdir \union {PgdirIndex(Page)},
           Resident' \subseteq Resident \union {Page},
           \A q \in Pages : swap_off'[q] # NoSlot => swap_off[q] # NoSlot \/ q \in Resident
    PROVE  TablesFresh'
BY DEF FrameInv, TablesFresh, Resident

LEMMA InitFrames == Init => FrameInv
<1> SUFFICES ASSUME Init PROVE FrameInv
  OBVIOUS
<1>1. Resident = {} /\ Range(referlist) = {} /\ IsInjective(referlist)
  BY DEF Init, Resident, ZeroWord, Range, IsInjective
<1>2. FrameTable /\ ListTracksMemory /\ SelfCheck
  BY <1>1 DEF Init, FrameTable, ListTracksMemory, SelfCheck, EmptyFrame
<1>3. TablesFresh /\ SlotsOwned
  BY DEF Init, TablesFresh, SlotsOwned, SlotsDistinct, ZeroWord
<1> QED BY <1>2, <1>3, InitTypes DEF FrameInv

\* One step of a memory access keeps the invariant.
LEMMA HitFrames == ASSUME FrameInv, Hit PROVE FrameInv'
<1> DEFINE w0 == WordsFor(Page)
           d == [count EXCEPT !.hit = count.hit + 1]
<1>1. TypeInv /\ Replaying /\ Page \in Pages /\ WordsOK(w0) /\ w0[Page].valid
  BY CurrentAccess, WordsForTypes DEF FrameInv, Hit
<1>2. Reference(w0, coremap, physmem, referlist, d)
  BY DEF Hit
<1>3. \A q \in Pages : (w0[q].valid <=> word[q].valid) /\ (word[q].valid => w0[q] = word[q])
  BY <1>1, NewTableHarmless
<1>4. swap_off' = swap_off /\ swapmap' = swapmap
  BY <1>1, NewTableHarmless DEF Hit
<1> HIDE DEF w0, d
<1>5. /\ CoremapOK(coremap) /\ physmem \in [Frames -> PageType] /\ referlist \in Seq(Pages)
      /\ \A g \in Frames : coremap[g].in_use => coremap[g].pte \in Pages
  BY <1>1 DEF TypeInv, TypeOK, CoremapOK
<1>6. FrameTable' /\ ListTracksMemory' /\ SelfCheck'
  <2>1. \A q \in Pages : w0[q].valid =>
          /\ coremap[w0[q].num].in_use /\ coremap[w0[q].num].pte = q
          /\ coremap[w0[q].num].vaddr = q /\ physmem[w0[q].num].vaddr = q
    BY <1>3 DEF FrameInv, FrameTable, SelfCheck, Resident
  <2>2. \A g \in Frames : coremap[g].in_use =>
          w0[coremap[g].pte].valid /\ w0[coremap[g].pte].num = g
    BY <1>3, <1>5 DEF FrameInv, FrameTable
  <2>3. {q \in Pages : w0[q].valid} = Resident /\ Page \in Resident
    BY <1>1, <1>3 DEF Resident
  <2>4. ListAlg => Range(referlist) \union {Page} = {q \in Pages : w0[q].valid}
                   /\ IsInjective(referlist)
    BY <2>3 DEF FrameInv, ListTracksMemory, ListAlg
  <2> QED BY <1>1, <1>2, <1>5, <2>1, <2>2, <2>4, ReferenceKeeps
<1>7. TypeInv'
  BY <1>1, NextTypes DEF Next
<1>8. SlotsOwned'
  BY <1>4 DEF FrameInv, SlotsOwned, SlotsDistinct
<1>9. TablesFresh'
  <2>1. pgdir' = pgdir \union {PgdirIndex(Page)} /\ word' = Touch(w0, Page, Type)
    BY <1>2 DEF Reference
  <2>2. \A q \in Pages : q # Page => word'[q] = w0[q]
    BY <1>1, <2>1 DEF Touch, WordsOK
  <2>3. Resident' \subseteq Resident \union {Page}
    BY <1>3, <2>2 DEF Resident
  <2> QED BY <1>1, <1>4, <2>1, <2>3, FreshKept
<1> QED BY <1>6, <1>7, <1>8, <1>9 DEF FrameInv

\* What a placement leaves resident.
LEMMA PlaceResident ==
    ASSUME FrameInv, Replaying, NEW w, WordsOK(w), NEW l, NEW f, NEW c, Place(w, l, f, c),
           \A q \in Pages : w[q].valid => word[q].valid
    PROVE  Resident' \subseteq Resident \union {Page} /\ pgdir' = pgdir \union {PgdirIndex(Page)}
<1>1. Page \in Pages /\ w \in [Pages -> WordType]
  BY CurrentAccess DEF FrameInv, WordsOK
<1>2. word' = Touch(Install(w, Page, f), Page, Type) /\ pgdir' = pgdir \union {PgdirIndex(Page)}
  BY DEF Place, Reference
<1>3. \A q \in Pages : q # Page => word'[q] = w[q]
  BY <1>1, <1>2 DEF Touch, Install
<1> QED BY <1>2, <1>3 DEF Resident

LEMMA UseFreeFrameFrames == ASSUME FrameInv, UseFreeFrame PROVE FrameInv'
<1> DEFINE w0 == WordsFor(Page)
           w1 == FirstUse(w0, Page)
           f == Min(FreeFrames)
<1>1. TypeInv /\ Replaying /\ Page \in Pages /\ WordsOK(w0) /\ WordsOK(w1) /\ ~w0[Page].valid
  BY CurrentAccess, WordsForTypes, FirstUseTypes DEF FrameInv, UseFreeFrame, Missing
<1>2. Place(w1, referlist, f, count)
  BY DEF UseFreeFrame
<1>3. \A q \in Pages : (w1[q].valid <=> word[q].valid) /\ (word[q].valid => w1[q] = word[q])
  <2>1. \A q \in Pages : (w0[q].valid <=> word[q].valid) /\ (word[q].valid => w0[q] = word[q])
    BY <1>1, NewTableHarmless
  <2>2. w1[Page].valid = w0[Page].valid /\ \A q \in Pages : q # Page => w1[q] = w0[q]
    BY <1>1 DEF FirstUse, WordsOK, WordType
  <2> HIDE DEF w0, w1
  <2> QED BY <1>1, <2>1, <2>2
<1>4. swap_off' = swap_off /\ swapmap' = swapmap
  BY <1>1, NewTableHarmless DEF UseFreeFrame
<1>5. f \in Frames /\ ~coremap[f].in_use
  <2>1. FreeFrames \subseteq Nat /\ FreeFrames # {}
    BY DEF UseFreeFrame, FreeFrames, Frames
  <2>2. f \in FreeFrames
    BY <2>1, MinProps
  <2> QED BY <2>2 DEF FreeFrames
<1>6. referlist \in Seq(Pages) /\ \A g \in Frames : coremap[g].in_use => coremap[g].pte \in Pages
  BY <1>1 DEF TypeInv, TypeOK
<1>7. ~word[Page].valid
  BY <1>1, NewTableHarmless
<1> HIDE DEF w0, w1, f
<1>8. Vacated(w1, referlist, f)
  <2> DEFINE R == {q \in Pages : w1[q].valid}
  <2>1. R = Resident /\ Page \notin R
    BY <1>3, <1>7 DEF Resident
  <2>2. \A q \in R : LET c == coremap[w1[q].num]
                     IN  w1[q].num # f /\ c.in_use /\ c.pte = q /\ c.vaddr = q
    BY <1>3, <1>5 DEF FrameInv, FrameTable, Resident
  <2>3. \A g \in Frames \ {f} : coremap[g].in_use =>
          w1[coremap[g].pte].valid /\ w1[coremap[g].pte].num = g
    BY <1>3, <1>6 DEF FrameInv, FrameTable
  <2>4. ListAlg => Range(referlist) = R /\ IsInjective(referlist)
    BY <2>1 DEF FrameInv, ListTracksMemory, ListAlg
  <2>5. \A q \in R : physmem[w1[q].num].vaddr = q
    BY <1>3 DEF FrameInv, SelfCheck, Resident
  <2> QED BY <2>1, <2>2, <2>3, <2>4, <2>5 DEF Vacated
<1>9. FrameTable' /\ ListTracksMemory' /\ SelfCheck'
  BY <1>1, <1>2, <1>5, <1>6, <1>8, PlaceKeeps
<1>10. TypeInv'
  BY <1>1, NextTypes DEF Next
<1>11. SlotsOwned'
  BY <1>4 DEF FrameInv, SlotsOwned, SlotsDistinct
<1>12. TablesFresh'
  BY <1>1, <1>2, <1>3, <1>4, PlaceResident, FreshKept
<1> QED BY <1>9, <1>10, <1>11, <1>12 DEF FrameInv

\* Unmapping the victim makes no page valid.
LEMMA UnmappedResident ==
    ASSUME FrameInv, Evicting, EvictDefined(alg, referlist), NEW e \in Victims
    PROVE  \A q \in Pages : Unmapped(e)[q].valid => word[q].valid
<1>1. /\ \A g \in Frames : coremap[g].in_use /\ coremap[g].pte \in Pages
      /\ e.frame \in Frames /\ WordsOK(Unmapped(e)) /\ Vacated(Unmapped(e), e.list, e.frame)
  BY VictimVacates DEF Evicting, FreeFrames, FrameInv, TypeInv, TypeOK
<1>2. ASSUME NEW q \in Pages, Unmapped(e)[q].valid PROVE word[q].valid
  <2>1. coremap[Unmapped(e)[q].num].pte = q /\ Unmapped(e)[q].num \in Frames
    BY <1>1, <1>2 DEF Vacated, WordsOK, WordType
  <2> QED BY <1>1, <2>1 DEF FrameInv, FrameTable
<1> QED BY <1>2

LEMMA EvictCleanFrames == ASSUME FrameInv, EvictClean PROVE FrameInv'
<1>1. TypeInv /\ Replaying /\ Page \in Pages /\ Evicting /\ EvictDefined(alg, referlist)
  BY CurrentAccess DEF FrameInv, EvictClean, Evicting, Missing
<1>2. PICK e \in Victims : Place(Unmapped(e), e.list, Unmapped(e)[Owner(e)].num,
                                 [count EXCEPT !.clean = count.clean + 1])
  BY DEF EvictClean
<1>3. /\ e.frame \in Frames /\ e.list \in Seq(Pages) /\ WordsOK(Unmapped(e))
      /\ Unmapped(e)[Owner(e)].num = e.frame /\ Vacated(Unmapped(e), e.list, e.frame)
  BY <1>1, VictimVacates
<1>4. swap_off' = swap_off /\ swapmap' = swapmap
  BY <1>1, NewTableHarmless DEF EvictClean
<1>5. FrameTable' /\ ListTracksMemory' /\ SelfCheck'
  BY <1>1, <1>2, <1>3, PlaceKeeps
<1>6. TypeInv'
  BY <1>1, NextTypes DEF Next
<1>7. SlotsOwned'
  BY <1>4 DEF FrameInv, SlotsOwned, SlotsDistinct
<1>8. TablesFresh'
  <2>1. \A q \in Pages : Unmapped(e)[q].valid => word[q].valid
    BY <1>1, <1>3, UnmappedResident
  <2> QED BY <1>1, <1>2, <1>3, <1>4, <2>1, PlaceResident, FreshKept
<1> QED BY <1>5, <1>6, <1>7, <1>8 DEF FrameInv

LEMMA EvictDirtyFrames == ASSUME FrameInv, EvictDirty PROVE FrameInv'
<1>1. TypeInv /\ Replaying /\ Page \in Pages /\ Evicting /\ EvictDefined(alg, referlist)
  BY CurrentAccess DEF FrameInv, EvictDirty, Evicting, Missing
<1>2. OffsFor(Page) = swap_off
  BY <1>1, NewTableHarmless
<1>3. PICK e \in Victims : \E s \in SlotsFor(swap_off, Owner(e)) :
        /\ swapmap' = swapmap \union {s}
        /\ swap_off' = [swap_off EXCEPT ![Owner(e)] = s]
        /\ Place(ClearDirty(Unmapped(e), Owner(e)), e.list, Unmapped(e)[Owner(e)].num,
                 [count EXCEPT !.dirty = count.dirty + 1])
  BY <1>2 DEF EvictDirty
<1>4. PICK s \in SlotsFor(swap_off, Owner(e)) :
        /\ swapmap' = swapmap \union {s}
        /\ swap_off' = [swap_off EXCEPT ![Owner(e)] = s]
        /\ Place(ClearDirty(Unmapped(e), Owner(e)), e.list, Unmapped(e)[Owner(e)].num,
                 [count EXCEPT !.dirty = count.dirty + 1])
  BY <1>3
<1> DEFINE u == Unmapped(e)
           o == Owner(e)
           w == ClearDirty(u, o)
<1>5. /\ e.frame \in Frames /\ e.list \in Seq(Pages) /\ WordsOK(u)
      /\ o \in Resident /\ o \in Pages
      /\ u[o].num = e.frame /\ Vacated(u, e.list, e.frame)
  BY <1>1, VictimVacates DEF Resident
<1> HIDE DEF u, o
<1>6. WordsOK(w) /\ \A q \in Pages : w[q].valid = u[q].valid /\ w[q].num = u[q].num
  BY <1>5 DEF ClearDirty, WordsOK, WordType
<1> HIDE DEF w
<1>7. Vacated(w, e.list, e.frame)
  <2>1. \A g \in Frames : coremap[g].in_use => coremap[g].pte \in Pages
    BY <1>1 DEF TypeInv, TypeOK
  <2> QED BY <1>5, <1>6, <2>1, VacatedSameFrames
<1>8. FrameTable' /\ ListTracksMemory' /\ SelfCheck'
  BY <1>1, <1>4, <1>5, <1>6, <1>7, PlaceKeeps DEF u, o, w
<1>9. TypeInv'
  BY <1>1, NextTypes DEF Next
<1>10. SlotsOwned'
  BY <1>4, <1>5, PageOutKeepsSlots DEF o
<1>11. TablesFresh'
  <2>1. \A q \in Pages : w[q].valid => word[q].valid
    BY <1>1, <1>6, UnmappedResident DEF u
  <2>2. \A q \in Pages : swap_off'[q] # NoSlot => swap_off[q] # NoSlot \/ q \in Resident
    BY <1>4, <1>5 DEF TypeInv, TypeOK, o
  <2>3. Resident' \subseteq Resident \union {Page} /\ pgdir' = pgdir \union {PgdirIndex(Page)}
    BY <1>1, <1>4, <1>6, <2>1, PlaceResident DEF u, o, w
  <2> QED BY <1>1, <2>2, <2>3, FreshKept
<1> QED BY <1>8, <1>9, <1>10, <1>11 DEF FrameInv

LEMMA NextFrames == ASSUME RoomySwap, FrameInv, [Next]_vars PROVE FrameInv'
<1>1. CASE SwapFails
  <2>1. TypeInv /\ Page \in Pages /\ Evicting /\ EvictDefined(alg, referlist)
    BY <1>1, CurrentAccess DEF FrameInv, SwapFails, Evicting, Missing
  <2>2. PICK e \in Victims : WriteFaults \/ SlotsFor(OffsFor(Page), Owner(e)) = {}
    BY <1>1 DEF SwapFails
  <2>3. Owner(e) \in Pages /\ OffsFor(Page) = swap_off
    BY <2>1, VictimVacates, NewTableHarmless DEF Resident
  <2> QED BY <2>2, <2>3, RoomForVictim DEF RoomySwap
<1>2. CASE EvictCrashes \/ Finish \/ Stopped \/ UNCHANGED vars
  <2>1. UNCHANGED <<trace, pos, alg, pgdir, word, swap_off, coremap, physmem, swapmap,
                    swapfile, referlist, curr, count>>
    BY <1>2 DEF EvictCrashes, Finish, Stopped, vars
  <2>2. TypeInv'
    BY NextTypes DEF FrameInv
  <2> QED BY <2>1, <2>2
        DEF FrameInv, TablesFresh, FrameTable, ListTracksMemory, SelfCheck, SlotsOwned,
            SlotsDistinct, Resident
<1> QED BY <1>1, <1>2, HitFrames, UseFreeFrameFrames, EvictCleanFrames, EvictDirtyFrames DEF Next

\* With a swap file that has room for every page and does not fail, no two
\* pages ever share a frame, and the core map and the page table are inverse
\* to each other, whatever the memory size and the trace.
THEOREM FramesConsistent ==
    ASSUME RoomySwap
    PROVE  Spec => []FrameTable
<1>1. FrameInv /\ [Next]_vars => FrameInv'
  BY NextFrames
<1>2. FrameInv => FrameTable
  BY DEF FrameInv
<1> QED BY <1>1, <1>2, InitFrames, PTL DEF Spec

\* Under the same assumption the lists of lru, fifo and clock hold exactly the
\* resident pages, each once, although nobody tells them of evictions.
THEOREM ListsConsistent ==
    ASSUME RoomySwap
    PROVE  Spec => []ListTracksMemory
<1>1. FrameInv /\ [Next]_vars => FrameInv'
  BY NextFrames
<1>2. FrameInv => ListTracksMemory
  BY DEF FrameInv
<1> QED BY <1>1, <1>2, InitFrames, PTL DEF Spec

\* Under the same assumption access_mem's check of the stored address never
\* fails.
THEOREM ContentsMatch ==
    ASSUME RoomySwap
    PROVE  Spec => []SelfCheck
<1>1. FrameInv /\ [Next]_vars => FrameInv'
  BY NextFrames
<1>2. FrameInv => SelfCheck
  BY DEF FrameInv
<1> QED BY <1>1, <1>2, InitFrames, PTL DEF Spec

\* Under the same assumption no slot is shared by two pages and none is lost.
THEOREM SlotsExclusive ==
    ASSUME RoomySwap
    PROVE  Spec => []SlotsOwned
<1>1. FrameInv /\ [Next]_vars => FrameInv'
  BY NextFrames
<1>2. FrameInv => SlotsOwned
  BY DEF FrameInv
<1> QED BY <1>1, <1>2, InitFrames, PTL DEF Spec

\* With two frames or more the list algorithms never run out of nodes, so no
\* evict function dereferences a null or freed pointer.
THEOREM EvictionsDefined ==
    ASSUME RoomySwap, memsize >= 2
    PROVE  Spec => []NeverCrashes
<1>1. FrameInv /\ NeverCrashes /\ [Next]_vars => FrameInv' /\ NeverCrashes'
  <2> SUFFICES ASSUME FrameInv, NeverCrashes, [Next]_vars PROVE NeverCrashes'
    BY NextFrames
  <2>1. ~EvictCrashes
    <3> SUFFICES ASSUME EvictCrashes PROVE FALSE
      OBVIOUS
    <3>1. ListAlg /\ Len(referlist) < 2 /\ Evicting /\ referlist \in Seq(Pages)
      BY DEF EvictCrashes, EvictDefined, ListAlg, FrameInv, TypeInv, TypeOK
    <3>2. 0 \in Frames /\ 1 \in Frames
      BY DEF Frames
    <3>3. \A f \in Frames : /\ word[coremap[f].pte].valid /\ word[coremap[f].pte].num = f
                            /\ coremap[f].pte \in Pages
      BY <3>1 DEF Evicting, FreeFrames, FrameInv, FrameTable, TypeInv, TypeOK
    <3>4. coremap[0].pte # coremap[1].pte
      BY <3>2, <3>3
    <3>5. coremap[0].pte \in Range(referlist) /\ coremap[1].pte \in Range(referlist)
      BY <3>1, <3>2, <3>3 DEF FrameInv, ListTracksMemory, Resident, ListAlg
    <3>6. PICK i, j \in DOMAIN referlist : referlist[i] # referlist[j]
      BY <3>4, <3>5 DEF Range
    <3>7. DOMAIN referlist = 1..Len(referlist) /\ Len(referlist) \in Nat
      BY <3>1
    <3> QED BY <3>1, <3>6, <3>7
  <2> QED BY <2>1 DEF NeverCrashes, Next, vars, Hit, UseFreeFrame, EvictClean, EvictDirty,
        SwapFails, Finish, Stopped, Place, Reference
<1>2. Init => FrameInv /\ NeverCrashes
  BY InitFrames DEF Init, NeverCrashes
<1> QED BY <1>1, <1>2, PTL DEF Spec

\* Frames in use grow by the one a free frame was taken from.
LEMMA FramesUsed ==
    ASSUME FrameInv, UseFreeFrame
    PROVE  Cardinality(Frames \ FreeFrames)' = Cardinality(Frames \ FreeFrames) + 1
<1> DEFINE f == Min(FreeFrames)
<1>1. f \in FreeFrames
  <2>1. FreeFrames \subseteq Nat /\ FreeFrames # {}
    BY DEF UseFreeFrame, FreeFrames, Frames
  <2> QED BY <2>1, MinProps
<1> HIDE DEF f
<1>2. /\ \A g \in Frames \ {f} : coremap'[g].in_use = coremap[g].in_use
      /\ coremap'[f].in_use
  <2> DEFINE w1 == FirstUse(WordsFor(Page), Page)
  <2>0. TypeInv /\ Replaying /\ Page \in Pages /\ f \in Frames /\ WordsOK(w1)
    BY <1>1, CurrentAccess, WordsForTypes, FirstUseTypes
       DEF FrameInv, UseFreeFrame, Missing, FreeFrames
  <2>1. Place(w1, referlist, f, count)
    BY DEF UseFreeFrame, f
  <2> HIDE DEF w1
  <2>2. coremap' = [Own(coremap, Page, f) EXCEPT ![Install(w1, Page, f)[Page].num].vaddr = Page]
    BY <2>1 DEF Place, Reference
  <2>3. Install(w1, Page, f)[Page].num = f
    BY <2>0 DEF Install, WordsOK, ZeroWord
  <2> QED BY <2>0, <2>2, <2>3 DEF Own, TypeInv, TypeOK, FrameType
<1>3. Frames \ FreeFrames \subseteq Frames /\ f \in Frames /\ f \notin Frames \ FreeFrames
  BY <1>1 DEF FreeFrames
<1>4. (Frames \ FreeFrames)' = (Frames \ FreeFrames) \union {f}
  BY <1>2, <1>3 DEF FreeFrames
<1>5. IsFiniteSet(Frames \ FreeFrames)
  <2>1. IsFiniteSet(Frames)
    BY FS_Interval DEF Frames
  <2> QED BY <2>1, FS_Subset
<1> QED BY <1>3, <1>4, <1>5, FS_AddElement

\* A hit and an eviction leave the set of frames in use as it is.
LEMMA FramesStay ==
    ASSUME FrameInv, Hit \/ EvictClean \/ EvictDirty
    PROVE  FreeFrames' = FreeFrames
<1>1. TypeInv /\ Replaying /\ Page \in Pages
  BY CurrentAccess DEF FrameInv, Hit, EvictClean, EvictDirty, Evicting, Missing
<1>2. coremap \in [Frames -> FrameType]
  BY <1>1 DEF TypeInv, TypeOK
<1>3. PICK cm, f : /\ coremap' = [cm EXCEPT ![f].vaddr = Page]
                   /\ cm = coremap \/ \E g : cm = Own(coremap, Page, g) /\ FreeFrames = {}
  <2>1. CASE Hit
    <3>1. \E f : coremap' = [coremap EXCEPT ![f].vaddr = Page]
      BY <2>1 DEF Hit, Reference
    <3> QED BY <3>1
  <2>2. CASE EvictClean \/ EvictDirty
    <3>1. FreeFrames = {} /\ \E w, l, g, c : Place(w, l, g, c)
      BY <2>2 DEF EvictClean, EvictDirty, Evicting
    <3>2. \E g, f : coremap' = [Own(coremap, Page, g) EXCEPT ![f].vaddr = Page]
      BY <3>1 DEF Place, Reference
    <3> QED BY <3>1, <3>2
  <2> QED BY <2>1, <2>2
<1>4. CASE cm = coremap
  BY <1>2, <1>3, <1>4 DEF FreeFrames, FrameType
<1>5. CASE \E g : cm = Own(coremap, Page, g) /\ FreeFrames = {}
  <2>1. PICK g : cm = Own(coremap, Page, g) /\ FreeFrames = {}
    BY <1>5
  <2>2. \A x \in Frames : cm[x].in_use /\ cm[x] \in FrameType
    <3>1. [in_use |-> TRUE, pte |-> Page, vaddr |-> NoPage] \in FrameType
      BY <1>1 DEF FrameType
    <3> QED BY <1>2, <2>1, <3>1 DEF Own, FreeFrames
  <2>3. \A x \in Frames : coremap'[x].in_use
    <3> TAKE x \in Frames
    <3>1. DOMAIN cm = Frames
      BY <1>2, <2>1 DEF Own
    <3>2. coremap'[x] = cm[x] \/ coremap'[x] = [cm[x] EXCEPT !.vaddr = Page]
      BY <1>3, <3>1
    <3> QED BY <2>2, <3>2 DEF FrameType
  <2> QED BY <2>1, <2>3 DEF FreeFrames
<1> QED BY <1>3, <1>4, <1>5

\* Under the same assumption every miss either took a free frame or evicted
\* one page, and is counted as what it was.
THEOREM CountersExact ==
    ASSUME RoomySwap
    PROVE  Spec => []CountersBalance
<1>1. FrameInv /\ CountersBalance /\ [Next]_vars => FrameInv' /\ CountersBalance'
  <2> SUFFICES ASSUME FrameInv, CountersBalance, [Next]_vars PROVE CountersBalance'
    BY NextFrames
  <2>1. TypeInv /\ FrameInv'
    BY NextFrames DEF FrameInv
  <2>2. count \in CountType /\ pos \in Nat
    BY <2>1 DEF TypeInv, TypeOK
  <2>3. /\ count.hit \in Nat /\ count.miss \in Nat /\ count.ref \in Nat
        /\ count.clean \in Nat /\ count.dirty \in Nat
    BY <2>2 DEF CountType
  <2>4. Cardinality(Frames \ FreeFrames) \in Nat
    <3>1. IsFiniteSet(Frames)
      BY FS_Interval DEF Frames
    <3> QED BY <3>1, FS_Subset, FS_CardinalityType
  <2>5. ~SwapFails
    <3> SUFFICES ASSUME SwapFails PROVE FALSE
      OBVIOUS
    <3>1. Page \in Pages /\ Evicting /\ EvictDefined(alg, referlist)
      BY <2>1, CurrentAccess DEF SwapFails, Evicting, Missing
    <3>2. PICK e \in Victims : WriteFaults \/ SlotsFor(OffsFor(Page), Owner(e)) = {}
      BY DEF SwapFails
    <3>3. Owner(e) \in Pages /\ OffsFor(Page) = swap_off
      BY <3>1, VictimVacates, NewTableHarmless DEF Resident
    <3> QED BY <3>2, <3>3, RoomForVictim DEF RoomySwap
  <2>6. CASE UNCHANGED <<pos, count>>
    <3>1. UNCHANGED coremap
      <4>1. ~(Hit \/ UseFreeFrame \/ EvictClean \/ EvictDirty)
        <5>1. pos' # pos + 1
          BY <2>2, <2>6
        <5> QED BY <5>1 DEF Hit, UseFreeFrame, EvictClean, EvictDirty, Place, Reference
      <4> QED BY <2>5, <4>1 DEF Next, EvictCrashes, Finish, Stopped, vars
    <3> QED BY <2>6, <3>1 DEF CountersBalance, FreeFrames
  <2>7. CASE ~UNCHANGED <<pos, count>>
    <3>1. CASE UseFreeFrame
      <4>1. ~Hit /\ ~EvictClean /\ ~EvictDirty
        BY <3>1 DEF UseFreeFrame, Missing, Hit, EvictClean, EvictDirty, Evicting
      <4>2. Cardinality(Frames \ FreeFrames)' = Cardinality(Frames \ FreeFrames) + 1
        BY <3>1, FramesUsed
      <4> HIDE DEF FreeFrames
      <4>3. /\ pos' = pos + 1 /\ count'.ref = count.ref + 1
            /\ count'.hit = count.hit /\ count'.miss = count.miss + 1
            /\ count'.clean = count.clean /\ count'.dirty = count.dirty
        BY <2>1, <2>7, <4>1, StepCounted
      <4>4. /\ count.hit + (count.miss + 1) = count.ref + 1
            /\ count.ref + 1 = (pos + 1) - 1
            /\ count.miss + 1 = count.clean + count.dirty + (Cardinality(Frames \ FreeFrames) + 1)
        BY <2>2, <2>3, <2>4 DEF CountersBalance
      <4> QED BY <4>2, <4>3, <4>4, SMTT(30) DEF CountersBalance
    <3>2. CASE Hit \/ EvictClean \/ EvictDirty
      <4>1. FreeFrames' = FreeFrames
        BY <3>2, FramesStay
      <4>2. ~UseFreeFrame
        BY <3>2 DEF UseFreeFrame, Missing, Hit, EvictClean, EvictDirty, Evicting
      <4>3. Cardinality(Frames \ FreeFrames)' = Cardinality(Frames \ FreeFrames)
        BY <4>1
      <4> HIDE DEF FreeFrames
      <4>4. /\ pos' = pos + 1 /\ count'.ref = count.ref + 1
            /\ \/ /\ count'.hit = count.hit + 1 /\ count'.miss = count.miss
                  /\ count'.clean = count.clean /\ count'.dirty = count.dirty
               \/ /\ count'.hit = count.hit /\ count'.miss = count.miss + 1
                  /\ \/ count'.clean = count.clean + 1 /\ count'.dirty = count.dirty
                     \/ count'.clean = count.clean /\ count'.dirty = count.dirty + 1
        BY <2>1, <2>5, <2>7, <4>2, StepCounted
      <4>5. /\ count.hit + count.miss = count.ref /\ count.ref = pos - 1
            /\ count.miss = count.clean + count.dirty + Cardinality(Frames \ FreeFrames)
        BY DEF CountersBalance
      <4>6. count'.hit + count'.miss = count.ref + 1 /\ count.ref + 1 = (pos + 1) - 1
        BY <2>2, <2>3, <4>4, <4>5
      <4>7. count'.miss = count'.clean + count'.dirty + Cardinality(Frames \ FreeFrames)
        BY <2>3, <2>4, <4>4, <4>5
      <4>8. pos' = pos + 1 /\ count'.ref = count.ref + 1
        BY <4>4
      <4> QED BY <4>3, <4>6, <4>7, <4>8, SMTT(30) DEF CountersBalance
    <3> QED BY <2>1, <2>5, <2>7, <3>1, <3>2, StepCounted
  <2> QED BY <2>6, <2>7
<1>2. Init => FrameInv /\ CountersBalance
  <2> SUFFICES ASSUME Init PROVE CountersBalance
    BY InitFrames
  <2>1. FreeFrames = Frames
    BY DEF Init, FreeFrames, EmptyFrame
  <2>2. Cardinality(Frames \ FreeFrames) = 0
    BY <2>1, FS_EmptySet
  <2> QED BY <2>2 DEF Init, CountersBalance
<1> QED BY <1>1, <1>2, PTL DEF Spec
=============================================================================
