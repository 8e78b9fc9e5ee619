-------------------------- MODULE SmallPoolProofs ---------------------------
(***************************************************************************)
(* Small objects are neither lost nor given out twice, for any number of   *)
(* CPUs and pages and any size of a page: ObjectsAccounted and             *)
(* FreeListExact of SmallPool.                                             *)
(*                                                                         *)
(* The two need each other: alloc() finds an object because the list of    *)
(* its CPU is exact, and the list stays exact because nalloc is.  What     *)
(* they do not say and their proof needs is that an object is in one place *)
(* only, in use or in one sink, or else free() could return it twice.      *)
(***************************************************************************)
EXTENDS SmallPool, SequenceTheorems, FiniteSetTheorems, TLAPS

\* A step is left to Zenon, unless it names SMT or the temporal prover.
USE ZenonT(40)

\* Page x is in a list.
Contains(list, x) == \E i \in 1 .. Len(list) : list[i] = x

TypeOK ==
    /\ cpu_id \in [Pages -> Cpus \cup {None}]
    /\ nalloc \in [Pages -> Nat]
    /\ local_free \in [Pages -> SUBSET AllObjects]
    /\ free \in [Cpus -> Seq(Pages)]
    /\ user \in SUBSET AllObjects
    /\ sink \in [Cpus -> [Cpus -> SUBSET AllObjects]]

\* Where the objects of page p are.
PageInv(p) ==
    /\ local_free[p] \subseteq ObjectsOf(p)
    /\ cpu_id[p] = None => \A o \in ObjectsOf(p) : ~Out(o)
    /\ cpu_id[p] # None =>
         /\ nalloc[p] = Cardinality(ObjectsOf(p) \ local_free[p])
         /\ \A o \in ObjectsOf(p) : o \in local_free[p] <=> ~Out(o)
         /\ \A c, d \in Cpus, o \in ObjectsOf(p) : o \in sink[c][d] => c = cpu_id[p]

\* The list of CPU c.
ListInv(c) ==
    /\ IsInjective(free[c])
    /\ \A p \in Pages : Contains(free[c], p) <=> cpu_id[p] = c /\ local_free[p] # {}

\* An object has one place.
OnePlace ==
    \A o \in AllObjects, c, d \in Cpus : o \in sink[c][d] =>
        /\ o \notin user
        /\ \A a, b \in Cpus : o \in sink[a][b] => a = c /\ b = d

PoolInv ==
    /\ TypeOK
    /\ OnePlace
    /\ \A p \in Pages : PageInv(p)
    /\ \A c \in Cpus : ListInv(c)

-----------------------------------------------------------------------------
(***************************************************************************)
(* Lists: push_back(), push_front(), pop_front() and erase() of a page.    *)
(***************************************************************************)
\* A page that add_page() or free_same_cpu() puts at the end of the list is one
\* more in it.
LEMMA AppendTo ==
    ASSUME NEW S, NEW s \in Seq(S), NEW x \in S
    PROVE  /\ Append(s, x) \in Seq(S) /\ Append(s, x) # <<>>
           /\ \A y : Contains(Append(s, x), y) <=> Contains(s, y) \/ y = x
           /\ IsInjective(s) /\ ~Contains(s, x) => IsInjective(Append(s, x))
           /\ s # <<>> => Head(Append(s, x)) = Head(s)
<1>1. /\ Append(s, x) \in Seq(S) /\ Append(s, x) # <<>>
      /\ Len(s) \in Nat /\ Len(Append(s, x)) = Len(s) + 1
      /\ DOMAIN s = 1 .. Len(s) /\ DOMAIN Append(s, x) = 1 .. Len(s) + 1
      /\ \A i \in 1 .. Len(s) : Append(s, x)[i] = s[i]
      /\ Append(s, x)[Len(s) + 1] = x
  BY AppendProperties, SMT
<1>2. \A y : Contains(Append(s, x), y) <=> Contains(s, y) \/ y = x
  BY <1>1, SMT DEF Contains
<1>3. IsInjective(s) /\ ~Contains(s, x) => IsInjective(Append(s, x))
  BY <1>1, SMT DEF Contains, IsInjective
<1>4. s # <<>> => Head(Append(s, x)) = Head(s)
  BY SMT
<1>5. QED
  BY <1>1, <1>2, <1>3, <1>4

\* So is a page that free_same_cpu() puts in front.
LEMMA PushFront ==
    ASSUME NEW S, NEW s \in Seq(S), NEW x \in S
    PROVE  /\ <<x>> \o s \in Seq(S)
           /\ \A y : Contains(<<x>> \o s, y) <=> Contains(s, y) \/ y = x
           /\ IsInjective(s) /\ ~Contains(s, x) => IsInjective(<<x>> \o s)
<1> DEFINE r == <<x>> \o s
<1>1. /\ r \in Seq(S) /\ Len(s) \in Nat /\ Len(r) = Len(s) + 1
      /\ DOMAIN s = 1 .. Len(s) /\ DOMAIN r = 1 .. Len(s) + 1
      /\ r[1] = x /\ \A i \in 1 .. Len(s) : r[i + 1] = s[i]
  BY SMT
<1> HIDE DEF r
<1>2. \A j \in 1 .. Len(s) + 1 : j = 1 \/ (j - 1 \in 1 .. Len(s) /\ r[j] = s[j - 1])
  BY <1>1, SMT
<1>3. ASSUME NEW y
      PROVE  Contains(r, y) <=> Contains(s, y) \/ y = x
  <2>1. ASSUME Contains(r, y)
        PROVE  Contains(s, y) \/ y = x
    BY <1>1, <1>2, <2>1 DEF Contains
  <2>2. ASSUME Contains(s, y)
        PROVE  Contains(r, y)
    BY <1>1, <2>2, SMT DEF Contains
  <2>3. Contains(r, x)
    BY <1>1, SMT DEF Contains
  <2>4. QED
    BY <2>1, <2>2, <2>3
<1>4. ASSUME IsInjective(s), ~Contains(s, x)
      PROVE  IsInjective(r)
  <2>1. SUFFICES ASSUME NEW a \in 1 .. Len(s) + 1, NEW b \in 1 .. Len(s) + 1, r[a] = r[b]
                 PROVE  a = b
    BY <1>1 DEF IsInjective
  <2>2. CASE a = 1 \/ b = 1
    BY <1>1, <1>2, <1>4, <2>1, <2>2 DEF Contains
  <2>3. CASE a # 1 /\ b # 1
    <3>1. /\ a - 1 \in DOMAIN s /\ b - 1 \in DOMAIN s
          /\ s[a - 1] = s[b - 1]
      BY <1>1, <1>2, <2>1, <2>3
    <3>2. a - 1 = b - 1
      BY <1>4, <3>1 DEF IsInjective
    <3>3. QED
      BY <1>1, <3>2, SMT
  <2>4. QED
    BY <2>2, <2>3
<1>5. QED
  BY <1>1, <1>3, <1>4 DEF r

\* What alloc() leaves when it takes the last object of the first page.
LEMMA PopFrom ==
    ASSUME NEW S, NEW s \in Seq(S), s # <<>>, IsInjective(s)
    PROVE  /\ Head(s) \in S /\ Contains(s, Head(s))
           /\ Tail(s) \in Seq(S) /\ IsInjective(Tail(s))
           /\ \A y : Contains(Tail(s), y) <=> Contains(s, y) /\ y # Head(s)
<1>1. /\ Head(s) \in S /\ Tail(s) \in Seq(S) /\ Head(s) = s[1]
      /\ Len(s) \in Nat /\ Len(s) > 0 /\ Len(Tail(s)) = Len(s) - 1
      /\ DOMAIN s = 1 .. Len(s) /\ DOMAIN Tail(s) = 1 .. Len(s) - 1
      /\ \A i \in 1 .. Len(s) - 1 : Tail(s)[i] = s[i + 1]
  BY HeadTailProperties, EmptySeq, SMT
<1>2. Contains(s, Head(s))
  BY <1>1, SMT DEF Contains
<1>3. IsInjective(Tail(s))
  BY <1>1, SMT DEF IsInjective
<1>4. ASSUME NEW y
      PROVE  Contains(Tail(s), y) <=> Contains(s, y) /\ y # Head(s)
  <2>1. ASSUME Contains(Tail(s), y)
        PROVE  Contains(s, y) /\ y # Head(s)
    BY <1>1, <2>1, SMT DEF Contains, IsInjective
  <2>2. ASSUME Contains(s, y), y # Head(s)
        PROVE  Contains(Tail(s), y)
    <3>1. PICK i \in 1 .. Len(s) : s[i] = y
      BY <2>2 DEF Contains
    <3>2. i - 1 \in 1 .. Len(s) - 1 /\ Tail(s)[i - 1] = y
      BY <1>1, <2>2, <3>1, SMT
    <3>3. QED
      BY <1>1, <3>2 DEF Contains
  <2>3. QED
    BY <2>1, <2>2
<1>5. QED
  BY <1>1, <1>2, <1>3, <1>4

\* What the removal of a page that is given back leaves of the list.
LEMMA EraseFrom ==
    ASSUME NEW S, NEW s \in Seq(S), NEW i \in DOMAIN s, IsInjective(s)
    PROVE  /\ s[i] \in S /\ Contains(s, s[i])
           /\ Erase(s, i) \in Seq(S) /\ IsInjective(Erase(s, i))
           /\ \A y : Contains(Erase(s, i), y) <=> Contains(s, y) /\ y # s[i]
<1> DEFINE r == Erase(s, i)
<1>1. /\ Len(s) \in Nat /\ DOMAIN s = 1 .. Len(s) /\ i \in 1 .. Len(s)
      /\ \A j \in 1 .. Len(s) : s[j] \in S
  BY LenProperties, SMT
<1>2. /\ SubSeq(s, 1, i - 1) \in Seq(S) /\ Len(SubSeq(s, 1, i - 1)) = i - 1
      /\ \A j \in 1 .. i - 1 : SubSeq(s, 1, i - 1)[j] = s[j]
  <2>1. 1 \in Int /\ i - 1 \in Int /\ \A j \in 1 .. i - 1 : s[j] \in S
    BY <1>1, SMT
  <2>2. QED
    BY <1>1, <2>1, SubSeqProperties, SMT
<1>3. /\ SubSeq(s, i + 1, Len(s)) \in Seq(S) /\ Len(SubSeq(s, i + 1, Len(s))) = Len(s) - i
      /\ \A j \in 1 .. Len(s) - i : SubSeq(s, i + 1, Len(s))[j] = s[i + j]
  <2>1. i + 1 \in Int /\ Len(s) \in Int /\ \A j \in i + 1 .. Len(s) : s[j] \in S
    BY <1>1, SMT
  <2>2. QED
    BY <1>1, <2>1, SubSeqProperties, SMT
<1>4. /\ r \in Seq(S) /\ Len(r) = Len(s) - 1 /\ DOMAIN r = 1 .. Len(s) - 1
      /\ \A j \in 1 .. Len(s) - 1 : r[j] = IF j < i THEN s[j] ELSE s[j + 1]
  <2>1. /\ r \in Seq(S) /\ Len(r) = i - 1 + (Len(s) - i)
        /\ \A j \in 1 .. i - 1 + (Len(s) - i) :
             r[j] = IF j <= i - 1 THEN SubSeq(s, 1, i - 1)[j]
                    ELSE SubSeq(s, i + 1, Len(s))[j - (i - 1)]
    <3>1. /\ r \in Seq(S) /\ Len(r) = Len(SubSeq(s, 1, i - 1)) + Len(SubSeq(s, i + 1, Len(s)))
          /\ \A j \in 1 .. Len(SubSeq(s, 1, i - 1)) + Len(SubSeq(s, i + 1, Len(s))) :
               r[j] = IF j <= Len(SubSeq(s, 1, i - 1)) THEN SubSeq(s, 1, i - 1)[j]
                      ELSE SubSeq(s, i + 1, Len(s))[j - Len(SubSeq(s, 1, i - 1))]
      BY <1>2, <1>3, ConcatProperties DEF Erase
    <3>2. QED
      BY <1>2, <1>3, <3>1
  <2>2. i - 1 + (Len(s) - i) = Len(s) - 1
    BY <1>1, SMT
  <2>3. ASSUME NEW j \in 1 .. Len(s) - 1
        PROVE  r[j] = IF j < i THEN s[j] ELSE s[j + 1]
    <3>1. r[j] = IF j <= i - 1 THEN SubSeq(s, 1, i - 1)[j]
                 ELSE SubSeq(s, i + 1, Len(s))[j - (i - 1)]
      BY <2>1, <2>2
    <3> HIDE DEF r
    <3>2. CASE j < i
      BY <1>1, <1>2, <3>1, <3>2, SMT
    <3>3. CASE ~(j < i)
      <4>1. j - (i - 1) \in 1 .. Len(s) - i /\ i + (j - (i - 1)) = j + 1 /\ ~(j <= i - 1)
        BY <1>1, <3>3, SMT
      <4>2. QED
        BY <1>3, <3>1, <3>3, <4>1
    <3>4. QED
      BY <3>2, <3>3
  <2>4. QED
    <3>1. r \in Seq(S) /\ Len(r) = Len(s) - 1
      BY <2>1, <2>2
    <3>2. DOMAIN r = 1 .. Len(r)
      BY <3>1, LenProperties
    <3>3. QED
      BY <2>3, <3>1, <3>2
<1> HIDE DEF r
<1>5. IsInjective(r)
  <2>1. SUFFICES ASSUME NEW a \in 1 .. Len(s) - 1, NEW b \in 1 .. Len(s) - 1, r[a] = r[b]
                 PROVE  a = b
    BY <1>4 DEF IsInjective
  <2> DEFINE at(k) == IF k < i THEN k ELSE k + 1
  <2>2. at(a) \in 1 .. Len(s) /\ at(b) \in 1 .. Len(s)
    BY <1>1, SMT
  <2>3. s[at(a)] = r[a] /\ s[at(b)] = r[b]
    BY <1>4
  <2>4. at(a) = at(b)
    <3> HIDE DEF at
    <3>1. QED
      BY <1>1, <2>1, <2>2, <2>3 DEF IsInjective
  <2>5. QED
    BY <1>1, <2>4, SMT
<1>6. ASSUME NEW y
      PROVE  Contains(r, y) <=> Contains(s, y) /\ y # s[i]
  <2>1. ASSUME Contains(r, y)
        PROVE  Contains(s, y) /\ y # s[i]
    BY <1>1, <1>4, <2>1, SMT DEF Contains, IsInjective
  <2>2. ASSUME Contains(s, y), y # s[i]
        PROVE  Contains(r, y)
    <3>1. PICK k \in 1 .. Len(s) : s[k] = y
      BY <2>2 DEF Contains
    <3>2. k # i
      BY <2>2, <3>1
    <3>3. CASE k < i
      <4>1. k \in 1 .. Len(s) - 1 /\ r[k] = y
        BY <1>1, <1>4, <3>1, <3>3, SMT
      <4>2. QED
        BY <1>4, <4>1 DEF Contains
    <3>4. CASE k > i
      <4>1. k - 1 \in 1 .. Len(s) - 1 /\ r[k - 1] = y
        BY <1>1, <1>4, <3>1, <3>4, SMT
      <4>2. QED
        BY <1>4, <4>1 DEF Contains
    <3>5. QED
      BY <1>1, <3>1, <3>2, <3>3, <3>4, SMT
  <2>3. QED
    BY <2>1, <2>2
<1>7. s[i] \in S /\ Contains(s, s[i])
  BY <1>1 DEF Contains
<1>8. QED
  BY <1>4, <1>5, <1>6, <1>7 DEF r

\* An empty list has no page.
LEMMA NobodyIn ==
    /\ \A S : <<>> \in Seq(S)
    /\ IsInjective(<<>>)
    /\ \A y : ~Contains(<<>>, y)
BY SMT DEF IsInjective, Contains

-----------------------------------------------------------------------------
(***************************************************************************)
(* Objects and their pages.                                                *)
(***************************************************************************)
\* to_header(): an object has one page.
LEMMA HeaderOf ==
    ASSUME NEW o \in AllObjects
    PROVE  /\ to_header(o) \in Pages
           /\ \A p \in Pages : o \in ObjectsOf(p) <=> p = to_header(o)
BY SMT DEF AllObjects, to_header, ObjectsOf

\* The objects of a page are finitely many.
LEMMA PageObjects ==
    ASSUME IsFiniteSet(Slots), NEW p \in Pages
    PROVE  ObjectsOf(p) \subseteq AllObjects /\ IsFiniteSet(ObjectsOf(p))
<1>1. ObjectsOf(p) \subseteq AllObjects
  BY SMT DEF AllObjects, ObjectsOf
<1>2. IsFiniteSet({p})
  BY FS_Singleton
<1>3. IsFiniteSet({p} \X Slots)
  BY <1>2, FS_Product
<1>4. QED
  BY <1>1, <1>3 DEF ObjectsOf

\* An object is out when somebody uses it, or it is in a sink.
LEMMA OutIs ==
    ASSUME NEW o
    PROVE  /\ Out(o) <=> o \in user \/ \E c, d \in Cpus : o \in sink[c][d]
           /\ Out(o)' <=> o \in user' \/ \E c, d \in Cpus : o \in sink'[c][d]
BY DEF Out, InSinks

\* A page on which a step of another page's objects has no effect.
LEMMA PageFrame ==
    ASSUME NEW p \in Pages, PageInv(p), cpu_id'[p] = cpu_id[p], nalloc'[p] = nalloc[p],
           local_free'[p] = local_free[p],
           \A o \in ObjectsOf(p) : Out(o)' <=> Out(o),
           \A c, d \in Cpus, o \in ObjectsOf(p) : o \in sink'[c][d] => c = cpu_id[p] \/ o \in sink[c][d]
    PROVE  PageInv(p)'
BY DEF PageInv, ObjectsOf

\* The list of a CPU whose pages a step does not touch.
LEMMA ListFrame ==
    ASSUME NEW c \in Cpus, ListInv(c), free'[c] = free[c],
           \A p \in Pages : \/ cpu_id'[p] = cpu_id[p] /\ (local_free'[p] = {} <=> local_free[p] = {})
                            \/ cpu_id'[p] # c /\ cpu_id[p] # c
    PROVE  ListInv(c)'
BY DEF ListInv

\* free_same_cpu(): an object that is out comes back to its page, which goes back
\* to the page pool when it was the last one and another page is free.
LEMMA ReturnKeeps ==
    ASSUME PoolInv, IsFiniteSet(Slots), None \notin Cpus,
           NEW obj \in AllObjects, NEW c \in Cpus,
           cpu_id[to_header(obj)] = c, Out(obj), free_same_cpu(obj, c),
           \A o \in AllObjects : Out(o)' <=> Out(o) /\ o # obj,
           user' \in SUBSET AllObjects, user' \subseteq user,
           sink' \in [Cpus -> [Cpus -> SUBSET AllObjects]],
           \A a, b \in Cpus : sink'[a][b] \subseteq sink[a][b]
    PROVE  PoolInv'
<1>1. TypeOK /\ OnePlace /\ (\A x \in Pages : PageInv(x)) /\ (\A x \in Cpus : ListInv(x))
  BY DEF PoolInv
<1>2. PICK p \in Pages : p = to_header(obj)
  BY HeaderOf
<1>3. cpu_id[p] = c /\ cpu_id[p] # None /\ obj \in ObjectsOf(p)
  BY <1>2, HeaderOf
<1>4. /\ ObjectsOf(p) \subseteq AllObjects /\ IsFiniteSet(ObjectsOf(p))
      /\ \A x \in Pages : x # p => obj \notin ObjectsOf(x) /\ ObjectsOf(x) \subseteq AllObjects
  BY <1>2, PageObjects, HeaderOf
<1>5. /\ nalloc[p] = Cardinality(ObjectsOf(p) \ local_free[p])
      /\ local_free[p] \subseteq ObjectsOf(p)
      /\ \A o \in ObjectsOf(p) : o \in local_free[p] <=> ~Out(o)
      /\ \A a, b \in Cpus, o \in ObjectsOf(p) : o \in sink[a][b] => a = c
  BY <1>1, <1>3 DEF PageInv
<1>6. obj \notin local_free[p]
  BY <1>3, <1>5
<1>7. /\ nalloc[p] - 1 \in Nat
      /\ nalloc[p] - 1 = Cardinality((ObjectsOf(p) \ local_free[p]) \ {obj})
      /\ IsFiniteSet((ObjectsOf(p) \ local_free[p]) \ {obj})
  <2>1. IsFiniteSet(ObjectsOf(p) \ local_free[p]) /\ obj \in ObjectsOf(p) \ local_free[p]
    BY <1>3, <1>4, <1>6, FS_Subset
  <2>2. /\ IsFiniteSet((ObjectsOf(p) \ local_free[p]) \ {obj})
        /\ Cardinality((ObjectsOf(p) \ local_free[p]) \ {obj}) = nalloc[p] - 1
    <3> DEFINE D == ObjectsOf(p) \ local_free[p]
    <3> HIDE DEF D
    <3>1. /\ IsFiniteSet(D \ {obj})
          /\ Cardinality(D \ {obj}) = IF obj \in D THEN Cardinality(D) - 1 ELSE Cardinality(D)
      BY <2>1, FS_RemoveElement DEF D
    <3>2. QED
      BY <1>5, <2>1, <3>1 DEF D
  <2>3. QED
    BY <2>2, FS_CardinalityType
<1>8. /\ nalloc' = [nalloc EXCEPT ![p] = nalloc[p] - 1]
      /\ \/ /\ nalloc'[p] = 0
            /\ IF local_free[p] = {} THEN free' = free
               ELSE \E i \in DOMAIN free[c] :
                      free[c][i] = p /\ free' = [free EXCEPT ![c] = Erase(free[c], i)]
            /\ cpu_id' = [cpu_id EXCEPT ![p] = None]
            /\ local_free' = [local_free EXCEPT ![p] = {}]
         \/ /\ free' = IF local_free[p] # {} THEN free
                       ELSE [free EXCEPT ![c] = IF nalloc'[p] # 0 THEN <<p>> \o free[c]
                                                ELSE Append(free[c], p)]
            /\ local_free' = [local_free EXCEPT ![p] = local_free[p] \cup {obj}]
            /\ cpu_id' = cpu_id
  BY <1>2 DEF free_same_cpu
<1>9. /\ nalloc' \in [Pages -> Nat] /\ nalloc'[p] = nalloc[p] - 1
      /\ \A x \in Pages : x # p => nalloc'[x] = nalloc[x]
  BY <1>1, <1>7, <1>8 DEF TypeOK
<1>10. OnePlace'
  <2>1. SUFFICES ASSUME NEW o \in AllObjects, NEW a \in Cpus, NEW b \in Cpus, o \in sink'[a][b]
                 PROVE  /\ o \notin user'
                        /\ \A e, f \in Cpus : o \in sink'[e][f] => e = a /\ f = b
    BY DEF OnePlace
  <2>2. /\ o \notin user
        /\ \A e, f \in Cpus : o \in sink[e][f] => e = a /\ f = b
    BY <1>1, <2>1 DEF OnePlace
  <2>3. QED
    BY <2>1, <2>2
<1>11. ASSUME \A x \in Pages : x # p => cpu_id'[x] = cpu_id[x] /\ local_free'[x] = local_free[x]
       PROVE  \A x \in Pages : x # p => PageInv(x)'
  <2>1. SUFFICES ASSUME NEW x \in Pages, x # p
                 PROVE  PageInv(x)'
    OBVIOUS
  <2>2. \A o \in ObjectsOf(x) : Out(o)' <=> Out(o)
    BY <1>4, <2>1
  <2>3. \A a, b \in Cpus, o \in ObjectsOf(x) : o \in sink'[a][b] => o \in sink[a][b]
    OBVIOUS
  <2>4. QED
    BY <1>1, <1>9, <1>11, <2>1, <2>2, <2>3, PageFrame
<1>12. ASSUME \A x \in Pages : x # p => cpu_id'[x] = cpu_id[x] /\ local_free'[x] = local_free[x],
              cpu_id'[p] \in {c, None}, \A d \in Cpus : d # c => free'[d] = free[d]
       PROVE  \A d \in Cpus : d # c => ListInv(d)'
  <2>1. SUFFICES ASSUME NEW d \in Cpus, d # c
                 PROVE  ListInv(d)'
    OBVIOUS
  <2>2. cpu_id'[p] # d /\ cpu_id[p] # d
    BY <1>3, <1>12, <2>1
  <2>3. QED
    BY <1>1, <1>12, <2>1, <2>2, ListFrame
<1>13. /\ free[c] \in Seq(Pages) /\ IsInjective(free[c]) /\ free \in [Cpus -> Seq(Pages)]
       /\ \A x \in Pages : Contains(free[c], x) <=> cpu_id[x] = c /\ local_free[x] # {}
  BY <1>1 DEF TypeOK, ListInv
<1>14. CASE /\ nalloc'[p] = 0
            /\ IF local_free[p] = {} THEN free' = free
               ELSE \E i \in DOMAIN free[c] :
                      free[c][i] = p /\ free' = [free EXCEPT ![c] = Erase(free[c], i)]
            /\ cpu_id' = [cpu_id EXCEPT ![p] = None]
            /\ local_free' = [local_free EXCEPT ![p] = {}]
  <2>1. /\ cpu_id' \in [Pages -> Cpus \cup {None}] /\ cpu_id'[p] = None
        /\ local_free' \in [Pages -> SUBSET AllObjects] /\ local_free'[p] = {}
        /\ \A x \in Pages : x # p => cpu_id'[x] = cpu_id[x] /\ local_free'[x] = local_free[x]
    BY <1>1, <1>14 DEF TypeOK
  <2>2. /\ free' \in [Cpus -> Seq(Pages)] /\ IsInjective(free'[c])
        /\ \A d \in Cpus : d # c => free'[d] = free[d]
        /\ \A x \in Pages : Contains(free'[c], x) <=> Contains(free[c], x) /\ x # p
    <3>1. CASE local_free[p] = {}
      BY <1>13, <1>14, <3>1
    <3>2. CASE local_free[p] # {}
      <4>1. PICK i \in DOMAIN free[c] :
              free[c][i] = p /\ free' = [free EXCEPT ![c] = Erase(free[c], i)]
        BY <1>14, <3>2
      <4>2. /\ Erase(free[c], i) \in Seq(Pages) /\ IsInjective(Erase(free[c], i))
            /\ \A y : Contains(Erase(free[c], i), y) <=> Contains(free[c], y) /\ y # free[c][i]
        BY <1>13, EraseFrom
      <4>3. /\ free'[c] = Erase(free[c], i) /\ free' \in [Cpus -> Seq(Pages)]
            /\ \A d \in Cpus : d # c => free'[d] = free[d]
        BY <1>13, <4>1, <4>2
      <4>4. QED
        BY <4>1, <4>2, <4>3
    <3>3. QED
      BY <3>1, <3>2
  <2>3. TypeOK'
    BY <1>9, <2>1, <2>2 DEF TypeOK
  <2>4. PageInv(p)'
    <3>1. (ObjectsOf(p) \ local_free[p]) \ {obj} = {}
      BY <1>7, <1>9, <1>14, FS_EmptySet
    <3>2. \A o \in ObjectsOf(p) : ~Out(o)'
      BY <1>4, <1>5, <3>1
    <3>3. QED
      BY <2>1, <3>2 DEF PageInv, ObjectsOf
  <2>5. ListInv(c)'
    BY <1>13, <2>1, <2>2 DEF ListInv
  <2>6. (\A x \in Pages : PageInv(x)') /\ (\A d \in Cpus : ListInv(d)')
    BY <1>11, <1>12, <2>1, <2>2, <2>4, <2>5
  <2>7. QED
    BY <1>10, <2>3, <2>6 DEF PoolInv
<1>15. CASE /\ free' = IF local_free[p] # {} THEN free
                       ELSE [free EXCEPT ![c] = IF nalloc'[p] # 0 THEN <<p>> \o free[c]
                                                ELSE Append(free[c], p)]
            /\ local_free' = [local_free EXCEPT ![p] = local_free[p] \cup {obj}]
            /\ cpu_id' = cpu_id
  <2>1. /\ local_free' \in [Pages -> SUBSET AllObjects]
        /\ local_free'[p] = local_free[p] \cup {obj}
        /\ \A x \in Pages : x # p => local_free'[x] = local_free[x]
    BY <1>1, <1>15 DEF TypeOK
  <2>2. /\ free' \in [Cpus -> Seq(Pages)] /\ IsInjective(free'[c])
        /\ \A d \in Cpus : d # c => free'[d] = free[d]
        /\ \A x \in Pages : Contains(free'[c], x) <=> Contains(free[c], x) \/ x = p
    <3>1. CASE local_free[p] # {}
      BY <1>3, <1>13, <1>15, <3>1
    <3>2. CASE local_free[p] = {}
      <4>1. free[c] \in Seq(Pages) /\ IsInjective(free[c]) /\ ~Contains(free[c], p)
        BY <1>13, <3>2
      <4>2. PICK s \in Seq(Pages) : /\ free' = [free EXCEPT ![c] = s] /\ IsInjective(s)
                                    /\ \A y : Contains(s, y) <=> Contains(free[c], y) \/ y = p
        <5>1. CASE nalloc'[p] # 0
          <6>1. /\ <<p>> \o free[c] \in Seq(Pages) /\ IsInjective(<<p>> \o free[c])
                /\ \A y : Contains(<<p>> \o free[c], y) <=> Contains(free[c], y) \/ y = p
            BY <4>1, PushFront
          <6>2. QED
            <7>1. free' = [free EXCEPT ![c] = <<p>> \o free[c]]
              BY <1>15, <3>2, <5>1
            <7>2. QED
              BY <6>1, <7>1
        <5>2. CASE nalloc'[p] = 0
          <6>1. /\ Append(free[c], p) \in Seq(Pages) /\ IsInjective(Append(free[c], p))
                /\ \A y : Contains(Append(free[c], p), y) <=> Contains(free[c], y) \/ y = p
            BY <4>1, AppendTo
          <6>2. QED
            <7>1. free' = [free EXCEPT ![c] = Append(free[c], p)]
              BY <1>15, <3>2, <5>2
            <7>2. QED
              BY <6>1, <7>1
        <5>3. QED
          BY <5>1, <5>2
      <4>3. /\ free'[c] = s /\ free' \in [Cpus -> Seq(Pages)]
            /\ \A d \in Cpus : d # c => free'[d] = free[d]
        BY <1>13, <4>2
      <4>4. QED
        BY <4>2, <4>3
    <3>3. QED
      BY <3>1, <3>2
  <2>3. TypeOK'
    BY <1>1, <1>9, <1>15, <2>1, <2>2 DEF TypeOK
  <2>4. PageInv(p)'
    <3>1. ObjectsOf(p) \ local_free'[p] = (ObjectsOf(p) \ local_free[p]) \ {obj}
      BY <2>1
    <3>2. nalloc'[p] = Cardinality(ObjectsOf(p) \ local_free'[p])
      BY <1>7, <1>9, <3>1
    <3>3. \A o \in ObjectsOf(p) : o \in local_free'[p] <=> ~Out(o)'
      BY <1>4, <1>5, <2>1
    <3>4. \A a, b \in Cpus, o \in ObjectsOf(p) : o \in sink'[a][b] => a = cpu_id'[p]
      BY <1>3, <1>5, <1>15
    <3>5. local_free'[p] \subseteq ObjectsOf(p) /\ cpu_id'[p] # None
      BY <1>3, <1>5, <1>15, <2>1
    <3>6. QED
      BY <3>2, <3>3, <3>4, <3>5 DEF PageInv, ObjectsOf
  <2>5. ListInv(c)'
    BY <1>3, <1>13, <1>15, <2>1, <2>2 DEF ListInv
  <2>6. (\A x \in Pages : PageInv(x)') /\ (\A d \in Cpus : ListInv(d)')
    BY <1>3, <1>11, <1>12, <1>15, <2>1, <2>2, <2>4, <2>5
  <2>7. QED
    BY <1>10, <2>3, <2>6 DEF PoolInv
<1>16. QED
  BY <1>8, <1>14, <1>15

-----------------------------------------------------------------------------
(***************************************************************************)
(* The steps.                                                              *)
(***************************************************************************)
\* An object that is out belongs to a page of the pool, and one in a sink to a
\* page of the CPU of the sink.
LEMMA OutOwned ==
    ASSUME PoolInv, NEW obj \in AllObjects, Out(obj)
    PROVE  /\ cpu_id[to_header(obj)] \in Cpus
           /\ \A c, d \in Cpus : obj \in sink[c][d] => cpu_id[to_header(obj)] = c
<1>1. PICK p \in Pages : p = to_header(obj) /\ obj \in ObjectsOf(p)
  BY HeaderOf
<1>2. PageInv(p) /\ cpu_id[p] \in Cpus \cup {None}
  BY DEF PoolInv, TypeOK
<1>3. QED
  BY <1>1, <1>2 DEF PageInv

\* Steps that touch neither pages nor objects.
LEMMA IdleKeeps ==
    ASSUME PoolInv, UNCHANGED <<cpu_id, nalloc, local_free, free, user, sink>>
    PROVE  PoolInv'
<1>1. TypeOK /\ OnePlace /\ (\A x \in Pages : PageInv(x)) /\ (\A x \in Cpus : ListInv(x))
  BY DEF PoolInv
<1>2. TypeOK' /\ OnePlace'
  BY <1>1 DEF TypeOK, OnePlace
<1>3. \A o : Out(o)' <=> Out(o)
  BY DEF Out, InSinks
<1>4. \A x \in Pages : PageInv(x)'
  BY <1>1, <1>3, PageFrame
<1>5. \A x \in Cpus : ListInv(x)'
  BY <1>1, ListFrame
<1>6. QED
  BY <1>2, <1>4, <1>5 DEF PoolInv

\* add_page(): a page of the page pool becomes one of the CPU, with all of its
\* objects free.
LEMMA AddPageKeeps ==
    ASSUME PoolInv, IsFiniteSet(Slots), Slots # {}, None \notin Cpus,
           NEW c \in Cpus, NEW p \in Pages, add_page(c, p)
    PROVE  PoolInv'
<1>1. TypeOK /\ OnePlace /\ (\A x \in Pages : PageInv(x)) /\ (\A x \in Cpus : ListInv(x))
  BY DEF PoolInv
<1>2. /\ cpu_id[p] = None /\ cpu_id' = [cpu_id EXCEPT ![p] = c]
      /\ nalloc' = [nalloc EXCEPT ![p] = 0]
      /\ local_free' = [local_free EXCEPT ![p] = ObjectsOf(p)]
      /\ free' = [free EXCEPT ![c] = Append(free[c], p)]
      /\ user' = user /\ sink' = sink
  BY DEF add_page, sinks, ObjectsOf
<1>3. ObjectsOf(p) \subseteq AllObjects /\ ObjectsOf(p) # {}
  <2>1. PICK q \in Slots : TRUE
    OBVIOUS
  <2>2. <<p, q>> \in ObjectsOf(p)
    BY <2>1, SMT DEF ObjectsOf
  <2>3. QED
    BY <2>2, PageObjects
<1>4. /\ cpu_id' \in [Pages -> Cpus \cup {None}] /\ cpu_id'[p] = c
      /\ \A x \in Pages : x # p => cpu_id'[x] = cpu_id[x]
  BY <1>1, <1>2 DEF TypeOK
<1>5. /\ local_free' \in [Pages -> SUBSET AllObjects] /\ local_free'[p] = ObjectsOf(p)
      /\ \A x \in Pages : x # p => local_free'[x] = local_free[x]
  BY <1>1, <1>2, <1>3 DEF TypeOK
<1>6. /\ nalloc' \in [Pages -> Nat] /\ nalloc'[p] = 0
      /\ \A x \in Pages : x # p => nalloc'[x] = nalloc[x]
  <2>1. 0 \in Nat
    BY SMT
  <2>2. QED
    BY <1>1, <1>2, <2>1 DEF TypeOK
<1>7. /\ free[c] \in Seq(Pages) /\ IsInjective(free[c]) /\ ~Contains(free[c], p)
  BY <1>1, <1>2 DEF TypeOK, ListInv
<1>8. /\ Append(free[c], p) \in Seq(Pages) /\ IsInjective(Append(free[c], p))
      /\ \A y : Contains(Append(free[c], p), y) <=> Contains(free[c], y) \/ y = p
  <2>1. PICK s \in Seq(Pages) : s = free[c]
    BY <1>7
  <2>2. IsInjective(s) /\ ~Contains(s, p)
    BY <1>7, <2>1
  <2>3. /\ Append(s, p) \in Seq(Pages) /\ IsInjective(Append(s, p))
        /\ \A y : Contains(Append(s, p), y) <=> Contains(s, y) \/ y = p
    BY <2>2, AppendTo
  <2>4. QED
    BY <2>1, <2>3
<1>9. /\ free' \in [Cpus -> Seq(Pages)] /\ IsInjective(free'[c])
      /\ \A y : Contains(free'[c], y) <=> Contains(free[c], y) \/ y = p
      /\ \A d \in Cpus : d # c => free'[d] = free[d]
  <2>1. /\ free' \in [Cpus -> Seq(Pages)] /\ free'[c] = Append(free[c], p)
        /\ \A d \in Cpus : d # c => free'[d] = free[d]
    BY <1>1, <1>2, <1>8 DEF TypeOK
  <2>2. QED
    BY <1>8, <2>1
<1>10. TypeOK'
  BY <1>1, <1>2, <1>4, <1>5, <1>6, <1>9 DEF TypeOK
<1>11. OnePlace'
  BY <1>1, <1>2 DEF OnePlace
<1>12. \A o : Out(o)' <=> Out(o)
  BY <1>2 DEF Out, InSinks
<1>13. ASSUME NEW x \in Pages
       PROVE  PageInv(x)'
  <2>1. CASE x # p
    BY <1>1, <1>2, <1>4, <1>5, <1>6, <1>12, <2>1, PageFrame
  <2>2. CASE x = p
    <3>1. \A o \in ObjectsOf(p) : ~Out(o)
      BY <1>1, <1>2 DEF PageInv
    <3>2. ObjectsOf(p) \ local_free'[p] = {}
      BY <1>5
    <3>3. nalloc'[p] = Cardinality(ObjectsOf(p) \ local_free'[p])
      BY <1>6, <3>2, FS_EmptySet
    <3>4. \A a, b \in Cpus, o \in ObjectsOf(p) : o \notin sink'[a][b]
      BY <1>2, <3>1, OutIs
    <3>5. cpu_id'[p] # None
      BY <1>4
    <3>6. PageInv(p)'
      BY <1>5, <1>12, <3>1, <3>3, <3>4, <3>5 DEF PageInv, ObjectsOf
    <3>7. QED
      BY <2>2, <3>6
  <2>3. QED
    BY <2>1, <2>2
<1>14. ASSUME NEW d \in Cpus
       PROVE  ListInv(d)'
  <2>1. CASE d # c
    <3>1. cpu_id[p] # d /\ cpu_id'[p] # d
      BY <1>2, <1>4, <2>1
    <3>2. QED
      BY <1>1, <1>4, <1>5, <1>9, <2>1, <3>1, ListFrame
  <2>2. CASE d = c
    BY <1>1, <1>3, <1>4, <1>5, <1>9, <2>2 DEF ListInv
  <2>3. QED
    BY <2>1, <2>2
<1>15. QED
  BY <1>10, <1>11, <1>13, <1>14 DEF PoolInv

\* alloc(): an object of the first page goes to the user, and the page leaves the
\* list with its last one.
LEMMA AllocKeeps ==
    ASSUME PoolInv, IsFiniteSet(Slots), None \notin Cpus,
           NEW c \in Cpus, NEW obj \in AllObjects, alloc(c, obj)
    PROVE  PoolInv'
<1>1. TypeOK /\ OnePlace /\ (\A x \in Pages : PageInv(x)) /\ (\A x \in Cpus : ListInv(x))
  BY DEF PoolInv
<1>2. free[c] # <<>> /\ free[c] \in Seq(Pages) /\ IsInjective(free[c]) /\ free \in [Cpus -> Seq(Pages)]
  BY <1>1 DEF alloc, TypeOK, ListInv
<1>3. /\ Head(free[c]) \in Pages /\ Contains(free[c], Head(free[c]))
      /\ Tail(free[c]) \in Seq(Pages) /\ IsInjective(Tail(free[c]))
      /\ \A y : Contains(Tail(free[c]), y) <=> Contains(free[c], y) /\ y # Head(free[c])
  BY <1>2, PopFrom
<1>4. PICK p \in Pages : p = Head(free[c])
  BY <1>3
<1>5. /\ obj \in local_free[p]
      /\ nalloc' = [nalloc EXCEPT ![p] = nalloc[p] + 1]
      /\ local_free' = [local_free EXCEPT ![p] = local_free[p] \ {obj}]
      /\ free' = IF local_free[p] = {obj} THEN [free EXCEPT ![c] = Tail(free[c])] ELSE free
      /\ user' = user \cup {obj} /\ cpu_id' = cpu_id /\ sink' = sink
  BY <1>4 DEF alloc, sinks
<1>6. cpu_id[p] = c /\ cpu_id[p] # None
  BY <1>1, <1>3, <1>4 DEF ListInv
<1>7. /\ nalloc[p] = Cardinality(ObjectsOf(p) \ local_free[p])
      /\ local_free[p] \subseteq ObjectsOf(p)
      /\ \A o \in ObjectsOf(p) : o \in local_free[p] <=> ~Out(o)
      /\ \A a, b \in Cpus, o \in ObjectsOf(p) : o \in sink[a][b] => a = c
  BY <1>1, <1>6 DEF PageInv
<1>8. obj \in ObjectsOf(p) /\ \A x \in Pages : x # p => obj \notin ObjectsOf(x)
  <2>1. obj \in ObjectsOf(p)
    BY <1>5, <1>7
  <2>2. QED
    BY <2>1, HeaderOf
<1>9. /\ nalloc[p] + 1 = Cardinality((ObjectsOf(p) \ local_free[p]) \cup {obj})
      /\ nalloc[p] + 1 \in Nat
  <2> DEFINE D == ObjectsOf(p) \ local_free[p]
  <2>1. IsFiniteSet(D) /\ obj \notin D
    BY <1>5, PageObjects, FS_Subset
  <2> HIDE DEF D
  <2>2. /\ Cardinality(D \cup {obj}) = IF obj \in D THEN Cardinality(D) ELSE Cardinality(D) + 1
        /\ IsFiniteSet(D \cup {obj})
    BY <2>1, FS_AddElement
  <2>3. Cardinality(D \cup {obj}) = nalloc[p] + 1
    BY <1>7, <2>1, <2>2 DEF D
  <2>4. Cardinality(D \cup {obj}) \in Nat
    BY <2>2, FS_CardinalityType
  <2>5. QED
    BY <2>3, <2>4 DEF D
<1>10. /\ nalloc' \in [Pages -> Nat] /\ nalloc'[p] = nalloc[p] + 1
       /\ \A x \in Pages : x # p => nalloc'[x] = nalloc[x]
  BY <1>1, <1>5, <1>9 DEF TypeOK
<1>11. /\ local_free' \in [Pages -> SUBSET AllObjects] /\ local_free'[p] = local_free[p] \ {obj}
       /\ \A x \in Pages : x # p => local_free'[x] = local_free[x]
  BY <1>1, <1>5 DEF TypeOK
<1>12. /\ free' \in [Cpus -> Seq(Pages)] /\ IsInjective(free'[c])
       /\ \A y : Contains(free'[c], y) <=> Contains(free[c], y) /\ (local_free[p] = {obj} => y # p)
       /\ \A d \in Cpus : d # c => free'[d] = free[d]
  <2>1. CASE local_free[p] # {obj}
    BY <1>2, <1>5, <2>1
  <2>2. CASE local_free[p] = {obj}
    <3>1. /\ free' \in [Cpus -> Seq(Pages)] /\ free'[c] = Tail(free[c])
          /\ \A d \in Cpus : d # c => free'[d] = free[d]
      BY <1>2, <1>3, <1>5, <2>2
    <3>2. QED
      BY <1>3, <1>4, <2>2, <3>1
  <2>3. QED
    BY <2>1, <2>2
<1>13. ~Out(obj) /\ \A o : Out(o)' <=> Out(o) \/ o = obj
  <2>1. ~Out(obj)
    BY <1>5, <1>7, <1>8
  <2>2. QED
    BY <1>5, <2>1 DEF Out, InSinks
<1>14. TypeOK'
  BY <1>1, <1>5, <1>10, <1>11, <1>12 DEF TypeOK
<1>15. OnePlace'
  <2>1. \A a, b \in Cpus : obj \notin sink[a][b]
    BY <1>13, OutIs
  <2>2. QED
    <3>1. SUFFICES ASSUME NEW o \in AllObjects, NEW a \in Cpus, NEW b \in Cpus, o \in sink[a][b]
                   PROVE  /\ o \notin user \cup {obj}
                          /\ \A e, f \in Cpus : o \in sink[e][f] => e = a /\ f = b
      BY <1>5 DEF OnePlace
    <3>2. o # obj
      BY <2>1, <3>1
    <3>3. QED
      BY <1>1, <3>1, <3>2 DEF OnePlace
<1>16. ASSUME NEW x \in Pages
       PROVE  PageInv(x)'
  <2>1. CASE x # p
    <3>1. \A o \in ObjectsOf(x) : Out(o)' <=> Out(o)
      BY <1>8, <1>13, <2>1
    <3>2. QED
      BY <1>1, <1>5, <1>10, <1>11, <2>1, <3>1, PageFrame
  <2>2. CASE x = p
    <3>1. ObjectsOf(p) \ local_free'[p] = (ObjectsOf(p) \ local_free[p]) \cup {obj}
      BY <1>8, <1>11
    <3>2. nalloc'[p] = Cardinality(ObjectsOf(p) \ local_free'[p])
      BY <1>9, <1>10, <3>1
    <3>3. \A o \in ObjectsOf(p) : o \in local_free'[p] <=> ~Out(o)'
      BY <1>7, <1>11, <1>13
    <3>4. local_free'[p] \subseteq ObjectsOf(p)
      BY <1>7, <1>11
    <3>5. PageInv(p)'
      BY <1>5, <1>6, <1>7, <3>2, <3>3, <3>4 DEF PageInv, ObjectsOf
    <3>6. QED
      BY <2>2, <3>5
  <2>3. QED
    BY <2>1, <2>2
<1>17. ASSUME NEW d \in Cpus
       PROVE  ListInv(d)'
  <2>1. CASE d # c
    BY <1>1, <1>5, <1>6, <1>11, <1>12, <2>1, ListFrame
  <2>2. CASE d = c
    <3>1. local_free'[p] = {} <=> local_free[p] = {obj}
      BY <1>5, <1>11
    <3>2. Contains(free[c], p)
      BY <1>3, <1>4
    <3>3. \A y \in Pages : Contains(free'[c], y) <=> cpu_id'[y] = c /\ local_free'[y] # {}
      <4>1. SUFFICES ASSUME NEW y \in Pages
                     PROVE  Contains(free'[c], y) <=> cpu_id'[y] = c /\ local_free'[y] # {}
        OBVIOUS
      <4>2. CASE y = p
        BY <1>5, <1>6, <1>12, <3>1, <3>2, <4>2
      <4>3. CASE y # p
        <5>1. Contains(free[c], y) <=> cpu_id[y] = c /\ local_free[y] # {}
          BY <1>1 DEF ListInv
        <5>2. QED
          BY <1>5, <1>11, <1>12, <4>3, <5>1
      <4>4. QED
        BY <4>2, <4>3
    <3>4. QED
      BY <1>12, <2>2, <3>3 DEF ListInv
  <2>3. QED
    BY <2>1, <2>2
<1>18. QED
  BY <1>14, <1>15, <1>16, <1>17 DEF PoolInv

\* free() on the page's own CPU.
LEMMA FreeSameKeeps ==
    ASSUME PoolInv, IsFiniteSet(Slots), None \notin Cpus,
           NEW c \in Cpus, NEW obj \in AllObjects, obj \in user, user' = user \ {obj},
           cpu_id[to_header(obj)] = c, free_same_cpu(obj, c), sink' = sink
    PROVE  PoolInv'
<1>1. TypeOK /\ OnePlace
  BY DEF PoolInv
<1>2. Out(obj) /\ \A a, b \in Cpus : obj \notin sink[a][b]
  BY <1>1 DEF Out, OnePlace
<1>3. \A o \in AllObjects : Out(o)' <=> Out(o) /\ o # obj
  <2>1. SUFFICES ASSUME NEW o \in AllObjects
                 PROVE  Out(o)' <=> Out(o) /\ o # obj
    OBVIOUS
  <2>2. /\ Out(o) <=> o \in user \/ \E a, b \in Cpus : o \in sink[a][b]
        /\ Out(o)' <=> o \in user' \/ \E a, b \in Cpus : o \in sink'[a][b]
    BY OutIs
  <2>3. QED
    BY <1>2, <2>2
<1>4. /\ user' \in SUBSET AllObjects /\ user' \subseteq user
      /\ sink' \in [Cpus -> [Cpus -> SUBSET AllObjects]]
      /\ \A a, b \in Cpus : sink'[a][b] \subseteq sink[a][b]
  BY <1>1 DEF TypeOK
<1>5. QED
  BY <1>2, <1>3, <1>4, ReturnKeeps

\* free() on another CPU: the object goes to the sink of its page's CPU.
LEMMA FreeDifferentKeeps ==
    ASSUME PoolInv, NEW cur \in Cpus, NEW obj \in AllObjects, obj \in user,
           user' = user \ {obj}, free_different_cpu(obj, cpu_id[to_header(obj)], cur),
           UNCHANGED <<cpu_id, nalloc, local_free, free>>
    PROVE  PoolInv'
<1>1. TypeOK /\ OnePlace /\ (\A x \in Pages : PageInv(x)) /\ (\A x \in Cpus : ListInv(x))
  BY DEF PoolInv
<1>2. Out(obj) /\ \A a, b \in Cpus : obj \notin sink[a][b]
  BY <1>1 DEF Out, OnePlace
<1>3. PICK c \in Cpus : c = cpu_id[to_header(obj)]
  BY <1>2, OutOwned
<1>4. sink' = [sink EXCEPT ![c] = [sink[c] EXCEPT ![cur] = sink[c][cur] \cup {obj}]]
  BY <1>3 DEF free_different_cpu
<1>5. /\ sink' \in [Cpus -> [Cpus -> SUBSET AllObjects]]
      /\ \A a, b \in Cpus : \A o : o \in sink'[a][b] <=> o \in sink[a][b] \/ (a = c /\ b = cur /\ o = obj)
  <2>1. sink \in [Cpus -> [Cpus -> SUBSET AllObjects]] /\ sink[c] \in [Cpus -> SUBSET AllObjects]
    BY <1>1 DEF TypeOK
  <2>2. PICK f \in [Cpus -> SUBSET AllObjects] :
             /\ f = [sink[c] EXCEPT ![cur] = sink[c][cur] \cup {obj}]
             /\ f[cur] = sink[c][cur] \cup {obj}
             /\ \A b \in Cpus : b # cur => f[b] = sink[c][b]
    <3> DEFINE g == [sink[c] EXCEPT ![cur] = sink[c][cur] \cup {obj}]
    <3>1. sink[c][cur] \in SUBSET AllObjects
      BY <2>1
    <3>2. g \in [Cpus -> SUBSET AllObjects] /\ g[cur] = sink[c][cur] \cup {obj}
      BY <2>1, <3>1
    <3>3. \A b \in Cpus : b # cur => g[b] = sink[c][b]
      BY <2>1
    <3>4. QED
      BY <3>2, <3>3
  <2>3. /\ sink' \in [Cpus -> [Cpus -> SUBSET AllObjects]] /\ sink'[c] = f
        /\ \A a \in Cpus : a # c => sink'[a] = sink[a]
    BY <1>4, <2>1, <2>2
  <2>4. QED
    BY <2>2, <2>3
<1>6. \A o : Out(o)' <=> Out(o)
  <2>1. SUFFICES ASSUME NEW o
                 PROVE  Out(o)' <=> Out(o)
    OBVIOUS
  <2>2. /\ Out(o) <=> o \in user \/ \E a, b \in Cpus : o \in sink[a][b]
        /\ Out(o)' <=> o \in user' \/ \E a, b \in Cpus : o \in sink'[a][b]
    BY OutIs
  <2>3. QED
    BY <1>5, <2>2
<1>7. TypeOK'
  BY <1>1, <1>5 DEF TypeOK
<1>8. OnePlace'
  <2>1. SUFFICES ASSUME NEW o \in AllObjects, NEW a \in Cpus, NEW b \in Cpus, o \in sink'[a][b]
                 PROVE  /\ o \notin user'
                        /\ \A e, f \in Cpus : o \in sink'[e][f] => e = a /\ f = b
    BY DEF OnePlace
  <2>2. CASE o = obj
    BY <1>2, <1>5, <2>1, <2>2
  <2>3. CASE o # obj
    <3>1. o \in sink[a][b]
      BY <1>5, <2>1, <2>3, SMT
    <3>2. o \notin user /\ \A e, f \in Cpus : o \in sink[e][f] => e = a /\ f = b
      BY <1>1, <3>1 DEF OnePlace
    <3>3. \A e, f \in Cpus : o \in sink'[e][f] => o \in sink[e][f]
      BY <1>5, <2>3, SMT
    <3>4. QED
      BY <3>2, <3>3
  <2>4. QED
    BY <2>2, <2>3
<1>9. ASSUME NEW x \in Pages
      PROVE  PageInv(x)'
  <2>1. \A a, b \in Cpus, o \in ObjectsOf(x) : o \in sink'[a][b] => a = cpu_id[x] \/ o \in sink[a][b]
    BY <1>3, <1>5, HeaderOf
  <2>2. QED
    BY <1>1, <1>6, <2>1, PageFrame
<1>10. \A x \in Cpus : ListInv(x)'
  BY <1>1, ListFrame
<1>11. QED
  BY <1>7, <1>8, <1>9, <1>10 DEF PoolInv

\* The collector returns an object of a sink of its CPU.
LEMMA CollectKeeps ==
    ASSUME PoolInv, IsFiniteSet(Slots), None \notin Cpus,
           NEW c \in Cpus, NEW d \in Cpus, NEW obj \in AllObjects, Collect(c, d, obj)
    PROVE  PoolInv'
<1>1. TypeOK /\ OnePlace
  BY DEF PoolInv
<1>2. /\ obj \in sink[c][d] /\ free_same_cpu(obj, c) /\ user' = user
      /\ sink' = [sink EXCEPT ![c] = [sink[c] EXCEPT ![d] = sink[c][d] \ {obj}]]
  BY DEF Collect
<1>3. /\ obj \notin user
      /\ \A a, b \in Cpus : obj \in sink[a][b] => a = c /\ b = d
  BY <1>1, <1>2 DEF OnePlace
<1>4. Out(obj)
  BY <1>2, OutIs
<1>5. cpu_id[to_header(obj)] = c
  BY <1>2, <1>4, OutOwned
<1>6. /\ sink' \in [Cpus -> [Cpus -> SUBSET AllObjects]]
      /\ \A a, b \in Cpus : \A o : o \in sink'[a][b] <=> o \in sink[a][b] /\ ~(a = c /\ b = d /\ o = obj)
  <2>1. sink \in [Cpus -> [Cpus -> SUBSET AllObjects]] /\ sink[c] \in [Cpus -> SUBSET AllObjects]
    BY <1>1 DEF TypeOK
  <2>2. PICK f \in [Cpus -> SUBSET AllObjects] :
             /\ f = [sink[c] EXCEPT ![d] = sink[c][d] \ {obj}]
             /\ f[d] = sink[c][d] \ {obj}
             /\ \A b \in Cpus : b # d => f[b] = sink[c][b]
    <3> DEFINE g == [sink[c] EXCEPT ![d] = sink[c][d] \ {obj}]
    <3>1. sink[c][d] \in SUBSET AllObjects
      BY <2>1
    <3>2. g \in [Cpus -> SUBSET AllObjects] /\ g[d] = sink[c][d] \ {obj}
      BY <2>1, <3>1
    <3>3. \A b \in Cpus : b # d => g[b] = sink[c][b]
      BY <2>1
    <3>4. QED
      BY <3>2, <3>3
  <2>3. /\ sink' \in [Cpus -> [Cpus -> SUBSET AllObjects]] /\ sink'[c] = f
        /\ \A a \in Cpus : a # c => sink'[a] = sink[a]
    BY <1>2, <2>1, <2>2
  <2>4. QED
    BY <2>2, <2>3
<1>7. \A o \in AllObjects : Out(o)' <=> Out(o) /\ o # obj
  <2>1. SUFFICES ASSUME NEW o \in AllObjects
                 PROVE  Out(o)' <=> Out(o) /\ o # obj
    OBVIOUS
  <2>2. /\ Out(o) <=> o \in user \/ \E a, b \in Cpus : o \in sink[a][b]
        /\ Out(o)' <=> o \in user' \/ \E a, b \in Cpus : o \in sink'[a][b]
    BY OutIs
  <2>3. QED
    <3>1. CASE o = obj
      BY <1>2, <1>3, <1>6, <2>2, <3>1
    <3>2. CASE o # obj
      <4>1. \A a, b \in Cpus : o \in sink'[a][b] <=> o \in sink[a][b]
        BY <1>6, <3>2, SMT
      <4>2. QED
        BY <1>2, <2>2, <3>2, <4>1
    <3>3. QED
      BY <3>1, <3>2
<1>8. /\ user' \in SUBSET AllObjects /\ user' \subseteq user
      /\ \A a, b \in Cpus : sink'[a][b] \subseteq sink[a][b]
  BY <1>1, <1>2, <1>6 DEF TypeOK
<1>9. QED
  BY <1>2, <1>4, <1>5, <1>6, <1>7, <1>8, ReturnKeeps

-----------------------------------------------------------------------------
(***************************************************************************)
(* The invariant.                                                          *)
(***************************************************************************)
\* The pool starts without pages.
LEMMA InitHolds ==
    ASSUME Init, None \notin Cpus
    PROVE  PoolInv
<1>1. TypeOK
  <2>1. nalloc \in [Pages -> Nat]
    BY SMT DEF Init
  <2>2. free \in [Cpus -> Seq(Pages)]
    BY NobodyIn DEF Init
  <2>3. QED
    BY <2>1, <2>2 DEF Init, TypeOK
<1>2. \A o : ~Out(o)
  BY DEF Init, Out, InSinks
<1>3. OnePlace
  BY DEF Init, OnePlace
<1>4. \A p \in Pages : PageInv(p)
  BY <1>2 DEF Init, PageInv
<1>5. \A c \in Cpus : ListInv(c)
  BY NobodyIn DEF Init, ListInv
<1>6. QED
  BY <1>1, <1>3, <1>4, <1>5 DEF PoolInv

\* Every step of alloc(), add_page(), free() and the collectors of all CPUs keeps
\* the invariant.
LEMMA NextKeeps ==
    ASSUME PoolInv, [Next]_vars, IsFiniteSet(Slots), Slots # {}, None \notin Cpus
    PROVE  PoolInv'
<1>1. ASSUME UNCHANGED vars \/ \E c \in Cpus : EnterAddPage(c) \/ CollectEnd(c)
      PROVE  PoolInv'
  <2>1. UNCHANGED <<cpu_id, nalloc, local_free, free, user, sink>>
    BY <1>1 DEF vars, EnterAddPage, CollectEnd, page_header, sinks
  <2>2. QED
    BY <2>1, IdleKeeps
<1>2. ASSUME NEW c \in Cpus, NEW obj \in AllObjects, Free(c, obj)
      PROVE  PoolInv'
  <2>1. obj \in user /\ user' = user \ {obj}
    BY <1>2 DEF Free
  <2>2. CASE cpu_id[to_header(obj)] = c /\ free_same_cpu(obj, c) /\ UNCHANGED sinks
    <3>1. sink' = sink
      BY <2>2 DEF sinks
    <3>2. QED
      BY <2>1, <2>2, <3>1, FreeSameKeeps
  <2>3. CASE /\ free_different_cpu(obj, cpu_id[to_header(obj)], c)
             /\ UNCHANGED <<page_header, free>>
    <3>1. UNCHANGED <<cpu_id, nalloc, local_free, free>>
      BY <2>3 DEF page_header
    <3>2. QED
      BY <2>1, <2>3, <3>1, FreeDifferentKeeps
  <2>4. QED
    BY <1>2, <2>2, <2>3 DEF Free
<1>3. QED
  BY <1>1, <1>2, AddPageKeeps, AllocKeeps, CollectKeeps DEF Next

\* The invariant of the pool holds for any number of CPUs and pages.
THEOREM PoolInvariant ==
    ASSUME IsFiniteSet(Slots), Slots # {}, None \notin Cpus
    PROVE  Spec => []PoolInv
<1>1. Init => PoolInv
  BY InitHolds
<1>2. PoolInv /\ [Next]_vars => PoolInv'
  BY NextKeeps
<1>3. QED
  BY <1>1, <1>2, PTL DEF Spec

\* alloc(), free() and the collector neither lose an object nor give it out twice,
\* on whatever CPU it is freed: it is in use, in the list of its page or in a sink
\* of its page's CPU, and nalloc counts the first and the last, so that a page
\* goes back to the page pool only with all of its objects.
THEOREM ObjectsSafe ==
    ASSUME IsFiniteSet(Slots), Slots # {}, None \notin Cpus
    PROVE  Spec => []ObjectsAccounted
<1>1. ASSUME PoolInv
      PROVE  ObjectsAccounted
  <2>1. SUFFICES ASSUME NEW p \in Pages
                 PROVE  IF cpu_id[p] = None
                        THEN \A o \in ObjectsOf(p) : ~Out(o)
                        ELSE /\ nalloc[p] = Cardinality(ObjectsOf(p) \ local_free[p])
                             /\ \A o \in ObjectsOf(p) : o \in local_free[p] <=> ~Out(o)
                             /\ \A c \in Cpus \ {cpu_id[p]} : ObjectsOf(p) \cap InSinks(c) = {}
    BY DEF ObjectsAccounted
  <2>2. PageInv(p)
    BY <1>1 DEF PoolInv
  <2>3. ASSUME cpu_id[p] # None, NEW c \in Cpus \ {cpu_id[p]}
        PROVE  ObjectsOf(p) \cap InSinks(c) = {}
    BY <2>2, <2>3 DEF PageInv, InSinks
  <2>4. QED
    BY <2>2, <2>3 DEF PageInv
<1>2. QED
  BY <1>1, PoolInvariant, PTL

\* The list _free of a CPU has exactly its pages with a free object, each once, so
\* that alloc() never sees a page that was given back.
THEOREM FreeListSafe ==
    ASSUME IsFiniteSet(Slots), Slots # {}, None \notin Cpus
    PROVE  Spec => []FreeListExact
<1>1. ASSUME PoolInv
      PROVE  FreeListExact
  <2>1. SUFFICES ASSUME NEW c \in Cpus
                 PROVE  /\ \A i, j \in DOMAIN free[c] : i # j => free[c][i] # free[c][j]
                        /\ Range(free[c]) = {p \in Pages : cpu_id[p] = c /\ local_free[p] # {}}
    BY DEF FreeListExact
  <2>2. ListInv(c) /\ free[c] \in Seq(Pages)
    BY <1>1 DEF PoolInv, TypeOK
  <2>3. DOMAIN free[c] = 1 .. Len(free[c]) /\ \A i \in DOMAIN free[c] : free[c][i] \in Pages
    BY <2>2, LenProperties
  <2>4. \A i, j \in DOMAIN free[c] : i # j => free[c][i] # free[c][j]
    BY <2>2 DEF ListInv, IsInjective
  <2>5. \A p : p \in Range(free[c]) <=> p \in Pages /\ Contains(free[c], p)
    BY <2>3 DEF Range, Contains
  <2>6. Range(free[c]) = {p \in Pages : cpu_id[p] = c /\ local_free[p] # {}}
    BY <2>2, <2>5 DEF ListInv
  <2>7. QED
    BY <2>4, <2>6
<1>2. QED
  BY <1>1, PoolInvariant, PTL

=============================================================================
