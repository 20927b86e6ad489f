------------------------ MODULE AbandonedPageLemmas -------------------------
(***************************************************************************)
(* What AbandonedPageProofs rests on: the remote list as a sequence, the   *)
(* counts of the blocks, what the thread that owns the page may assume,    *)
(* and the first half of the owner's steps.                                *)
(***************************************************************************)
EXTENDS AbandonedPage, FiniteSetTheorems, TLAPS

----------------------------------------------------------------------------
(* The remote list as a sequence.                                          *)

\* A list without repetition has as many blocks as its length.
LEMMA ListCount ==
    ASSUME NEW S, NEW s \in Seq(S), IsInjective(s)
    PROVE  IsFiniteSet(Range(s)) /\ Cardinality(Range(s)) = Len(s)
<1>1. Len(s) \in Nat /\ DOMAIN s = 1..Len(s)
  OBVIOUS
<1>2. s \in Bijection(1..Len(s), Range(s))
  BY <1>1 DEF Bijection, Injection, Surjection, IsInjective, Range
<1>3. ExistsBijection(1..Len(s), Range(s))
  BY <1>2 DEF ExistsBijection
<1>4. IsFiniteSet(1..Len(s)) /\ Cardinality(1..Len(s)) = Len(s)
  BY <1>1, FS_Interval
<1> QED
  BY <1>3, <1>4, FS_Bijection

\* push_source_block_mt: the block becomes the head of the list.
LEMMA Pushed ==
    ASSUME NEW S, NEW s \in Seq(S), NEW b \in S
    PROVE  LET r == <<b>> \o s IN
           /\ r \in Seq(S)
           /\ Len(r) = Len(s) + 1
           /\ r # <<>>
           /\ Range(r) = Range(s) \cup {b}
           /\ b \notin Range(s) /\ IsInjective(s) => IsInjective(r)
           /\ s # <<>> => r[Len(r)] = s[Len(s)]
<1> DEFINE r == <<b>> \o s
<1>1. /\ r \in Seq(S) /\ Len(s) \in Nat /\ Len(r) = Len(s) + 1
      /\ DOMAIN r = 1..(Len(s) + 1) /\ DOMAIN s = 1..Len(s)
      /\ r[1] = b
      /\ \A i \in 2..(Len(s) + 1) : r[i] = s[i - 1]
  OBVIOUS
<1> HIDE DEF r
<1>2. r # <<>>
  BY <1>1
<1>3. Range(r) = Range(s) \cup {b}
  <2>1. ASSUME NEW i \in DOMAIN r PROVE r[i] \in Range(s) \cup {b}
    <3>1. i = 1 \/ (i - 1 \in DOMAIN s /\ r[i] = s[i - 1])
      BY <1>1
    <3> QED
      BY <3>1, <1>1 DEF Range
  <2>2. \A i \in DOMAIN s : i + 1 \in DOMAIN r /\ r[i + 1] = s[i]
    BY <1>1
  <2>3. 1 \in DOMAIN r
    BY <1>1
  <2> QED
    BY <2>1, <2>2, <2>3, <1>1 DEF Range
<1>4. ASSUME b \notin Range(s), IsInjective(s) PROVE IsInjective(r)
  <2> SUFFICES ASSUME NEW i \in DOMAIN r, NEW j \in DOMAIN r, r[i] = r[j]
               PROVE  i = j
    BY DEF IsInjective
  <2>1. \A k \in DOMAIN s : s[k] # b
    BY <1>4 DEF Range
  <2>2. CASE i = 1 \/ j = 1
    <3>1. \A k \in DOMAIN r : k # 1 => k - 1 \in DOMAIN s /\ r[k] = s[k - 1]
      BY <1>1
    <3>2. \A k \in DOMAIN r : k # 1 => r[k] # b
      BY <2>1, <3>1
    <3> QED
      BY <2>2, <3>2, <1>1
  <2>3. CASE i # 1 /\ j # 1
    <3>1. i - 1 \in DOMAIN s /\ j - 1 \in DOMAIN s /\ s[i - 1] = s[j - 1]
      BY <2>3, <1>1
    <3>2. i - 1 = j - 1
      BY <3>1, <1>4 DEF IsInjective
    <3> QED
      BY <3>2, <1>1
  <2> QED
    BY <2>2, <2>3
<1>5. s # <<>> => r[Len(r)] = s[Len(s)]
  <2>1. s # <<>> => Len(s) > 0
    OBVIOUS
  <2> QED
    BY <2>1, <1>1
<1> QED
  BY <1>1, <1>2, <1>3, <1>4, <1>5 DEF r

\* collect_partly_state: what is behind a place of the list, and what stays.
LEMMA Split ==
    ASSUME NEW S, NEW s \in Seq(S), IsInjective(s), NEW at \in DOMAIN s
    PROVE  LET older == {s[i] : i \in {j \in DOMAIN s : j > at}}
               kept == SubSeq(s, 1, at)
           IN  /\ at \in 1..Len(s)
               /\ IsFiniteSet(older) /\ Cardinality(older) = Len(s) - at
               /\ kept \in Seq(S) /\ Len(kept) = at /\ IsInjective(kept)
               /\ kept # <<>> /\ kept[at] = s[at]
               /\ Range(s) = Range(kept) \cup older
               /\ Range(kept) \cap older = {}
<1> DEFINE older == {s[i] : i \in {j \in DOMAIN s : j > at}}
           kept == SubSeq(s, 1, at)
           behind == (at + 1)..Len(s)
           f == [i \in behind |-> s[i]]
<1>1. Len(s) \in Nat /\ DOMAIN s = 1..Len(s) /\ at \in 1..Len(s)
  OBVIOUS
<1>2. /\ kept \in Seq(S) /\ Len(kept) = at /\ DOMAIN kept = 1..at
      /\ \A i \in 1..at : kept[i] = s[i]
  BY <1>1
<1>3. behind = {j \in DOMAIN s : j > at}
  BY <1>1
<1>4. older = {s[i] : i \in behind}
  BY <1>3
<1>5. \A i \in behind : i \in DOMAIN s
  BY <1>1
<1>6. f \in Bijection(behind, older)
  <2>1. f \in [behind -> older]
    BY <1>4
  <2>2. \A i, j \in behind : f[i] = f[j] => i = j
    BY <1>5 DEF IsInjective
  <2>3. \A x \in older : \E i \in behind : f[i] = x
    BY <1>4
  <2> HIDE DEF f, behind, older
  <2>4. f \in Injection(behind, older) /\ f \in Surjection(behind, older)
    BY <2>1, <2>2, <2>3 DEF Injection, Surjection, IsInjective
  <2> QED
    BY <2>4 DEF Bijection
<1>7. IsFiniteSet(behind) /\ Cardinality(behind) = Len(s) - at
  <2>1. at + 1 \in Int /\ Len(s) \in Int
    BY <1>1
  <2>2. /\ IsFiniteSet(behind)
        /\ Cardinality(behind) =
             IF at + 1 > Len(s) THEN 0 ELSE Len(s) - (at + 1) + 1
    BY <2>1, FS_Interval, Zenon
  <2> QED
    BY <2>2, <1>1
<1>8. IsFiniteSet(older) /\ Cardinality(older) = Len(s) - at
  BY <1>6, <1>7, FS_Bijection DEF ExistsBijection
<1> HIDE DEF kept, behind, f
<1>9. IsInjective(kept)
  BY <1>1, <1>2 DEF IsInjective
<1>10. Range(s) = Range(kept) \cup older
  BY <1>1, <1>2 DEF Range
<1>11. Range(kept) \cap older = {}
  BY <1>1, <1>2 DEF Range, IsInjective
<1>12. kept # <<>> /\ kept[at] = s[at]
  BY <1>1, <1>2
<1> QED
  BY <1>1, <1>2, <1>8, <1>9, <1>10, <1>11, <1>12 DEF kept
----------------------------------------------------------------------------
(* Where the blocks are.                                                   *)

BlockTypes ==
    /\ remote \in Seq(Blocks)
    /\ used \in 0..Cardinality(Blocks)
    /\ free \in SUBSET Blocks /\ live \in SUBSET Blocks

\* used counts what clients hold and what the remote list holds.
LEMMA Counted ==
    ASSUME NEW l \in SUBSET Blocks, NEW r \in Seq(Blocks), IsInjective(r),
           l \cap Range(r) = {}
    PROVE  /\ IsFiniteSet(l) /\ Cardinality(l) \in Nat /\ Len(r) \in Nat
           /\ l = {} <=> Cardinality(l) = 0
           /\ r = <<>> <=> Len(r) = 0
           /\ Cardinality(l) + Len(r) \in 0..Cardinality(Blocks)
<1>1. /\ IsFiniteSet(l) /\ Cardinality(l) \in Nat /\ Len(r) \in Nat
      /\ Cardinality(Blocks) \in Nat
  BY PageAssumption, FS_Subset, FS_CardinalityType
<1>2. l = {} <=> Cardinality(l) = 0
  BY <1>1, FS_EmptySet
<1>3. r = <<>> <=> Len(r) = 0
  OBVIOUS
<1>4. IsFiniteSet(Range(r)) /\ Cardinality(Range(r)) = Len(r)
  BY ListCount
<1>5. Cardinality(l \cup Range(r)) = Cardinality(l) + Len(r)
  <2>1. Cardinality(l \cup Range(r)) =
          Cardinality(l) + Cardinality(Range(r)) - Cardinality(l \cap Range(r))
    BY <1>1, <1>4, FS_Union
  <2>2. Cardinality(l \cap Range(r)) = 0
    BY FS_EmptySet, Zenon
  <2> QED
    BY <2>1, <2>2, <1>1, <1>4
<1>6. l \cup Range(r) \in SUBSET Blocks
  BY DEF Range
<1>7. Cardinality(l \cup Range(r)) <= Cardinality(Blocks)
  BY <1>6, PageAssumption, FS_Subset
<1> QED
  BY <1>1, <1>2, <1>3, <1>5, <1>7

\* The same of the blocks as they are now.
LEMMA CountedNow ==
    ASSUME BlockTypes, EveryBlockOnce
    PROVE  /\ IsFiniteSet(live) /\ Cardinality(live) \in Nat
           /\ Len(remote) \in Nat /\ used \in Nat
           /\ live = {} <=> Cardinality(live) = 0
           /\ remote = <<>> <=> Len(remote) = 0
           /\ used = Cardinality(live) + Len(remote)
           /\ used = 0 <=> live = {} /\ remote = <<>>
           /\ Cardinality(Blocks) \in Nat /\ used <= Cardinality(Blocks)
<1>1. /\ IsFiniteSet(live) /\ Cardinality(live) \in Nat
      /\ Len(remote) \in Nat
      /\ live = {} <=> Cardinality(live) = 0
      /\ remote = <<>> <=> Len(remote) = 0
  BY Counted DEF BlockTypes, EveryBlockOnce
<1>2. used = Cardinality(live) + Len(remote)
  BY DEF EveryBlockOnce
<1>3. Cardinality(Blocks) \in Nat
  BY PageAssumption, FS_CardinalityType
<1> QED
  BY <1>1, <1>2, <1>3 DEF BlockTypes

\* Allocate keeps every block in one place.
LEMMA Allocated ==
    ASSUME BlockTypes, EveryBlockOnce, NEW b \in free,
           free' = free \ {b}, live' = live \cup {b}, used' = used + 1,
           UNCHANGED remote
    PROVE  BlockTypes' /\ EveryBlockOnce'
<1> USE DEF BlockTypes, EveryBlockOnce
<1>1. b \notin live /\ Cardinality(live') = Cardinality(live) + 1
  BY CountedNow, FS_AddElement, Zenon
<1>2. EveryBlockOnce'
  BY <1>1, CountedNow
<1>3. live' \in SUBSET Blocks /\ remote' \in Seq(Blocks)
  OBVIOUS
<1>4. Cardinality(live') + Len(remote') \in 0..Cardinality(Blocks)
  BY <1>2, <1>3, Counted
<1> QED
  BY <1>2, <1>3, <1>4

\* FreeLocal keeps every block in one place.
LEMMA FreedLocally ==
    ASSUME BlockTypes, EveryBlockOnce, NEW b \in live,
           free' = free \cup {b}, live' = live \ {b}, used' = used - 1,
           UNCHANGED remote
    PROVE  BlockTypes' /\ EveryBlockOnce'
<1> USE DEF BlockTypes, EveryBlockOnce
<1>1. Cardinality(live') = Cardinality(live) - 1
  BY CountedNow, FS_RemoveElement, Zenon
<1>2. EveryBlockOnce'
  BY <1>1, CountedNow
<1>3. live' \in SUBSET Blocks /\ remote' \in Seq(Blocks)
  OBVIOUS
<1>4. Cardinality(live') + Len(remote') \in 0..Cardinality(Blocks)
  BY <1>2, <1>3, Counted
<1> QED
  BY <1>2, <1>3, <1>4

\* So does a free that publishes the block to the remote list.
LEMMA FreedRemotely ==
    ASSUME BlockTypes, EveryBlockOnce, NEW b \in live,
           remote' = <<b>> \o remote, live' = live \ {b},
           UNCHANGED <<free, used>>
    PROVE  /\ BlockTypes' /\ EveryBlockOnce'
           /\ Range(remote') = Range(remote) \cup {b}
           /\ remote' # <<>>
           /\ remote # <<>> => remote'[Len(remote')] = remote[Len(remote)]
<1> USE DEF BlockTypes, EveryBlockOnce
<1>1. Cardinality(live') = Cardinality(live) - 1
  BY CountedNow, FS_RemoveElement, Zenon
<1>2. b \in Blocks /\ b \notin Range(remote) /\ b \notin free
  OBVIOUS
<1>3. /\ remote' \in Seq(Blocks) /\ Len(remote') = Len(remote) + 1
      /\ Range(remote') = Range(remote) \cup {b}
      /\ IsInjective(remote') /\ remote' # <<>>
      /\ remote # <<>> => remote'[Len(remote')] = remote[Len(remote)]
  BY <1>2, Pushed
<1>4. used' = Cardinality(live') + Len(remote')
  BY <1>1, <1>3, CountedNow
<1>5. /\ live' \cap free' = {} /\ live' \cap Range(remote') = {}
      /\ free' \cap Range(remote') = {}
  BY <1>2, <1>3
<1>6. EveryBlockOnce'
  BY <1>3, <1>4, <1>5
<1>7. BlockTypes'
  BY <1>3
<1> QED
  BY <1>3, <1>6, <1>7

\* A whole collection empties the list and keeps every block in one place.
LEMMA Collected ==
    ASSUME BlockTypes, EveryBlockOnce, Collect, UNCHANGED live
    PROVE  /\ BlockTypes' /\ EveryBlockOnce'
           /\ remote' = <<>> /\ used' = Cardinality(live) /\ used' <= used
           /\ used' = 0 <=> live = {}
<1> USE DEF BlockTypes, EveryBlockOnce
<1>1. Cardinality(Range(remote)) = Len(remote)
  BY ListCount
<1>2. used' = Cardinality(live) /\ used' \in Nat /\ used' <= used
  BY <1>1, CountedNow DEF Collect, Take
<1>3. /\ remote' = <<>> /\ remote' \in Seq(Blocks) /\ Len(remote') = 0
      /\ IsInjective(remote') /\ Range(remote') = {}
      /\ free' = free \cup Range(remote)
  BY DEF Collect, Take, IsInjective, Range
<1>4. EveryBlockOnce'
  BY <1>2, <1>3
<1>5. free' \in SUBSET Blocks
  BY <1>3 DEF Range
<1>6. used' = 0 <=> live = {}
  BY <1>2, CountedNow
<1>7. used' \in 0..Cardinality(Blocks)
  BY <1>2, CountedNow
<1> QED
  BY <1>2, <1>3, <1>4, <1>5, <1>6, <1>7

\* A partial collection either empties a page that no client uses or keeps
\* the head of the free that asked for it at the end of the list.
LEMMA PartlyCollected ==
    ASSUME BlockTypes, EveryBlockOnce, NEW head \in Range(remote),
           CollectPartly(head), UNCHANGED live
    PROVE  /\ BlockTypes' /\ EveryBlockOnce' /\ used' <= used
           /\ \/ used' = 0
              \/ used' > 1 /\ remote' # <<>> /\ remote'[Len(remote')] = head
<1> DEFINE at == CHOOSE i \in DOMAIN remote : remote[i] = head
           older == {remote[i] : i \in {j \in DOMAIN remote : j > at}}
           kept == SubSeq(remote, 1, at)
<1>1. at \in DOMAIN remote /\ remote[at] = head
  BY DEF Range
<1>2. remote \in Seq(Blocks) /\ IsInjective(remote)
  BY DEF BlockTypes, EveryBlockOnce
<1> HIDE DEF at
<1>3. /\ at \in 1..Len(remote)
      /\ IsFiniteSet(older) /\ Cardinality(older) = Len(remote) - at
      /\ kept \in Seq(Blocks) /\ Len(kept) = at /\ IsInjective(kept)
      /\ kept # <<>> /\ kept[at] = remote[at]
      /\ Range(remote) = Range(kept) \cup older
      /\ Range(kept) \cap older = {}
  BY <1>1, <1>2, Split, Zenon
<1> HIDE DEF older, kept
<1>4. IF used - Cardinality(older) = 1
        THEN Collect
        ELSE Take(older) /\ remote' = kept
  BY DEF CollectPartly, at, older, kept
<1>5. used - Cardinality(older) = Cardinality(live) + at
  BY <1>3, CountedNow
<1>6. CASE used - Cardinality(older) = 1
  <2>1. Collect
    BY <1>4, <1>6
  <2>2. Cardinality(live) = 0
    BY <1>5, <1>6, <1>3, CountedNow
  <2> QED
    BY <2>1, <2>2, Collected
<1>7. CASE used - Cardinality(older) # 1
  <2>1. /\ remote' = kept /\ free' = free \cup older
        /\ used' = Cardinality(live) + at
    BY <1>4, <1>5, <1>7 DEF Take
  <2>2. used' > 1 /\ used' <= used /\ used' \in Nat
    BY <2>1, <1>3, <1>5, <1>7, CountedNow
  <2>3. EveryBlockOnce'
    BY <2>1, <1>3 DEF EveryBlockOnce
  <2>4. BlockTypes'
    <3>1. older \in SUBSET Blocks
      BY <1>2, <1>3 DEF Range
    <3>2. used' \in 0..Cardinality(Blocks)
      BY <2>2, CountedNow DEF BlockTypes
    <3> QED
      BY <2>1, <1>3, <3>1, <3>2 DEF BlockTypes
  <2>5. remote' # <<>> /\ remote'[Len(remote')] = head
    BY <2>1, <1>1, <1>3
  <2> QED
    BY <2>2, <2>3, <2>4, <2>5
<1> QED
  BY <1>6, <1>7
----------------------------------------------------------------------------
(* Who may touch the page.                                                 *)

\* The labels at which a thread holds nothing but, perhaps, the bitmap bit.
Quiet == {"idle", "resolve", "claim", "restore"}

\* The owner of the page is alone, and the page is not yet released.
LEMMA Alone ==
    ASSUME IInv, NEW t \in Owners
    PROVE  /\ owned /\ page # "released"
           /\ \A u \in Threads \ {t} : pc[u] \in Quiet /\ identity # u
<1>1. t \in Threads /\ (pc[t] \in Tails \/ identity = t)
  BY DEF Owners
<1>2. page # "released"
  BY <1>1, PageAssumption DEF IInv, Ending, Tails, Labels
<1>3. \A u \in Threads \ {t} : u \notin Owners
  BY DEF IInv, OneOwner
<1>4. \A u \in Threads \ {t} : pc[u] \in Quiet /\ identity # u
  BY <1>3 DEF Owners, IInv, TypeOK, Tails, Labels, Quiet
<1> QED
  BY <1>2, <1>4 DEF IInv, OneOwner

\* A quiet thread need know nothing.
LEMMA QuietKnows ==
    ASSUME NEW t \in Threads, pc[t] \in Quiet
    PROVE  Knows(t)
BY DEF Quiet, Knows, Tails, Labels

\* The step of an owner that stays the owner, or lets go of the page.
LEMMA OwnerMoves ==
    ASSUME IInv, NEW t \in Owners, NEW l \in Labels, Goto(t, l),
           identity' \in {identity, t} \cup Marks,
           \/ owned' /\ l \in Tails
           \/ owned' /\ l = "idle" /\ identity' = t
           \/ ~owned' /\ l = "idle" /\ identity' \in Marks
           \/ page' = "released" /\ l = "idle" /\ identity' \in Marks
    PROVE  /\ OneOwner' /\ Readers' = Readers
           /\ pc' \in [Threads -> Labels] /\ pc'[t] = l
           /\ \A u \in Threads \ {t} : pc'[u] = pc[u] /\ Knows(u)'
<1>1. /\ t \in Threads
      /\ \A u \in Threads \ {t} : pc[u] \in Quiet /\ identity # u
  BY Alone DEF Owners
<1>2. /\ pc' \in [Threads -> Labels] /\ pc'[t] = l
      /\ \A u \in Threads \ {t} : pc'[u] = pc[u]
  BY <1>1 DEF IInv, TypeOK, Goto
<1>3. \A u \in Threads \ {t} : Knows(u)'
  BY <1>1, <1>2 DEF Quiet, Knows, Tails, Labels
<1>4. \A u \in Threads \ {t} : u \notin Owners'
  BY <1>1, <1>2, PageAssumption DEF Owners, Quiet, Tails, Labels, Marks
<1>5. t \in Owners' <=> l \in Tails \/ identity' = t
  BY <1>1, <1>2 DEF Owners
<1>6. l = "idle" /\ identity' \in Marks => t \notin Owners'
  BY <1>1, <1>5, PageAssumption DEF Tails, Labels, Marks
<1>7. Owners' \in SUBSET Threads
  BY DEF Owners
<1>8. \A x, y \in Owners' : x = y
  BY <1>4, <1>7
<1>9. page' # "released" => (owned' <=> Owners' # {})
  BY <1>4, <1>5, <1>6, <1>7
<1>10. t \notin Readers
  BY <1>1, PageAssumption
  DEF IInv, Token, Readers, Owners, Tails, Labels, Marks
<1>11. l \notin {"resolve", "claim", "restore"}
  BY DEF Tails, Labels
<1>12. Readers' = Readers
  BY <1>1, <1>2, <1>10, <1>11 DEF Readers
<1> QED
  BY <1>2, <1>3, <1>8, <1>9, <1>12 DEF OneOwner
\* An owner that leaves the bit and the identity alone keeps the token.
LEMMA OwnerToken ==
    ASSUME IInv, NEW t \in Owners, Readers' = Readers,
           \A u \in Threads \ {t} : pc'[u] = pc[u],
           pc'[t] \in {"adopt", "own"} <=> pc[t] \in {"adopt", "own"},
           identity = "mapped" => (Full' => Full),
           UNCHANGED <<mappable, bit, identity>>
    PROVE  Token'
<1>1. Token /\ t \in Threads
  BY DEF IInv, Owners
<1>2. \A u \in Threads :
        pc'[u] \in {"adopt", "own"} <=> pc[u] \in {"adopt", "own"}
  BY <1>1
<1>3. /\ \A x, y \in Readers' : x = y
      /\ bit' => Readers' = {}
      /\ bit' \/ Readers' # {} => identity' = "mapped"
  BY <1>1 DEF Token
<1>4. identity' = "mapped" =>
        /\ mappable' /\ ~Full'
        /\ \/ bit' \/ Readers' # {}
           \/ \E u \in Threads : pc'[u] \in {"adopt", "own"}
  BY <1>1, <1>2 DEF Token
<1>5. \A u \in Threads : pc'[u] \in {"adopt", "own"} => ~bit' /\ Readers' = {}
  BY <1>1, <1>2 DEF Token
<1> QED
  BY <1>3, <1>4, <1>5 DEF Token

\* An owner that gives up only a page with a block in use keeps it findable.
LEMMA OwnerEnding ==
    ASSUME IInv, NEW t \in Owners,
           \A u \in Threads \ {t} : pc'[u] = pc[u],
           pc[t] # "retire", pc'[t] # "retire",
           owned' \/ live' # {},
           page # "live" /\ used = 0 => used' = 0,
           UNCHANGED <<identity, page>>
    PROVE  Ending'
<1>1. Ending /\ t \in Threads /\ page # "released"
  BY Alone DEF IInv, Owners
<1>2. \A u \in Threads : pc'[u] = "retire" <=> pc[u] = "retire"
  BY <1>1
<1> QED
  BY <1>1, <1>2 DEF Ending


----------------------------------------------------------------------------
(* The owner's steps that leave the blocks alone.                          *)

\* Forsake preserves the invariant.
LEMMA ForsakeKeeps ==
    ASSUME IInv, NEW t \in Threads, Forsake(t)
    PROVE  IInv'
<1> USE DEF IInv
<1>1. /\ pc[t] = "abandon" /\ t \in Owners
      /\ identity # "mapped" /\ identity' \in {identity, "abandoned"}
      /\ used # 0 => identity' = "abandoned"
  BY DEF Forsake, Owners, Tails, Labels, Knows
<1>2. PICK l \in {"release", "mark", "unown"} :
        /\ Goto(t, l)
        /\ l = "release" <=> used = 0
        /\ l = "mark" => mappable /\ ~Full
  BY DEF Forsake
<1>3. /\ OneOwner' /\ Readers' = Readers
      /\ pc' \in [Threads -> Labels] /\ pc'[t] = l
      /\ \A u \in Threads \ {t} : pc'[u] = pc[u] /\ Knows(u)'
  BY <1>1, <1>2, Alone, OwnerMoves DEF Forsake, Tails, Labels, Marks
<1>4. UNCHANGED <<kind, owned, remote, used, free, live, bit, page, expected>>
  BY DEF Forsake
<1>5. TypeOK' /\ EveryBlockOnce'
  BY <1>1, <1>3, <1>4 DEF TypeOK, EveryBlockOnce, kind, Marks
<1>6. Token'
  BY <1>1, <1>2, <1>3, <1>4, Alone DEF Token, Full, kind, Quiet
<1>7. Knows(t)'
  BY <1>1, <1>2, <1>3, <1>4 DEF Knows, TypeOK, Full, kind, Tails, Labels, Marks
<1>8. Ending'
  BY <1>1, <1>2, <1>3, <1>4, Alone DEF Ending, Quiet
<1> QED
  BY <1>3, <1>5, <1>6, <1>7, <1>8
\* Publish preserves the invariant: the owner hands the token to the bitmap.
LEMMA PublishKeeps ==
    ASSUME IInv, NEW t \in Threads, Publish(t)
    PROVE  IInv'
<1> USE DEF IInv
<1>1. /\ pc[t] = "mark" /\ t \in Owners
      /\ identity = "abandoned" /\ mappable /\ ~Full /\ used > 0
      /\ identity' = "mapped" /\ bit' = TRUE
      /\ ~bit /\ Readers = {}
  BY PageAssumption DEF Publish, Owners, Tails, Labels, Knows, Token
<1>2. PICK l \in {"unown"} : Goto(t, l)
  BY DEF Publish
<1>3. /\ OneOwner' /\ Readers' = Readers
      /\ pc' \in [Threads -> Labels] /\ pc'[t] = l
      /\ \A u \in Threads \ {t} : pc'[u] = pc[u] /\ Knows(u)'
  BY <1>1, <1>2, Alone, OwnerMoves DEF Publish, Tails, Labels, Marks
<1>4. UNCHANGED <<kind, remote, used, free, live, owned, page, expected>>
  BY DEF Publish
<1>5. TypeOK' /\ EveryBlockOnce'
  BY <1>1, <1>3, <1>4 DEF Publish, TypeOK, EveryBlockOnce, kind, Marks
<1>6. Token'
  BY <1>1, <1>2, <1>3, <1>4, Alone DEF Publish, TypeOK, Token, Full, kind, Quiet
<1>7. Knows(t)'
  BY <1>1, <1>2, <1>3, <1>4, PageAssumption
  DEF Publish, Knows, TypeOK, Full, kind, Tails, Labels, Marks
<1>8. Ending'
  BY <1>1, <1>2, <1>3, <1>4, Alone DEF Publish, Ending, Quiet
<1> QED
  BY <1>3, <1>5, <1>6, <1>7, <1>8

\* ClearBit preserves the invariant: the owner takes the token back.
LEMMA ClearBitKeeps ==
    ASSUME IInv, NEW t \in Threads, ClearBit(t)
    PROVE  IInv'
<1> USE DEF IInv
<1>1. /\ pc[t] \in {"empty", "reclaim", "move"} /\ t \in Owners
      /\ pc[t] = "empty" => used = 0
      /\ identity = "mapped" /\ bit /\ Readers = {}
      /\ identity' = "abandoned" /\ bit' = FALSE
  BY PageAssumption DEF ClearBit, Owners, Tails, Labels, Knows, Token
<1>2. PICK l \in {"release", "own", "abandon"} :
        Goto(t, l) /\ (l = "release" <=> pc[t] = "empty")
  BY DEF ClearBit, AfterClear
<1>3. /\ OneOwner' /\ Readers' = Readers
      /\ pc' \in [Threads -> Labels] /\ pc'[t] = l
      /\ \A u \in Threads \ {t} : pc'[u] = pc[u] /\ Knows(u)'
  BY <1>1, <1>2, Alone, OwnerMoves DEF ClearBit, Tails, Labels, Marks
<1>4. UNCHANGED <<kind, remote, used, free, live, owned, page, expected>>
  BY DEF ClearBit
<1>5. TypeOK' /\ EveryBlockOnce'
  BY <1>1, <1>3, <1>4, Zenon DEF ClearBit, TypeOK, EveryBlockOnce, kind, Marks
<1>6. Token'
  BY <1>1, <1>2, <1>3, <1>4, Alone
  DEF ClearBit, TypeOK, Token, Full, kind, Quiet
<1>7. Knows(t)'
  BY <1>1, <1>2, <1>3, <1>4, PageAssumption
  DEF ClearBit, Knows, TypeOK, Full, kind, Tails, Labels, Marks
<1>8. Ending'
  BY <1>1, <1>2, <1>3, <1>4, Alone DEF ClearBit, Ending, Quiet
<1> QED
  BY <1>3, <1>5, <1>6, <1>7, <1>8

\* Unregister preserves the invariant: nothing of the page is in use.
LEMMA UnregisterKeeps ==
    ASSUME IInv, NEW t \in Threads, Unregister(t)
    PROVE  IInv'
<1> USE DEF IInv
<1>1. /\ pc[t] = "release" /\ t \in Owners
      /\ used = 0 /\ identity # "mapped"
      /\ identity' = "abandoned" /\ page' = "unregistered"
  BY PageAssumption DEF Unregister, Owners, Tails, Labels, Knows
<1>2. PICK l \in {"retire"} : Goto(t, l)
  BY DEF Unregister
<1>3. /\ OneOwner' /\ Readers' = Readers
      /\ pc' \in [Threads -> Labels] /\ pc'[t] = l
      /\ \A u \in Threads \ {t} : pc'[u] = pc[u] /\ Knows(u)'
  BY <1>1, <1>2, Alone, OwnerMoves DEF Unregister, Tails, Labels, Marks
<1>4. UNCHANGED <<kind, remote, used, free, live, owned, bit, expected>>
  BY DEF Unregister
<1>5. TypeOK' /\ EveryBlockOnce'
  BY <1>1, <1>3, <1>4 DEF Unregister, TypeOK, EveryBlockOnce, kind, Marks
<1>6. Token'
  BY <1>1, <1>2, <1>3, <1>4, Alone
  DEF Unregister, TypeOK, Token, Full, kind, Quiet
<1>7. Knows(t)'
  BY <1>1, <1>2, <1>3, <1>4, PageAssumption
  DEF Unregister, Knows, TypeOK, Full, kind, Tails, Labels, Marks
<1>8. Ending'
  BY <1>1, <1>2, <1>3, <1>4, Alone DEF Unregister, Ending, Quiet
<1> QED
  BY <1>3, <1>5, <1>6, <1>7, <1>8

\* Retire preserves the invariant: every other thread is outside.
LEMMA RetireKeeps ==
    ASSUME IInv, NEW t \in Threads, Retire(t)
    PROVE  IInv'
<1> USE DEF IInv
<1>1. /\ pc[t] = "retire" /\ t \in Owners
      /\ used = 0 /\ identity = "abandoned" /\ page' = "released"
      /\ Readers = {}
  BY PageAssumption
  DEF Retire, Owners, Tails, Labels, Knows, Ending, Token, Readers
<1>2. PICK l \in {"idle"} : Goto(t, l)
  BY DEF Retire
<1>3. /\ OneOwner' /\ Readers' = Readers
      /\ pc' \in [Threads -> Labels] /\ pc'[t] = l
      /\ \A u \in Threads \ {t} : pc'[u] = pc[u] /\ Knows(u)'
  BY <1>1, <1>2, Alone, OwnerMoves DEF Retire, Tails, Labels, Marks
<1>4. UNCHANGED <<kind, remote, used, free, live, owned, bit, identity>>
  BY DEF Retire
<1>5. TypeOK' /\ EveryBlockOnce'
  BY <1>1, <1>3, <1>4, Zenon DEF Retire, TypeOK, EveryBlockOnce, kind, Marks
<1>6. Token'
  BY <1>1, <1>2, <1>3, <1>4, Alone DEF Retire, TypeOK, Token, Full, kind, Quiet
<1>7. Knows(t)'
  BY <1>1, <1>2, <1>3, <1>4, PageAssumption
  DEF Retire, Knows, TypeOK, Full, kind, Tails, Labels, Marks
<1>8. Ending'
  BY <1>1, <1>2, <1>3, <1>4, Alone DEF Retire, Ending, Quiet, Readers, TypeOK
<1> QED
  BY <1>3, <1>5, <1>6, <1>7, <1>8

\* Reclaim preserves the invariant.
LEMMA ReclaimKeeps ==
    ASSUME IInv, NEW t \in Threads, Reclaim(t)
    PROVE  IInv'
<1> USE DEF IInv
<1>1. /\ pc[t] = "decide" /\ t \in Owners /\ identity \in Marks /\ used > 0
      /\ identity' = identity
  BY PageAssumption DEF Reclaim, Owners, Tails, Labels, Knows
<1>2. PICK l \in {"reclaim", "own"} :
        Goto(t, l) /\ (l = "reclaim" <=> identity = "mapped")
  BY DEF Reclaim
<1>3. /\ OneOwner' /\ Readers' = Readers
      /\ pc' \in [Threads -> Labels] /\ pc'[t] = l
      /\ \A u \in Threads \ {t} : pc'[u] = pc[u] /\ Knows(u)'
  BY <1>1, <1>2, Alone, OwnerMoves DEF Reclaim, Tails, Labels, Marks
<1>4. UNCHANGED <<kind, remote, used, free, live, owned, bit, page>>
  BY DEF Reclaim
<1>5. TypeOK' /\ EveryBlockOnce'
  BY <1>1, <1>3, <1>4, Zenon DEF Reclaim, TypeOK, EveryBlockOnce, kind, Marks
<1>6. Token'
  BY <1>1, <1>2, <1>3, <1>4, Alone, SMTT(30)
  DEF Reclaim, TypeOK, Token, Full, kind, Quiet
<1>7. Knows(t)'
  BY <1>1, <1>2, <1>3, <1>4, PageAssumption
  DEF Reclaim, Knows, TypeOK, Full, kind, Tails, Labels, Marks
<1>8. Ending'
  BY <1>1, <1>2, <1>3, <1>4, Alone DEF Reclaim, Ending, Quiet
<1> QED
  BY <1>3, <1>5, <1>6, <1>7, <1>8

\* Decline preserves the invariant.
LEMMA DeclineKeeps ==
    ASSUME IInv, NEW t \in Threads, Decline(t)
    PROVE  IInv'
<1> USE DEF IInv
<1>1. /\ pc[t] = "decide" /\ t \in Owners /\ identity \in Marks /\ used > 0
      /\ identity' = identity
      /\ Remaps => identity = "abandoned" /\ mappable /\ ~Full
  BY PageAssumption
  DEF Decline, Owners, Tails, Labels, Knows, Remaps, MostlyUsed, Full, TypeOK
<1>2. PICK l \in {"mark", "leave"} :
        Goto(t, l) /\ (l = "mark" <=> Remaps)
  BY DEF Decline
<1>3. /\ OneOwner' /\ Readers' = Readers
      /\ pc' \in [Threads -> Labels] /\ pc'[t] = l
      /\ \A u \in Threads \ {t} : pc'[u] = pc[u] /\ Knows(u)'
  BY <1>1, <1>2, Alone, OwnerMoves DEF Decline, Tails, Labels, Marks
<1>4. UNCHANGED <<kind, remote, used, free, live, owned, bit, page>>
  BY DEF Decline
<1>5. TypeOK' /\ EveryBlockOnce'
  BY <1>1, <1>3, <1>4, Zenon DEF Decline, TypeOK, EveryBlockOnce, kind, Marks
<1>6. Token'
  BY <1>1, <1>2, <1>3, <1>4, Alone, SMTT(30)
  DEF Decline, TypeOK, Token, Full, kind, Quiet
<1>7. Knows(t)'
  BY <1>1, <1>2, <1>3, <1>4, PageAssumption
  DEF Decline, Knows, TypeOK, Full, kind, Tails, Labels, Marks
<1>8. Ending'
  BY <1>1, <1>2, <1>3, <1>4, Alone DEF Decline, Ending, Quiet
<1> QED
  BY <1>3, <1>5, <1>6, <1>7, <1>8
----------------------------------------------------------------------------
(* The owner's steps that move blocks.                                     *)

\* Allocate preserves the invariant.
LEMMA AllocateKeeps ==
    ASSUME IInv, NEW t \in Threads, NEW b \in Blocks, Allocate(t, b)
    PROVE  IInv'
<1>1. TypeOK /\ EveryBlockOnce /\ BlockTypes
  BY DEF IInv, TypeOK, BlockTypes
<1>2. BlockTypes' /\ EveryBlockOnce'
  BY <1>1, Allocated DEF Allocate
<1>3. /\ pc[t] = "idle" /\ identity = t /\ t \in Owners /\ identity' = identity
      /\ identity \notin Marks /\ page = "live"
  BY PageAssumption
  DEF Allocate, Owners, Tails, Labels, Knows, IInv, Ending, TypeOK, Marks
<1>4. PICK l \in {"idle"} : Goto(t, l)
  BY <1>1, <1>3 DEF Allocate, Goto, TypeOK
<1>5. /\ OneOwner' /\ Readers' = Readers
      /\ pc' \in [Threads -> Labels] /\ pc'[t] = l
      /\ \A u \in Threads \ {t} : pc'[u] = pc[u] /\ Knows(u)'
  BY <1>3, <1>4, Alone, OwnerMoves DEF Allocate, Tails, Labels, Marks
<1>6. UNCHANGED <<kind, owned, remote, bit, page, expected>>
  BY DEF Allocate
<1>7. TypeOK'
  BY <1>1, <1>2, <1>3, <1>5, <1>6 DEF Allocate, TypeOK, BlockTypes, kind, Marks
<1>8. Token'
  <2>1. identity = "mapped" => (Full' => Full)
    BY <1>3 DEF Marks
  <2> QED
    BY <2>1, <1>3, <1>4, <1>5, <1>6, OwnerToken DEF kind
<1>9. Knows(t)'
  BY <1>2, <1>3, <1>4, <1>5, <1>6 DEF Knows, Tails, Labels, Marks
<1>10. Ending'
  BY <1>1, <1>2, <1>3, <1>4, <1>5, <1>6, Alone, CountedNow, OwnerEnding
<1> QED
  BY <1>2, <1>5, <1>7, <1>8, <1>9, <1>10 DEF IInv

\* FreeLocal preserves the invariant.
LEMMA FreeLocalKeeps ==
    ASSUME IInv, NEW t \in Threads, NEW b \in Blocks, FreeLocal(t, b)
    PROVE  IInv'
<1>1. TypeOK /\ EveryBlockOnce /\ BlockTypes
  BY DEF IInv, TypeOK, BlockTypes
<1>2. BlockTypes' /\ EveryBlockOnce'
  BY <1>1, FreedLocally DEF FreeLocal
<1>3. pc[t] = "idle" /\ identity = t /\ t \in Owners /\ identity' = identity
  BY PageAssumption DEF FreeLocal, Owners, Tails, Labels, Knows, IInv
<1>4. PICK l \in {"idle"} : Goto(t, l)
  BY <1>1, <1>3 DEF FreeLocal, Goto, TypeOK
<1>5. /\ OneOwner' /\ Readers' = Readers
      /\ pc' \in [Threads -> Labels] /\ pc'[t] = l
      /\ \A u \in Threads \ {t} : pc'[u] = pc[u] /\ Knows(u)'
  BY <1>3, <1>4, Alone, OwnerMoves DEF FreeLocal, Tails, Labels, Marks
<1>6. UNCHANGED <<kind, owned, remote, bit, page, expected>>
  BY DEF FreeLocal
<1>7. TypeOK'
  BY <1>1, <1>2, <1>3, <1>5, <1>6 DEF FreeLocal, TypeOK, BlockTypes, kind, Marks
<1>8. Token'
  <2>1. identity = "mapped" => (Full' => Full)
    BY <1>1, CountedNow DEF FreeLocal, Full
  <2> QED
    BY <2>1, <1>3, <1>4, <1>5, <1>6, OwnerToken DEF kind
<1>9. Knows(t)'
  BY <1>2, <1>3, <1>4, <1>5, <1>6 DEF Knows, Tails, Labels, Marks
<1>10. Ending'
  <2>1. used # 0 /\ owned'
    BY <1>1, <1>3, <1>6, Alone, CountedNow DEF FreeLocal
  <2> QED
    BY <2>1, <1>3, <1>4, <1>5, <1>6, OwnerEnding
<1> QED
  BY <1>2, <1>5, <1>7, <1>8, <1>9, <1>10 DEF IInv

\* OwnerCollect preserves the invariant.
LEMMA OwnerCollectKeeps ==
    ASSUME IInv, NEW t \in Threads, OwnerCollect(t)
    PROVE  IInv'
<1>1. TypeOK /\ EveryBlockOnce /\ BlockTypes
  BY DEF IInv, TypeOK, BlockTypes
<1>2. /\ BlockTypes' /\ EveryBlockOnce'
      /\ remote' = <<>> /\ used' <= used /\ (used' = 0 <=> live = {})
      /\ used' \in Nat
  BY <1>1, Collected DEF OwnerCollect, BlockTypes
<1>3. pc[t] = "idle" /\ identity = t /\ t \in Owners /\ identity' = identity
  BY PageAssumption DEF OwnerCollect, Owners, Tails, Labels, Knows, IInv
<1>4. PICK l \in {"idle"} : Goto(t, l)
  BY <1>1, <1>3 DEF OwnerCollect, Goto, TypeOK
<1>5. /\ OneOwner' /\ Readers' = Readers
      /\ pc' \in [Threads -> Labels] /\ pc'[t] = l
      /\ \A u \in Threads \ {t} : pc'[u] = pc[u] /\ Knows(u)'
  BY <1>3, <1>4, Alone, OwnerMoves DEF OwnerCollect, Tails, Labels, Marks
<1>6. UNCHANGED <<kind, owned, live, bit, page, expected>>
  BY DEF OwnerCollect
<1>7. TypeOK'
  BY <1>1, <1>2, <1>3, <1>5, <1>6
  DEF OwnerCollect, TypeOK, BlockTypes, kind, Marks
<1>8. Token'
  <2>1. identity = "mapped" => (Full' => Full)
    BY <1>1, <1>2, CountedNow DEF Full
  <2> QED
    BY <2>1, <1>3, <1>4, <1>5, <1>6, OwnerToken DEF kind
<1>9. Knows(t)'
  BY <1>2, <1>3, <1>4, <1>5, <1>6 DEF Knows, Tails, Labels, Marks
<1>10. Ending'
  BY <1>1, <1>2, <1>3, <1>4, <1>5, <1>6, Alone, CountedNow, OwnerEnding
<1> QED
  BY <1>2, <1>5, <1>7, <1>8, <1>9, <1>10 DEF IInv

=============================================================================
