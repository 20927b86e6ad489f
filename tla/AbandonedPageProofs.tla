------------------------ MODULE AbandonedPageProofs -------------------------
(***************************************************************************)
(* Theorems about AbandonedPage, for every number of threads and blocks.   *)
(***************************************************************************)
EXTENDS AbandonedPageLemmas

----------------------------------------------------------------------------
(* The other half of the owner's steps.                                    *)

\* Abandon preserves the invariant.
LEMMA AbandonKeeps ==
    ASSUME IInv, NEW t \in Threads, Abandon(t)
    PROVE  IInv'
<1>1. TypeOK /\ EveryBlockOnce /\ BlockTypes
  BY DEF IInv, TypeOK, BlockTypes
<1>2. /\ BlockTypes' /\ EveryBlockOnce'
      /\ remote' = <<>> /\ used' <= used /\ (used' = 0 <=> live = {})
      /\ used' \in Nat
  BY <1>1, Collected DEF Abandon, BlockTypes
<1>3. pc[t] = "idle" /\ identity = t /\ t \in Owners /\ identity' = identity
  BY PageAssumption DEF Abandon, Owners, Tails, Labels, Knows, IInv
<1>4. PICK l \in {"abandon"} : Goto(t, l)
  BY DEF Abandon
<1>5. /\ OneOwner' /\ Readers' = Readers
      /\ pc' \in [Threads -> Labels] /\ pc'[t] = l
      /\ \A u \in Threads \ {t} : pc'[u] = pc[u] /\ Knows(u)'
  BY <1>3, <1>4, Alone, OwnerMoves DEF Abandon, Tails, Labels, Marks
<1>6. UNCHANGED <<kind, owned, live, bit, page, expected>>
  BY DEF Abandon
<1>7. TypeOK'
  BY <1>1, <1>2, <1>3, <1>5, <1>6 DEF Abandon, TypeOK, BlockTypes, kind, Marks
<1>8. Token'
  <2>1. identity = "mapped" => (Full' => Full)
    BY <1>1, <1>2, CountedNow DEF Full
  <2> QED
    BY <2>1, <1>3, <1>4, <1>5, <1>6, OwnerToken DEF kind
<1>9. Knows(t)'
  BY <1>2, <1>3, <1>4, <1>5, <1>6, PageAssumption
  DEF Knows, Tails, Labels, Marks
<1>10. Ending'
  BY <1>1, <1>2, <1>3, <1>4, <1>5, <1>6, Alone, CountedNow, OwnerEnding, SMTT(30)
<1> QED
  BY <1>2, <1>5, <1>7, <1>8, <1>9, <1>10 DEF IInv

\* Own preserves the invariant: the identity becomes the thread.
LEMMA OwnKeeps ==
    ASSUME IInv, NEW t \in Threads, Own(t)
    PROVE  IInv'
<1>1. TypeOK /\ EveryBlockOnce /\ BlockTypes
  BY DEF IInv, TypeOK, BlockTypes
<1>2. /\ BlockTypes' /\ EveryBlockOnce'
      /\ remote' = <<>> /\ used' <= used /\ (used' = 0 <=> live = {})
      /\ used' \in Nat
  BY <1>1, Collected DEF Own, BlockTypes
<1>3. /\ pc[t] = "own" /\ t \in Owners /\ identity' = t
      /\ ~bit /\ Readers = {} /\ identity' \notin Marks
  BY PageAssumption DEF Own, Owners, Tails, Labels, IInv, Knows, Token, Marks
<1>4. PICK l \in {"idle"} : Goto(t, l)
  BY DEF Own
<1>5. page = "live"
  BY <1>1, <1>3, Alone DEF IInv, Ending, Quiet, TypeOK
<1>6. /\ OneOwner' /\ Readers' = Readers
      /\ pc' \in [Threads -> Labels] /\ pc'[t] = l
      /\ \A u \in Threads \ {t} : pc'[u] = pc[u] /\ Knows(u)'
  BY <1>3, <1>4, Alone, OwnerMoves DEF Own, Tails, Labels, Marks
<1>7. UNCHANGED <<kind, owned, live, bit, page, expected>>
  BY DEF Own
<1>8. TypeOK'
  BY <1>1, <1>2, <1>3, <1>6, <1>7 DEF Own, TypeOK, BlockTypes, kind, Marks
<1>9. Token'
  <2>1. \A u \in Threads : pc'[u] \notin {"adopt", "own"}
    BY <1>3, <1>4, <1>6, Alone DEF Quiet
  <2> QED
    BY <2>1, <1>3, <1>6, <1>7 DEF Token, Marks
<1>10. Knows(t)'
  BY <1>3, <1>4, <1>6 DEF Knows, Tails, Labels
<1>11. Ending'
  <2>1. owned' /\ page' = "live"
    BY <1>3, <1>7, <1>5, Alone
  <2>2. \A u \in Threads : pc'[u] # "retire"
    BY <1>3, <1>4, <1>6, Alone DEF Quiet
  <2> QED
    BY <2>1, <2>2 DEF Ending
<1> QED
  BY <1>2, <1>6, <1>8, <1>9, <1>10, <1>11 DEF IInv

\* Adopt preserves the invariant.
LEMMA AdoptKeeps ==
    ASSUME IInv, NEW t \in Threads, Adopt(t)
    PROVE  IInv'
<1>1. TypeOK /\ EveryBlockOnce /\ BlockTypes
  BY DEF IInv, TypeOK, BlockTypes
<1>2. /\ BlockTypes' /\ EveryBlockOnce'
      /\ remote' = <<>> /\ used' <= used /\ (used' = 0 <=> live = {})
      /\ used' \in Nat
  BY <1>1, Collected DEF Adopt, BlockTypes
<1>3. /\ pc[t] = "adopt" /\ t \in Owners /\ identity' = identity
      /\ identity = "mapped" /\ ~bit /\ Readers = {}
  BY PageAssumption DEF Adopt, Owners, Tails, Labels, Knows, IInv, Token
<1>4. PICK l \in {"own"} : Goto(t, l)
  BY DEF Adopt
<1>5. /\ OneOwner' /\ Readers' = Readers
      /\ pc' \in [Threads -> Labels] /\ pc'[t] = l
      /\ \A u \in Threads \ {t} : pc'[u] = pc[u] /\ Knows(u)'
  BY <1>3, <1>4, Alone, OwnerMoves DEF Adopt, Tails, Labels, Marks
<1>6. UNCHANGED <<kind, owned, live, bit, page, expected>>
  BY DEF Adopt
<1>7. TypeOK'
  BY <1>1, <1>2, <1>3, <1>5, <1>6 DEF Adopt, TypeOK, BlockTypes, kind, Marks
<1>8. Token'
  <2>1. identity = "mapped" => (Full' => Full)
    BY <1>1, <1>2, CountedNow DEF Full
  <2> QED
    BY <2>1, <1>3, <1>4, <1>5, <1>6, OwnerToken DEF kind
<1>9. Knows(t)'
  BY <1>2, <1>3, <1>4, <1>5, <1>6 DEF Knows, Tails, Labels, Marks
<1>10. Ending'
  BY <1>1, <1>2, <1>3, <1>4, <1>5, <1>6, Alone, CountedNow, OwnerEnding
<1> QED
  BY <1>2, <1>5, <1>7, <1>8, <1>9, <1>10 DEF IInv
\* Leave preserves the invariant: a client still holds a block, for the list
\* is empty or holds the expected head alone.
LEMMA LeaveKeeps ==
    ASSUME IInv, NEW t \in Threads, Leave(t)
    PROVE  IInv'
<1>1. TypeOK /\ EveryBlockOnce /\ BlockTypes
  BY DEF IInv, TypeOK, BlockTypes
<1>2. BlockTypes' /\ EveryBlockOnce'
  BY <1>1 DEF Leave, BlockTypes, EveryBlockOnce
<1>3. /\ pc[t] = "leave" /\ t \in Owners /\ identity \in Marks /\ used > 0
      /\ identity' = identity /\ ~owned'
      /\ expected[t] # NoBlock =>
           used > 1 /\ remote # <<>> /\ remote[Len(remote)] = expected[t]
  BY DEF Leave, Owners, Tails, Labels, Knows, IInv
<1>4. PICK l \in {"idle"} : Goto(t, l)
  BY DEF Leave
<1>5. live # {}
  <2>1. CASE remote = <<>>
    BY <2>1, <1>1, <1>3, CountedNow
  <2>2. CASE remote # <<>>
    <3>1. /\ Head(remote) = expected[t] /\ Head(remote) = remote[1]
          /\ 1 \in DOMAIN remote /\ Len(remote) \in DOMAIN remote
          /\ expected[t] \in Blocks
      BY <2>2, <1>1 DEF Leave, Newest, BlockTypes
    <3>2. remote[Len(remote)] = remote[1] /\ used > 1
      BY <3>1, <1>3, PageAssumption
    <3>3. Len(remote) = 1
      BY <3>1, <3>2, <1>1, Zenon DEF EveryBlockOnce, IsInjective
    <3> QED
      BY <3>2, <3>3, <1>1, CountedNow
  <2> QED
    BY <2>1, <2>2
<1>6. /\ OneOwner' /\ Readers' = Readers
      /\ pc' \in [Threads -> Labels] /\ pc'[t] = l
      /\ \A u \in Threads \ {t} : pc'[u] = pc[u] /\ Knows(u)'
  BY <1>3, <1>4, Alone, OwnerMoves DEF Leave, Tails, Labels, Marks
<1>7. UNCHANGED <<kind, remote, used, free, live, bit, page>>
  BY DEF Leave
<1>8. TypeOK'
  BY <1>1, <1>2, <1>3, <1>4, <1>6, <1>7, Zenon
  DEF Leave, TypeOK, BlockTypes, kind, Marks
<1>9. Token'
  <2>1. identity = "mapped" => (Full' => Full)
    BY <1>7 DEF Full
  <2> QED
    BY <2>1, <1>3, <1>4, <1>6, <1>7, OwnerToken, Zenon DEF kind
<1>10. Knows(t)'
  BY <1>2, <1>3, <1>4, <1>6, <1>7, SMTT(30) DEF Knows, Tails, Labels, Marks
<1>11. Ending'
  BY <1>1, <1>2, <1>3, <1>4, <1>6, <1>7, <1>5, Alone, CountedNow, OwnerEnding
<1> QED
  BY <1>2, <1>6, <1>8, <1>9, <1>10, <1>11 DEF IInv

\* Unown preserves the invariant: it gives up only a list it saw empty.
LEMMA UnownKeeps ==
    ASSUME IInv, NEW t \in Threads, Unown(t)
    PROVE  IInv'
<1>1. TypeOK /\ EveryBlockOnce /\ BlockTypes
  BY DEF IInv, TypeOK, BlockTypes
<1>2. /\ BlockTypes' /\ EveryBlockOnce' /\ used' <= used /\ used' \in Nat
      /\ remote' = <<>> /\ (used' = 0 <=> live = {})
  <2>1. CASE remote = <<>>
    BY <2>1, <1>1, CountedNow DEF Unown, BlockTypes, EveryBlockOnce
  <2>2. CASE remote # <<>>
    BY <2>2, <1>1, Collected DEF Unown, BlockTypes
  <2> QED
    BY <2>1, <2>2
<1>3. /\ pc[t] = "unown" /\ t \in Owners /\ identity \in Marks /\ used > 0
      /\ identity' = identity
  BY DEF Unown, Owners, Tails, Labels, Knows, IInv
<1>4. PICK l \in {"idle", "empty", "release", "unown"} :
        /\ Goto(t, l)
        /\ l = "idle" => ~owned' /\ used' > 0
        /\ l # "idle" => owned' = owned
        /\ l \in {"empty", "release"} <=> l # "idle" /\ used' = 0
        /\ l = "empty" => identity = "mapped"
        /\ l = "release" => identity # "mapped"
  <2>1. CASE remote = <<>>
    BY <2>1, <1>3 DEF Unown
  <2>2. CASE remote # <<>>
    BY <2>2, <1>3 DEF Unown, Emptied
  <2> QED
    BY <2>1, <2>2
<1>5. /\ OneOwner' /\ Readers' = Readers
      /\ pc' \in [Threads -> Labels] /\ pc'[t] = l
      /\ \A u \in Threads \ {t} : pc'[u] = pc[u] /\ Knows(u)'
  BY <1>3, <1>4, Alone, OwnerMoves DEF Unown, Tails, Labels, Marks
<1>6. UNCHANGED <<kind, live, bit, page, expected>>
  BY DEF Unown
<1>7. TypeOK'
  BY <1>1, <1>2, <1>3, <1>4, <1>5, <1>6, Zenon
  DEF Unown, TypeOK, BlockTypes, kind, Marks
<1>8. Token'
  <2>1. identity = "mapped" => (Full' => Full)
    BY <1>1, <1>2, CountedNow, SMTT(30) DEF Full
  <2> QED
    BY <2>1, <1>3, <1>4, <1>5, <1>6, OwnerToken DEF kind
<1>9. Knows(t)'
  <2>1. l = "unown" => used' > 0
    BY <1>2, <1>4
  <2> QED
    BY <2>1, <1>3, <1>4, <1>5 DEF Knows, Tails, Labels, Marks
<1>10. Ending'
  BY <1>1, <1>2, <1>3, <1>4, <1>5, <1>6, Alone, CountedNow, OwnerEnding, SMTT(30)
<1> QED
  BY <1>2, <1>5, <1>7, <1>8, <1>9, <1>10 DEF IInv

\* Gather preserves the invariant: the list ends in the head it expects.
LEMMA GatherKeeps ==
    ASSUME IInv, NEW t \in Threads, Gather(t)
    PROVE  IInv'
<1>1. TypeOK /\ EveryBlockOnce /\ BlockTypes
  BY DEF IInv, TypeOK, BlockTypes
<1>2. /\ BlockTypes' /\ EveryBlockOnce' /\ used' <= used /\ used' \in Nat
      /\ \/ used' = 0
         \/ expected'[t] = NoBlock
         \/ /\ used' > 1 /\ remote' # <<>>
            /\ remote'[Len(remote')] = expected'[t]
  <2>1. CASE small
    <3>1. expected[t] \in Range(remote) /\ CollectPartly(expected[t])
      BY <2>1 DEF Gather, Knows, IInv
    <3>2. expected'[t] = expected[t] /\ UNCHANGED live
      BY <2>1, <1>1, SMTT(30) DEF Gather, TypeOK
    <3>3. /\ BlockTypes' /\ EveryBlockOnce' /\ used' <= used
          /\ \/ used' = 0
             \/ /\ used' > 1 /\ remote' # <<>>
                /\ remote'[Len(remote')] = expected[t]
      BY <3>1, <3>2, <1>1, PartlyCollected, Zenon
    <3>4. used' \in Nat
      BY <3>3 DEF BlockTypes
    <3> QED
      BY <3>2, <3>3, <3>4
  <2>2. CASE ~small
    <3>1. expected'[t] = NoBlock /\ Collect /\ UNCHANGED live
      BY <2>2, <1>1 DEF Gather, TypeOK
    <3> QED
      BY <3>1, <1>1, Collected DEF BlockTypes
  <2> QED
    BY <2>1, <2>2, SMTT(30)
<1>3. /\ pc[t] = "claimed" /\ t \in Owners /\ identity \in Marks
      /\ identity' = identity
  BY DEF Gather, Owners, Tails, Labels, Knows, IInv
<1>4. PICK l \in {"empty", "release", "decide"} :
        /\ Goto(t, l)
        /\ l \in {"empty", "release"} <=> used' = 0
        /\ l = "empty" => identity = "mapped"
        /\ l = "release" => identity # "mapped"
  BY DEF Gather, Emptied
<1>5. /\ OneOwner' /\ Readers' = Readers
      /\ pc' \in [Threads -> Labels] /\ pc'[t] = l
      /\ \A u \in Threads \ {t} : pc'[u] = pc[u] /\ Knows(u)'
  BY <1>3, <1>4, Alone, OwnerMoves DEF Gather, Tails, Labels, Marks
<1>6. UNCHANGED <<kind, owned, live, bit, page>>
  BY DEF Gather
<1>7. TypeOK'
  BY <1>1, <1>2, <1>3, <1>4, <1>5, <1>6
  DEF Gather, TypeOK, BlockTypes, kind, Marks
<1>8. Token'
  <2>1. identity = "mapped" => (Full' => Full)
    BY <1>1, <1>2, CountedNow, SMTT(30) DEF Full
  <2> QED
    BY <2>1, <1>3, <1>4, <1>5, <1>6, OwnerToken DEF kind
<1>9. Knows(t)'
  BY <1>2, <1>3, <1>4, <1>5, <1>6 DEF Knows, Tails, Labels, Marks
<1>10. Ending'
  BY <1>1, <1>2, <1>3, <1>4, <1>5, <1>6, Alone, CountedNow, OwnerEnding
<1> QED
  BY <1>2, <1>5, <1>7, <1>8, <1>9, <1>10, Zenon DEF IInv

\* LeaveFails preserves the invariant.
LEMMA LeaveFailsKeeps ==
    ASSUME IInv, NEW t \in Threads, LeaveFails(t)
    PROVE  IInv'
<1>1. TypeOK /\ EveryBlockOnce /\ BlockTypes
  BY DEF IInv, TypeOK, BlockTypes
<1>2. /\ BlockTypes' /\ EveryBlockOnce' /\ used' <= used /\ used' \in Nat
      /\ remote' = <<>> /\ (used' = 0 <=> live = {})
  BY <1>1, Collected DEF LeaveFails, BlockTypes
<1>3. /\ pc[t] = "leave" /\ t \in Owners /\ identity \in Marks /\ used > 0
      /\ identity' = identity
  BY DEF LeaveFails, Owners, Tails, Labels, Knows, IInv
<1>4. remote = <<>> => used' = used
  BY <1>1, <1>2, CountedNow, Collected DEF LeaveFails
<1>5. ~MostlyUsed(used') => used' # Cardinality(Blocks)
  <2>1. Cardinality(Blocks) \in Nat /\ Eighth \in 0..Cardinality(Blocks)
    BY <1>1, CountedNow, PageAssumption
  <2> QED
    BY <1>2, <2>1 DEF MostlyUsed
<1>6. PICK l \in {"empty", "release", "mark", "leave"} :
        /\ Goto(t, l)
        /\ l \in {"empty", "release"} <=> used' = 0
        /\ l = "empty" => identity = "mapped"
        /\ l = "release" => identity # "mapped"
        /\ l = "mark" => /\ identity = "abandoned" /\ mappable
                        /\ used' # Cardinality(Blocks)
  BY <1>3, <1>4, <1>5 DEF LeaveFails, Emptied
<1>7. /\ OneOwner' /\ Readers' = Readers
      /\ pc' \in [Threads -> Labels] /\ pc'[t] = l
      /\ \A u \in Threads \ {t} : pc'[u] = pc[u] /\ Knows(u)'
  BY <1>3, <1>6, Alone, OwnerMoves DEF LeaveFails, Tails, Labels, Marks
<1>8. UNCHANGED <<kind, owned, live, bit, page>>
  BY DEF LeaveFails
<1>9. TypeOK'
  BY <1>1, <1>2, <1>3, <1>6, <1>7, <1>8
  DEF LeaveFails, TypeOK, BlockTypes, kind, Marks
<1>10. Token'
  <2>1. identity = "mapped" => (Full' => Full)
    BY <1>1, <1>2, CountedNow DEF Full
  <2> QED
    BY <2>1, <1>3, <1>6, <1>7, <1>8, OwnerToken DEF kind
<1>11. expected'[t] = NoBlock /\ (l = "mark" => mappable' /\ ~Full')
  BY <1>1, <1>6, <1>8, SMTT(30) DEF LeaveFails, TypeOK, Full, kind
<1>12. Knows(t)'
  <2>1. l \in {"mark", "leave"} => used' > 0
    BY <1>2, <1>6
  <2> QED
    BY <2>1, <1>3, <1>6, <1>7, <1>11 DEF Knows, Tails, Labels, Marks
<1>13. Ending'
  BY <1>1, <1>2, <1>3, <1>6, <1>7, <1>8, Alone, CountedNow, OwnerEnding
<1> QED
  BY <1>2, <1>7, <1>9, <1>10, <1>12, <1>13 DEF IInv

----------------------------------------------------------------------------
(* The steps of threads that do not own the page.                          *)

\* A free that publishes a block changes nothing the owner knows but the
\* head of its list.
LEMMA OwnerStillKnows ==
    ASSUME IInv, NEW u \in Threads, NEW b \in live,
           remote' = <<b>> \o remote, live' = live \ {b},
           pc'[u] = pc[u], expected'[u] = expected[u],
           UNCHANGED <<kind, used, free, identity>>
    PROVE  Knows(u)'
<1>1. BlockTypes
  BY DEF IInv, TypeOK, BlockTypes
<1>2. /\ Range(remote') = Range(remote) \cup {b} /\ remote' # <<>>
      /\ remote # <<>> => remote'[Len(remote')] = remote[Len(remote)]
  BY <1>1, FreedRemotely DEF IInv
<1>3. Knows(u)
  BY DEF IInv
<1> QED
  BY <1>2, <1>3 DEF Knows, Full, kind

\* Free preserves the invariant: it claims the page or leaves it to its owner.
LEMMA FreeKeeps ==
    ASSUME IInv, NEW t \in Threads, NEW b \in Blocks, Free(t, b)
    PROVE  IInv'
<1>1. TypeOK /\ EveryBlockOnce /\ BlockTypes
  BY DEF IInv, TypeOK, BlockTypes
<1>2. /\ BlockTypes' /\ EveryBlockOnce'
      /\ Range(remote') = Range(remote) \cup {b}
  BY <1>1, FreedRemotely DEF Free
<1>3. page = "live" /\ owned' /\ pc[t] = "idle" /\ identity # t
  <2>1. used # 0
    BY <1>1, CountedNow DEF Free
  <2> QED
    BY <2>1, <1>1 DEF Free, IInv, Ending, TypeOK
<1>4. CASE owned
  <2>1. UNCHANGED <<kind, owned, used, free, identity, bit, page, pc, expected>>
    BY <1>1, <1>4, <1>3 DEF Free, TypeOK
  <2>2. TypeOK' /\ OneOwner'
    BY <2>1, <1>1, <1>2 DEF IInv, TypeOK, BlockTypes, OneOwner, Owners, kind
  <2>3. Token'
    BY <2>1 DEF IInv, Token, Readers, Full, kind
  <2>4. Ending'
    BY <2>1, <1>3, <1>4 DEF IInv, Ending
  <2>5. \A u \in Threads : Knows(u)'
    BY <2>1, OwnerStillKnows DEF Free
  <2> QED
    BY <2>2, <2>3, <2>4, <2>5, <1>2 DEF IInv
<1>5. CASE ~owned
  <2>1. /\ Goto(t, "claimed") /\ expected' = [expected EXCEPT ![t] = b]
        /\ UNCHANGED <<kind, used, free, identity, bit, page>>
    BY <1>5 DEF Free
  <2>2. /\ pc' \in [Threads -> Labels] /\ pc'[t] = "claimed"
        /\ expected' \in [Threads -> Blocks \cup {NoBlock}] /\ expected'[t] = b
        /\ \A u \in Threads \ {t} : pc'[u] = pc[u] /\ expected'[u] = expected[u]
    BY <2>1, <1>1 DEF Goto, TypeOK, Labels
  <2>3. Owners = {} /\ identity \in Marks
    BY <1>1, <1>3, <1>5 DEF IInv, OneOwner, Owners, TypeOK
  <2>4. Owners' = {t} /\ Readers' = Readers
    BY <2>1, <2>2, <2>3, <1>3, PageAssumption
    DEF Owners, Readers, Tails, Labels, Marks
  <2>5. TypeOK' /\ OneOwner'
    BY <2>1, <2>2, <2>4, <1>1, <1>2, <1>3 DEF TypeOK, BlockTypes, OneOwner, kind
  <2>6. Token'
    BY <2>1, <2>2, <2>4, <1>3 DEF IInv, Token, Full, kind
  <2>7. Knows(t)'
    BY <2>1, <2>2, <2>3, <1>2 DEF Knows, Tails, Labels
  <2>8. \A u \in Threads \ {t} : Knows(u)'
    BY <2>1, <2>2, OwnerStillKnows DEF Free
  <2>9. Ending'
    BY <2>1, <2>2, <1>3 DEF IInv, Ending
  <2> QED
    BY <2>5, <2>6, <2>7, <2>8, <2>9, <1>2 DEF IInv
<1> QED
  BY <1>1, <1>4, <1>5 DEF TypeOK

\* FreeKept preserves the invariant: the block it leaves is in Kept.
LEMMA FreeKeptKeeps ==
    ASSUME IInv, NEW t \in Threads, NEW b \in Blocks, FreeKept(t, b)
    PROVE  IInv'
<1>1. TypeOK /\ EveryBlockOnce /\ BlockTypes
  BY DEF IInv, TypeOK, BlockTypes
<1>2. /\ BlockTypes' /\ EveryBlockOnce'
      /\ Range(remote') = Range(remote) \cup {b} /\ b \in Kept
  BY <1>1, FreedRemotely DEF FreeKept
<1>3. UNCHANGED <<kind, owned, used, free, identity, bit, page, pc, expected>>
  BY DEF FreeKept
<1>4. TypeOK' /\ OneOwner'
  BY <1>1, <1>2, <1>3 DEF IInv, TypeOK, BlockTypes, OneOwner, Owners, kind
<1>5. Token'
  BY <1>3 DEF IInv, Token, Readers, Full, kind
<1>6. Ending'
  BY <1>2, <1>3 DEF IInv, Ending
<1>7. \A u \in Threads : Knows(u)'
  BY <1>3, OwnerStillKnows DEF FreeKept
<1> QED
  BY <1>2, <1>4, <1>5, <1>6, <1>7 DEF IInv

\* Move preserves the invariant: nobody else is inside.
LEMMA MoveKeeps ==
    ASSUME IInv, NEW t \in Threads, Move(t)
    PROVE  IInv'
<1> USE DEF IInv
<1>1. /\ \A u \in Threads : pc[u] = "idle"
      /\ page = "live" /\ owned' /\ Readers = {}
      /\ UNCHANGED <<small, mappable, remote, used, free, live, bit, page, expected>>
  BY DEF Move, Readers
<1>2. PICK l \in {"move", "abandon"} :
        /\ Goto(t, l)
        /\ l = "move" => identity = "mapped" /\ identity' = "mapped"
        /\ l = "abandon" => identity # "mapped" /\ identity' = "abandoned"
  BY DEF Move
<1>3. /\ pc' \in [Threads -> Labels] /\ pc'[t] = l
      /\ \A u \in Threads \ {t} : pc'[u] = "idle"
  BY <1>1, <1>2 DEF Goto, TypeOK, Labels
<1>4. Owners' = {t} /\ Readers' = {}
  BY <1>2, <1>3, PageAssumption DEF Owners, Readers, Tails, Labels
<1>5. TypeOK' /\ EveryBlockOnce' /\ OneOwner'
  BY <1>1, <1>2, <1>3, <1>4, SMTT(30)
  DEF Move, TypeOK, EveryBlockOnce, OneOwner, Marks
<1>6. Token'
  BY <1>1, <1>2, <1>3, <1>4 DEF Token, Full
<1>7. \A u \in Threads \ {t} : Knows(u)'
  BY <1>3 DEF Knows, Tails, Labels
<1>8. Knows(t)'
  BY <1>2, <1>3 DEF Knows, Tails, Labels, Marks
<1>9. Ending'
  BY <1>1, <1>2, <1>3 DEF Ending
<1> QED
  BY <1>5, <1>6, <1>7, <1>8, <1>9

\* The step of a reader of the bitmap that stays a reader or ends; the owner
\* knows what it knew.
LEMMA ReaderMoves ==
    ASSUME IInv, NEW t \in Threads, pc[t] \in Quiet, NEW l \in Quiet,
           Goto(t, l),
           UNCHANGED <<kind, owned, remote, used, free, live, identity, page,
                       expected>>,
           bit' \in BOOLEAN, identity = "mapped"
    PROVE  /\ TypeOK' /\ EveryBlockOnce' /\ OneOwner' /\ Ending'
           /\ pc'[t] = l
           /\ \A u \in Threads \ {t} : pc'[u] = pc[u]
           /\ \A u \in Threads : Knows(u)'
<1> USE DEF IInv
<1>1. /\ pc' \in [Threads -> Labels] /\ pc'[t] = l
      /\ \A u \in Threads \ {t} : pc'[u] = pc[u]
  BY DEF Goto, TypeOK, Labels, Quiet
<1>2. Owners' = Owners
  BY <1>1, PageAssumption DEF Owners, Quiet, Tails, Labels
<1>3. TypeOK' /\ EveryBlockOnce' /\ OneOwner'
  BY <1>1, <1>2 DEF TypeOK, EveryBlockOnce, OneOwner, kind
<1>4. \A u \in Threads \ {t} : Knows(u)'
  BY <1>1 DEF Knows, Full, kind
<1>5. Knows(t)'
  BY <1>1 DEF Knows, Quiet, Tails, Labels
<1>6. Ending'
  BY <1>1 DEF Ending, Quiet
<1> QED
  BY <1>1, <1>3, <1>4, <1>5, <1>6
\* TakeBit preserves the invariant: the token passes from the bit to a reader.
LEMMA TakeBitKeeps ==
    ASSUME IInv, NEW t \in Threads, TakeBit(t)
    PROVE  IInv'
<1> USE DEF IInv
<1>1. /\ identity = "mapped" /\ Readers = {} /\ pc[t] = "idle" /\ bit
      /\ \A u \in Threads : pc[u] \notin {"adopt", "own"}
  BY DEF TakeBit, Token
<1>2. /\ TypeOK' /\ EveryBlockOnce' /\ OneOwner' /\ Ending'
      /\ pc'[t] = "resolve"
      /\ \A u \in Threads \ {t} : pc'[u] = pc[u]
      /\ \A u \in Threads : Knows(u)'
  BY <1>1, ReaderMoves, Zenon DEF TakeBit, Quiet
<1>3. Readers' = {t}
  BY <1>1, <1>2 DEF Readers
<1>4. Token'
  BY <1>1, <1>2, <1>3 DEF TakeBit, Token, Full, kind
<1> QED
  BY <1>2, <1>4

\* Resolve preserves the invariant.
LEMMA ResolveKeeps ==
    ASSUME IInv, NEW t \in Threads, Resolve(t)
    PROVE  IInv'
<1> USE DEF IInv
<1>1. /\ t \in Readers /\ pc[t] = "resolve" /\ ~bit
      /\ identity = "mapped" /\ Readers = {t}
  BY DEF Resolve, Token, Readers
<1>2. PICK l \in {"claim", "restore"} : Goto(t, l)
  BY DEF Resolve
<1>3. /\ TypeOK' /\ EveryBlockOnce' /\ OneOwner' /\ Ending'
      /\ pc'[t] = l
      /\ \A u \in Threads \ {t} : pc'[u] = pc[u]
      /\ \A u \in Threads : Knows(u)'
  BY <1>1, <1>2, ReaderMoves DEF Resolve, Quiet, TypeOK
<1>4. Readers' = Readers
  BY <1>1, <1>2, <1>3, SMTT(30) DEF Readers
<1>5. Token'
  BY <1>1, <1>2, <1>3, <1>4 DEF Resolve, Token, Full, kind
<1> QED
  BY <1>3, <1>5

\* Restore preserves the invariant: the reader gives the token back.
LEMMA RestoreKeeps ==
    ASSUME IInv, NEW t \in Threads, Restore(t)
    PROVE  IInv'
<1> USE DEF IInv
<1>1. /\ t \in Readers /\ pc[t] = "restore" /\ ~bit
      /\ identity = "mapped" /\ Readers = {t}
      /\ \A u \in Threads : pc[u] \notin {"adopt", "own"}
  BY DEF Restore, Token, Readers
<1>2. /\ TypeOK' /\ EveryBlockOnce' /\ OneOwner' /\ Ending'
      /\ pc'[t] = "idle"
      /\ \A u \in Threads \ {t} : pc'[u] = pc[u]
      /\ \A u \in Threads : Knows(u)'
  BY <1>1, ReaderMoves DEF Restore, Quiet
<1>3. Readers' = {}
  BY <1>1, <1>2 DEF Readers
<1>4. Token'
  BY <1>1, <1>2, <1>3 DEF Restore, Token, Full, kind
<1> QED
  BY <1>2, <1>4

\* Claim preserves the invariant: the reader that sets the owner bit is the
\* only owner and keeps the token.
LEMMA ClaimKeeps ==
    ASSUME IInv, NEW t \in Threads, Claim(t)
    PROVE  IInv'
<1>1. /\ pc[t] = "claim" /\ t \in Readers /\ Readers = {t} /\ ~bit
      /\ identity = "mapped" /\ page = "live"
      /\ \A u \in Threads : pc[u] \notin {"adopt", "own"}
  BY DEF Claim, IInv, Token, Readers, Ending, TypeOK
<1>2. UNCHANGED <<kind, remote, used, free, live, identity, bit, page, expected>>
  BY DEF Claim
<1>3. CASE owned
  <2>1. Goto(t, "restore") /\ UNCHANGED owned /\ bit' \in BOOLEAN
    BY <1>2, <1>3 DEF Claim, IInv, TypeOK
  <2>2. /\ TypeOK' /\ EveryBlockOnce' /\ OneOwner' /\ Ending'
        /\ pc'[t] = "restore"
        /\ \A u \in Threads \ {t} : pc'[u] = pc[u]
        /\ \A u \in Threads : Knows(u)'
    BY <2>1, <1>1, <1>2, ReaderMoves DEF Quiet
  <2>3. Readers' = Readers
    BY <1>1, <2>2 DEF Readers
  <2>4. Token'
    BY <1>1, <1>2, <2>2, <2>3 DEF IInv, Token, Full, kind
  <2> QED
    BY <2>2, <2>4 DEF IInv
<1>4. CASE ~owned
  <2>1. Goto(t, "adopt") /\ owned'
    BY <1>4 DEF Claim
  <2>2. /\ pc' \in [Threads -> Labels] /\ pc'[t] = "adopt"
        /\ \A u \in Threads \ {t} : pc'[u] = pc[u]
    BY <2>1 DEF Goto, IInv, TypeOK, Labels
  <2>3. Owners = {}
    BY <1>1, <1>4 DEF IInv, OneOwner
  <2>4. Owners' = {t} /\ Readers' = {}
    BY <1>1, <1>2, <2>2, <2>3 DEF Owners, Readers, Tails, Labels
  <2>5. TypeOK' /\ EveryBlockOnce' /\ OneOwner'
    BY <1>2, <2>1, <2>2, <2>4, <1>1, SMTT(30)
    DEF IInv, TypeOK, EveryBlockOnce, OneOwner, kind
  <2>6. Token'
    BY <1>1, <1>2, <2>2, <2>4, SMTT(30) DEF IInv, Token, Full, kind
  <2>7. Knows(t)'
    BY <1>1, <1>2, <2>2 DEF Knows, Tails, Labels, Marks
  <2>8. \A u \in Threads \ {t} : Knows(u)'
    BY <1>2, <2>2 DEF IInv, Knows, Full, kind
  <2>9. Ending'
    BY <1>1, <1>2, <2>1, <2>2 DEF IInv, Ending
  <2> QED
    BY <2>5, <2>6, <2>7, <2>8, <2>9 DEF IInv
<1> QED
  BY <1>3, <1>4, SMTT(30) DEF IInv, TypeOK

----------------------------------------------------------------------------
(* The theorems.                                                           *)

\* A fresh page satisfies the inductive invariant.
LEMMA InitIInv == Init => IInv
<1> SUFFICES ASSUME Init PROVE IInv
  OBVIOUS
<1> USE PageAssumption DEF Init
<1>1. Cardinality(Blocks) \in Nat
  BY FS_CardinalityType
<1>2. TypeOK
  <2>1. /\ pc \in [Threads -> Labels]
        /\ expected \in [Threads -> Blocks \cup {NoBlock}]
    BY DEF Labels
  <2>2. remote \in Seq(Blocks) /\ used \in 0..Cardinality(Blocks)
    BY <1>1
  <2>3. owned \in BOOLEAN /\ bit \in BOOLEAN /\ moved \in BOOLEAN
    BY Zenon
  <2> QED
    BY <2>1, <2>2, <2>3 DEF TypeOK
<1>3. EveryBlockOnce
  BY FS_EmptySet DEF EveryBlockOnce, Range, IsInjective
<1>4. PICK t \in Threads : identity = t
  OBVIOUS
<1>5. Owners = {t} /\ Readers = {}
  BY <1>4 DEF Owners, Readers, Tails, Labels
<1>6. OneOwner /\ Token /\ Ending
  BY <1>4, <1>5 DEF OneOwner, Token, Ending
<1>7. \A u \in Threads : Knows(u)
  BY DEF Knows, Tails, Labels
<1> QED
  BY <1>2, <1>3, <1>6, <1>7 DEF IInv

\* Every step preserves the inductive invariant.
LEMMA NextIInv == IInv /\ [Next]_vars => IInv'
<1> SUFFICES ASSUME IInv, [Next]_vars PROVE IInv'
  OBVIOUS
<1>1. ASSUME NEW t \in Threads, Step(t) PROVE IInv'
  BY <1>1, ForsakeKeeps, PublishKeeps, UnownKeeps, ClearBitKeeps,
     UnregisterKeeps, RetireKeeps, GatherKeeps, ReclaimKeeps, DeclineKeeps,
     OwnKeeps, LeaveKeeps, LeaveFailsKeeps, ResolveKeeps, ClaimKeeps,
     RestoreKeeps, AdoptKeeps
  DEF Step
<1>2. ASSUME NEW t \in Threads, NEW b \in Blocks,
             Allocate(t, b) \/ FreeLocal(t, b) \/ Free(t, b) \/ FreeKept(t, b)
      PROVE  IInv'
  BY <1>2, AllocateKeeps, FreeLocalKeeps, FreeKeeps, FreeKeptKeeps
<1>3. ASSUME NEW t \in Threads,
             OwnerCollect(t) \/ Abandon(t) \/ Move(t) \/ TakeBit(t)
      PROVE  IInv'
  BY <1>3, OwnerCollectKeeps, AbandonKeeps, MoveKeeps, TakeBitKeeps
<1>4. CASE UNCHANGED vars
  <2> USE <1>4 DEF vars
  <2>1. TypeOK' /\ EveryBlockOnce'
    BY DEF IInv, TypeOK, EveryBlockOnce
  <2>2. OneOwner'
    BY DEF IInv, OneOwner, Owners
  <2>3. Token'
    BY DEF IInv, Token, Readers, Full
  <2>4. \A t \in Threads : Knows(t)'
    BY DEF IInv, Knows, Full
  <2>5. Ending'
    BY DEF IInv, Ending
  <2> QED
    BY <2>1, <2>2, <2>3, <2>4, <2>5 DEF IInv
<1> QED
  BY <1>1, <1>2, <1>3, <1>4 DEF Next

\* The protocol keeps its inductive invariant, whatever the number of threads
\* and blocks.
THEOREM Inductive == Spec => []IInv
<1> QED
  BY InitIInv, NextIInv, PTL DEF Spec

\* The owner bit names one thread, and never nobody while the page is in use.
THEOREM OneOwnerHolds == Spec => []OneOwner
<1>1. IInv => OneOwner
  BY DEF IInv
<1> QED
  BY <1>1, Inductive, PTL

\* Owner, claimer and adopter take every freed block exactly once.
THEOREM EveryBlockOnceHolds == Spec => []EveryBlockOnce
<1>1. IInv => EveryBlockOnce
  BY DEF IInv
<1> QED
  BY <1>1, Inductive, PTL

\* A page is released only when no client, free or bitmap reader can reach it.
THEOREM NothingUsesReleasedHolds == Spec => []NothingUsesReleased
<1>1. ASSUME IInv, page # "live" PROVE
        /\ live = {} /\ remote = <<>> /\ ~bit
        /\ \A t \in Threads : pc[t] \in {"idle", "retire"}
  <2>1. used = 0 /\ identity = "abandoned"
    BY <1>1 DEF IInv, Ending
  <2>2. BlockTypes
    BY <1>1 DEF IInv, TypeOK, BlockTypes
  <2>3. live = {} /\ remote = <<>>
    BY <1>1, <2>1, <2>2, CountedNow DEF IInv
  <2>4. ~bit /\ Readers = {}
    BY <1>1, <2>1 DEF IInv, Token
  <2>5. CASE page = "released"
    BY <1>1, <2>3, <2>4, <2>5 DEF IInv, Ending
  <2>6. CASE page = "unregistered"
    <3>1. PICK t \in Threads : pc[t] = "retire"
      BY <1>1, <2>6 DEF IInv, Ending
    <3>2. t \in Owners
      BY <3>1 DEF Owners, Tails, Labels
    <3>3. \A u \in Threads \ {t} : pc[u] \in Quiet
      BY <1>1, <3>2, Alone
    <3> QED
      BY <3>1, <3>3, <2>3, <2>4 DEF Readers, Quiet
  <2> QED
    BY <1>1, <2>5, <2>6 DEF IInv, TypeOK
<1>2. IInv => NothingUsesReleased
  BY <1>1 DEF NothingUsesReleased
<1> QED
  BY <1>2, Inductive, PTL

\* When every thread is outside, an abandoned page can be found or claimed
\* again and is not empty.
THEOREM QuietPageHolds == Spec => []QuietPage
<1>1. ASSUME IInv, \A t \in Threads : pc[t] = "idle",
             page = "live", identity \in Marks
      PROVE  /\ ~owned /\ (bit <=> identity = "mapped") /\ used > 0
             /\ live = {} => Range(remote) \cap Kept # {}
  <2>1. Owners = {} /\ Readers = {}
    BY <1>1, PageAssumption DEF Owners, Readers, Tails, Labels, Marks
  <2>2. ~owned
    BY <1>1, <2>1 DEF IInv, OneOwner
  <2>3. bit <=> identity = "mapped"
    BY <1>1, <2>1 DEF IInv, Token
  <2>4. live # {} \/ Range(remote) \cap Kept # {}
    BY <1>1, <2>2 DEF IInv, Ending
  <2>5. BlockTypes
    BY <1>1 DEF IInv, TypeOK, BlockTypes
  <2>6. remote = <<>> => Range(remote) = {}
    BY DEF Range
  <2>7. used > 0
    BY <1>1, <2>4, <2>5, <2>6, CountedNow DEF IInv
  <2> QED
    BY <2>2, <2>3, <2>4, <2>7
<1>2. IInv => QuietPage
  BY <1>1, SMTT(30) DEF QuietPage
<1> QED
  BY <1>2, Inductive, PTL

\* No error return of the protocol is reachable.
THEOREM NoErrorReturnHolds == Spec => []NoErrorReturn
<1>1. ASSUME IInv, NEW t \in Threads
      PROVE  /\ pc[t] = "mark" => ~bit
             /\ pc[t] \in {"claim", "adopt"} => identity = "mapped"
             /\ pc[t] = "claimed" =>
                  /\ identity = "mapped" => mappable /\ ~Full
                  /\ expected[t] \in Range(remote)
  BY <1>1 DEF IInv, Token, Knows, Readers
<1>2. IInv => NoErrorReturn
  BY <1>1 DEF NoErrorReturn
<1> QED
  BY <1>2, Inductive, PTL
=============================================================================
