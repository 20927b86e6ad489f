--------------------------- MODULE AbandonedPage ----------------------------
(***************************************************************************)
(* crabc-mimalloc, remote_free.rs and abandoned.rs: the life of one page   *)
(* of the allocator between its owner, the threads that free its blocks    *)
(* and the threads that look for an abandoned page to reuse.               *)
(*                                                                         *)
(* The page has a list of blocks freed by other threads whose head word    *)
(* carries the owner bit.  Whoever sets that bit owns every other field.   *)
(* A thread gives a page up by clearing it; a free that finds it clear     *)
(* sets it with the compare-and-swap that publishes the block and must     *)
(* then free, reclaim, publish or release the page.  A bit of the arena's  *)
(* bitmap names a page that may be adopted.                                *)
(*                                                                         *)
(* Each action is one atomic access and the private work of the owner that *)
(* follows it.  The compare-and-swap loops on the head word are one step:  *)
(* what they write depends only on the word they replace.                  *)
(***************************************************************************)
EXTENDS Integers, FiniteSets, Sequences, Functions

CONSTANTS
    Threads,    \* the threads that use the page
    Blocks,     \* the blocks of the page: `reserved` counts them
    Kept,       \* the blocks freed with allow_collect = false
    Eighth,     \* reserved / 8, rounded down
    NoBlock     \* the null block address

ASSUME PageAssumption ==
    /\ IsFiniteSet(Blocks)
    /\ Kept \subseteq Blocks
    /\ NoBlock \notin Blocks
    /\ Eighth \in 0..Cardinality(Blocks)
    /\ Threads \cap {"abandoned", "mapped"} = {}

VARIABLES
    small,      \* the page takes the small-block path (collect_partly)
    mappable,   \* the page lives in an arena and has a bit in its bitmap
    owned,      \* the owner bit of xthread_free
    remote,     \* the blocks of xthread_free, newest first
    used,       \* page->used
    free,       \* the blocks of page->free and page->local_free
    live,       \* the blocks that clients hold
    identity,   \* xthread_id: the owning thread, or one of the two marks
    bit,        \* the page's bit of pages_abandoned
    page,       \* "live", "unregistered" (ordinary bit clear) or "released"
    pc,         \* where each thread is
    expected,   \* expected_head of the claiming free
    moved       \* the page has gone to the main heap, which is not deleted

vars == <<small, mappable, owned, remote, used, free, live, identity, bit,
          page, pc, expected, moved>>

\* What most steps leave alone.
kind == <<small, mappable, moved>>

Marks == {"abandoned", "mapped"}

\* idle      outside                    claimed   a free that set the owner bit
\* decide    ... and has collected      leave     unown_*_from_free
\* reclaim   clearing the bit to own the page     own    about to own it
\* mark      about to set the bit       unown     mi_abandoned_page_unown
\* empty     clearing the bit of an empty page    release  _mi_arenas_page_free
\* retire    ... with its map entries and ordinary bit gone
\* abandon   the owner has collected and gives the page up
\* move      a heap deletion that claimed the page    ... clears the bit
\* resolve   an adopter that took the bit         claim  ... and found the page
\* restore   ... and must put the bit back        adopt  ... and owns the page
Labels == {"idle", "claimed", "decide", "leave", "reclaim", "own", "mark",
           "unown", "empty", "release", "retire", "abandon", "move",
           "resolve", "claim", "restore", "adopt"}

\* The steps at which a thread holds the owner bit of an abandoned page.
Tails == Labels \ {"idle", "resolve", "claim", "restore"}

TypeOK ==
    /\ small \in BOOLEAN /\ mappable \in BOOLEAN
    /\ owned \in BOOLEAN
    /\ remote \in Seq(Blocks)
    /\ used \in 0..Cardinality(Blocks)
    /\ free \subseteq Blocks /\ live \subseteq Blocks
    /\ identity \in Threads \cup Marks
    /\ bit \in BOOLEAN
    /\ page \in {"live", "unregistered", "released"}
    /\ pc \in [Threads -> Labels]
    /\ expected \in [Threads -> Blocks \cup {NoBlock}]
    /\ moved \in BOOLEAN

\* A fresh page, owned by the thread that allocates from it.
Init ==
    /\ small \in BOOLEAN /\ mappable \in BOOLEAN
    /\ owned = TRUE
    /\ remote = <<>>
    /\ used = 0
    /\ free = Blocks /\ live = {}
    /\ identity \in Threads
    /\ bit = FALSE
    /\ page = "live"
    /\ pc = [t \in Threads |-> "idle"]
    /\ expected = [t \in Threads |-> NoBlock]
    /\ moved = FALSE

Goto(t, label) == pc' = [pc EXCEPT ![t] = label]

Full == used = Cardinality(Blocks)

\* page_is_mostly_used, of a use count; a full page is mostly used.
MostlyUsed(count) == Cardinality(Blocks) - count <= Eighth

Newest == IF remote = <<>> THEN NoBlock ELSE Head(remote)

----------------------------------------------------------------------------
(* Collection: the remote list, or a tail of it, joins the free blocks.    *)

\* collect_detached_to_local on the blocks of a list.
Take(blocks) ==
    /\ free' = free \cup blocks
    /\ used' = used - Cardinality(blocks)

\* collect_state: detach the whole list, keeping the owner bit.
Collect ==
    /\ Take(Range(remote))
    /\ remote' = <<>>

\* Fault: the blocks behind the head join the free blocks and stay linked.
CollectPartlyLinked(head) ==
    LET at == CHOOSE i \in DOMAIN remote : remote[i] = head
        older == {remote[i] : i \in {j \in DOMAIN remote : j > at}}
    IN  IF used - Cardinality(older) = 1
          THEN Collect
          ELSE Take(older) /\ UNCHANGED remote

\* collect_partly_state: take what is behind the head this free published;
\* take the head as well if nothing else is in use.
CollectPartly(head) ==
    LET at == CHOOSE i \in DOMAIN remote : remote[i] = head
        older == {remote[i] : i \in {j \in DOMAIN remote : j > at}}
    IN  IF used - Cardinality(older) = 1
          THEN Collect
          ELSE Take(older) /\ remote' = SubSeq(remote, 1, at)

----------------------------------------------------------------------------
(* The clients and the live owner.                                         *)

\* The owner hands out a block (the caller is the owner's only thread).
Allocate(t, b) ==
    /\ pc[t] = "idle" /\ identity = t
    /\ b \in free
    /\ free' = free \ {b} /\ live' = live \cup {b}
    /\ used' = used + 1
    /\ UNCHANGED <<kind, owned, remote, identity, bit, page, pc, expected>>

\* native_free on a page whose xthread_id names the calling thread.
FreeLocal(t, b) ==
    /\ pc[t] = "idle" /\ identity = t
    /\ b \in live
    /\ free' = free \cup {b} /\ live' = live \ {b}
    /\ used' = used - 1
    /\ UNCHANGED <<kind, owned, remote, identity, bit, page, pc, expected>>

\* push_source_block_mt with allow_collect: the block joins the list and the
\* owner bit is set; who finds it clear has claimed the page.
Free(t, b) ==
    /\ pc[t] = "idle" /\ identity # t
    /\ b \in live \ Kept
    /\ live' = live \ {b}
    /\ remote' = <<b>> \o remote
    /\ owned' = TRUE
    /\ IF owned
         THEN UNCHANGED <<pc, expected>>
         ELSE /\ Goto(t, "claimed")
              /\ expected' = [expected EXCEPT ![t] = b]
    /\ UNCHANGED <<kind, used, free, identity, bit, page>>

\* push_live_allocation_without_collect: the owner bit stays as it is.
FreeKept(t, b) ==
    /\ pc[t] = "idle" /\ identity # t
    /\ b \in live \cap Kept
    /\ live' = live \ {b}
    /\ remote' = <<b>> \o remote
    /\ UNCHANGED <<kind, owned, used, free, identity, bit, page, pc, expected>>

\* The owner collects on its own, as it does when it runs out of free blocks.
OwnerCollect(t) ==
    /\ pc[t] = "idle" /\ identity = t
    /\ remote # <<>>
    /\ Collect
    /\ UNCHANGED <<kind, owned, live, identity, bit, page, pc, expected>>

\* The owner exits, or the page is full and leaves its queue: the owner
\* collects.
Abandon(t) ==
    /\ pc[t] = "idle" /\ identity = t
    /\ Collect
    /\ Goto(t, "abandon")
    /\ UNCHANGED <<kind, owned, live, identity, bit, page, expected>>

\* Deleting a heap claims each of its pages.  The caller has detached the
\* heap's threads: nobody else is at work on the page, clients hold blocks.
Move(t) ==
    /\ \A u \in Threads : pc[u] = "idle"
    /\ page = "live" /\ ~moved
    /\ moved' = TRUE
    /\ owned' = TRUE
    /\ identity' = IF identity = "mapped" THEN "mapped" ELSE "abandoned"
    /\ Goto(t, IF identity = "mapped" THEN "move" ELSE "abandon")
    /\ UNCHANGED <<small, mappable, remote, used, free, live, bit, page, expected>>

\* Fault: a full page is published as one with free blocks.
ForsakeMapping(t) ==
    /\ pc[t] = "abandon"
    /\ identity' = IF used = 0 THEN identity ELSE "abandoned"
    /\ Goto(t, CASE used = 0 -> "release"
                 [] used # 0 /\ mappable -> "mark"
                 [] used # 0 /\ ~mappable -> "unown")
    /\ UNCHANGED <<kind, owned, remote, used, free, live, bit, page, expected>>

\* abandon_after_collect: an empty page is freed; another loses its owner and
\* is published unless it is full or has no bit.
Forsake(t) ==
    /\ pc[t] = "abandon"
    /\ identity' = IF used = 0 THEN identity ELSE "abandoned"
    /\ Goto(t, CASE used = 0 -> "release"
                 [] used # 0 /\ mappable /\ ~Full -> "mark"
                 [] used # 0 /\ ~(mappable /\ ~Full) -> "unown")
    /\ UNCHANGED <<kind, owned, remote, used, free, live, bit, page, expected>>

----------------------------------------------------------------------------
(* Giving an abandoned page up, and freeing an empty one.                  *)

\* The mapped identity, then map.publish; the bit is clear (is_clear).
Publish(t) ==
    /\ pc[t] = "mark"
    /\ identity' = "mapped"
    /\ bit' = TRUE
    /\ Goto(t, "unown")
    /\ UNCHANGED <<kind, owned, remote, used, free, live, page, expected>>

\* Fault: an empty page is freed with its bit still set.
EmptiedMapped == "release"

\* Where a page that has become empty goes.
Emptied == IF identity = "mapped" THEN "empty" ELSE "release"

\* Fault: the owner bit is cleared over a list that has just grown.
UnownOver(t) ==
    /\ pc[t] = "unown"
    /\ owned' = FALSE
    /\ Goto(t, "idle")
    /\ UNCHANGED <<kind, remote, used, free, live, identity, bit, page,
                   expected>>

\* Fault: the late block is waited for, not collected.
UnownWaiting(t) ==
    /\ pc[t] = "unown"
    /\ remote = <<>>
    /\ owned' = FALSE
    /\ Goto(t, "idle")
    /\ UNCHANGED <<kind, remote, used, free, live, identity, bit, page,
                   expected>>

\* unown_with: clear the owner bit of an empty list, or collect what a free
\* has published meanwhile and try again.
Unown(t) ==
    /\ pc[t] = "unown"
    /\ IF remote = <<>>
         THEN /\ owned' = FALSE
              /\ Goto(t, "idle")
              /\ UNCHANGED <<remote, used, free>>
         ELSE /\ Collect
              /\ Goto(t, IF used' = 0 THEN Emptied ELSE "unown")
              /\ UNCHANGED owned
    /\ UNCHANGED <<kind, live, identity, bit, page, expected>>

\* What unabandon_mapped is the first half of.
AfterClear == [empty |-> "release", reclaim |-> "own", move |-> "abandon"]

\* unabandon_mapped: wait until the bit is set, clear it, clear the mark.
ClearBit(t) ==
    /\ pc[t] \in {"empty", "reclaim", "move"}
    /\ bit
    /\ bit' = FALSE
    /\ identity' = "abandoned"
    /\ Goto(t, AfterClear[pc[t]])
    /\ UNCHANGED <<kind, owned, remote, used, free, live, page, expected>>

\* release_claimed_process_regular_arena_page: the page map entries and the
\* ordinary bit go first, the metadata and the slices after them.
Unregister(t) ==
    /\ pc[t] = "release"
    /\ page' = "unregistered"
    /\ identity' = "abandoned"
    /\ Goto(t, "retire")
    /\ UNCHANGED <<kind, owned, remote, used, free, live, bit, expected>>

Retire(t) ==
    /\ pc[t] = "retire"
    /\ page' = "released"
    /\ Goto(t, "idle")
    /\ expected' = [expected EXCEPT ![t] = NoBlock]
    /\ UNCHANGED <<kind, owned, remote, used, free, live, identity, bit>>

----------------------------------------------------------------------------
(* finish_regular_after_remote_claim: the free that claimed the page.      *)

Gather(t) ==
    /\ pc[t] = "claimed"
    /\ IF small THEN CollectPartly(expected[t]) ELSE Collect
    /\ expected' = [expected EXCEPT ![t] = IF small THEN @ ELSE NoBlock]
    /\ Goto(t, IF used' = 0 THEN Emptied ELSE "decide")
    /\ UNCHANGED <<kind, owned, live, identity, bit, page>>

\* try_reclaim: the freeing thread takes the page for itself.
Reclaim(t) ==
    /\ pc[t] = "decide"
    /\ Goto(t, IF identity = "mapped" THEN "reclaim" ELSE "own")
    /\ expected' = [expected EXCEPT ![t] = NoBlock]
    /\ UNCHANGED <<kind, owned, remote, used, free, live, identity, bit, page>>

\* try_reabandon_unmapped_to_mapped
Remaps == identity = "abandoned" /\ mappable /\ ~MostlyUsed(used)

\* It declines, and publishes the page or gives it up again.
Decline(t) ==
    /\ pc[t] = "decide"
    /\ Goto(t, IF Remaps THEN "mark" ELSE "leave")
    /\ expected' = [expected EXCEPT ![t] = IF Remaps THEN NoBlock ELSE @]
    /\ UNCHANGED <<kind, owned, remote, used, free, live, identity, bit, page>>

\* finish_reclaim_into_live_theap, and the same end of an adoption.
Own(t) ==
    /\ pc[t] = "own"
    /\ identity' = t
    /\ Collect
    /\ Goto(t, "idle")
    /\ UNCHANGED <<kind, owned, live, bit, page, expected>>

\* unown_mapped_from_free and unown_unmapped_from_free: the compare-and-swap
\* that clears the owner bit and leaves the expected head in the list ...
Leave(t) ==
    /\ pc[t] = "leave"
    /\ Newest = expected[t]
    /\ owned' = FALSE
    /\ expected' = [expected EXCEPT ![t] = NoBlock]
    /\ Goto(t, "idle")
    /\ UNCHANGED <<kind, remote, used, free, live, identity, bit, page>>

\* ... fails.  The weak compare-and-swap may fail on the expected head too.
\* A list that is empty is expected to be so from now on; any other list is
\* collected, and an unmapped page with enough free blocks is published.
LeaveFails(t) ==
    /\ pc[t] = "leave"
    /\ Collect
    /\ expected' = [expected EXCEPT ![t] = NoBlock]
    /\ Goto(t, CASE remote = <<>> -> "leave"
                 [] remote # <<>> /\ used' = 0 -> Emptied
                 [] remote # <<>> /\ used' # 0 ->
                      IF identity = "abandoned" /\ mappable /\ ~MostlyUsed(used')
                        THEN "mark" ELSE "leave")
    /\ UNCHANGED <<kind, owned, live, identity, bit, page>>

----------------------------------------------------------------------------
(* try_adopt_retained: a thread out of pages looks in the bitmap.          *)

TakeBit(t) ==
    /\ pc[t] = "idle" /\ identity # t
    /\ bit
    /\ bit' = FALSE
    /\ Goto(t, "resolve")
    /\ UNCHANGED <<kind, owned, remote, used, free, live, identity, page,
                   expected>>

\* main_page_is_set and the page map lookup.
Resolve(t) ==
    /\ pc[t] = "resolve"
    /\ Goto(t, IF page = "live" THEN "claim" ELSE "restore")
    /\ UNCHANGED <<kind, owned, remote, used, free, live, identity, bit, page,
                   expected>>

\* Fault: the old owner bit is not looked at.
ClaimBlindly(t) ==
    /\ pc[t] = "claim"
    /\ owned' = TRUE
    /\ Goto(t, "adopt")
    /\ UNCHANGED <<kind, remote, used, free, live, identity, bit, page,
                   expected>>

\* claim_abandoned_owner: one fetch_or of the owner bit.
Claim(t) ==
    /\ pc[t] = "claim"
    /\ owned' = TRUE
    /\ Goto(t, IF owned THEN "restore" ELSE "adopt")
    /\ UNCHANGED <<kind, remote, used, free, live, identity, bit, page,
                   expected>>

\* KeepSet
Restore(t) ==
    /\ pc[t] = "restore"
    /\ bit' = TRUE
    /\ Goto(t, "idle")
    /\ UNCHANGED <<kind, owned, remote, used, free, live, identity, page,
                   expected>>

\* The collection under the mapped identity.
Adopt(t) ==
    /\ pc[t] = "adopt"
    /\ Collect
    /\ Goto(t, "own")
    /\ UNCHANGED <<kind, owned, live, identity, bit, page, expected>>

----------------------------------------------------------------------------
\* The steps of a call that has begun.
Step(t) ==
    \/ Forsake(t) \/ Publish(t) \/ Unown(t) \/ ClearBit(t)
    \/ Unregister(t) \/ Retire(t)
    \/ Gather(t) \/ Reclaim(t) \/ Decline(t) \/ Own(t)
    \/ Leave(t) \/ LeaveFails(t)
    \/ Resolve(t) \/ Claim(t) \/ Restore(t) \/ Adopt(t)

Next ==
    \E t \in Threads :
        \/ \E b \in Blocks :
              Allocate(t, b) \/ FreeLocal(t, b) \/ Free(t, b) \/ FreeKept(t, b)
        \/ OwnerCollect(t) \/ Abandon(t) \/ Move(t) \/ TakeBit(t)
        \/ Step(t)

\* A thread inside the allocator keeps running.
Fairness == \A t \in Threads : WF_vars(Step(t))

Spec == Init /\ [][Next]_vars /\ Fairness

----------------------------------------------------------------------------
\* The threads that may touch the fields the owner bit guards.
Owners == {t \in Threads : pc[t] \in Tails \/ identity = t}

\* The owner bit names exactly one thread with the right to the page's other
\* fields: it is set while one thread owns the page, runs the tail of a claim
\* or gives the page up, never for two of them, and never for nobody (a page
\* nobody could claim again) until the page is released.
OneOwner ==
    /\ \A s, t \in Owners : s = t
    /\ page # "released" => (owned <=> Owners # {})

\* used counts the blocks held by clients and those of the remote list; each
\* block is in one place.  collect_detached_to_local and collect_partly_state
\* take every block once, whoever of owner, claimer and adopter gets there.
EveryBlockOnce ==
    /\ used = Cardinality(live) + Len(remote)
    /\ IsInjective(remote)
    /\ live \cap free = {} /\ live \cap Range(remote) = {}
    /\ free \cap Range(remote) = {}

\* A page is released only when no client holds a block of it, no block is
\* pending and no reader of the bitmap is still looking at it
\* (clear_once_set waits for the reader that took the bit).
NothingUsesReleased ==
    page # "live" =>
        /\ live = {} /\ remote = <<>> /\ ~bit
        /\ \A t \in Threads : pc[t] \in {"idle", "retire"}

\* What is left when every thread is outside (assert_quiescent of
\* remote_free_loom.rs): an abandoned page is unowned, its bit is set exactly
\* when it is mapped, so that it can be found again, and it is not empty,
\* unless the blocks freed last asked for no collection.
QuietPage ==
    (/\ \A t \in Threads : pc[t] = "idle"
     /\ page = "live" /\ identity \in Marks) =>
        /\ ~owned
        /\ bit <=> identity = "mapped"
        /\ used > 0
        /\ live = {} => Range(remote) \cap Kept # {}

\* No error return of the protocol is reachable; each would leave the page
\* owned by nobody who runs: the bit is clear before it is published
\* (MappedBitAlreadyPublished), an adopter finds the mapped identity
\* (NotAbandoned), a full page is never mapped, and the partial collection
\* finds the head its free published.
NoErrorReturn ==
    \A t \in Threads :
        /\ pc[t] = "mark" => ~bit
        /\ pc[t] \in {"claim", "adopt"} => identity = "mapped"
        /\ pc[t] = "claimed" => /\ identity = "mapped" => mappable /\ ~Full
                               /\ expected[t] \in Range(remote)

\* The threads that took the bit and have not yet kept or returned it.
Readers == {t \in Threads : pc[t] \in {"resolve", "claim", "restore"}}

\* The mapped identity is a token: the bit, the one reader that took it, or
\* the adopter that will replace the identity.
Token ==
    /\ \A s, t \in Readers : s = t
    /\ bit => Readers = {}
    /\ bit \/ Readers # {} => identity = "mapped"
    /\ identity = "mapped" =>
         /\ mappable /\ ~Full
         /\ \/ bit \/ Readers # {}
            \/ \E t \in Threads : pc[t] \in {"adopt", "own"}
    /\ \A t \in Threads : pc[t] \in {"adopt", "own"} => ~bit /\ Readers = {}

\* What the holder of the owner bit knows at each of its steps.
Knows(t) ==
    /\ pc[t] \in {"empty", "reclaim", "move", "adopt"} => identity = "mapped"
    /\ pc[t] = "mark" => identity = "abandoned" /\ mappable /\ ~Full
    /\ pc[t] \in {"abandon", "release"} => identity # "mapped"
    /\ pc[t] \in Tails \ {"abandon", "release"} => identity \in Marks
    /\ pc[t] \in {"decide", "leave", "mark", "unown"} => used > 0
    /\ pc[t] \in {"empty", "release", "retire"} => used = 0
    /\ pc[t] = "claimed" => expected[t] \in Range(remote)
    /\ pc[t] \in {"decide", "leave"} /\ expected[t] # NoBlock =>
         /\ used > 1
         /\ remote # <<>> /\ remote[Len(remote)] = expected[t]

\* The end of the page, and why an unowned page is not lost.
Ending ==
    /\ \A t \in Threads : pc[t] = "retire" => page = "unregistered"
    /\ page # "live" => used = 0 /\ identity = "abandoned"
    /\ page = "unregistered" =>
         \E t \in Threads : pc[t] = "retire"
    /\ page = "released" => owned /\ \A t \in Threads : pc[t] = "idle"
    /\ ~owned => live # {} \/ Range(remote) \cap Kept # {}

\* The inductive invariant.
IInv ==
    /\ TypeOK
    /\ EveryBlockOnce
    /\ OneOwner
    /\ Token
    /\ \A t \in Threads : Knows(t)
    /\ Ending

\* Every call on the page returns: the loops that give a page up end, and so
\* does the wait for a bitmap reader, unless readers keep coming for ever.
CallsEnd ==
    \A t \in Threads :
        []<>(pc[t] = "idle") \/ []<>(\E u \in Threads : pc[u] = "resolve")
=============================================================================
