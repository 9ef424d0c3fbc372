------------------------------ MODULE SlotCache ------------------------------
(***************************************************************************)
(* The slots of the server over the KV caches of the context: a slot keeps *)
(* the tokens it believes are cached (cache_tokens; here their count, its  *)
(* "book") and trims, extends, forks and shifts them together with the     *)
(* cells.  One tick of update_slots first builds a batch (context shift,   *)
(* one sampled token and its draft per generating slot, chunks of prompts) *)
(* and enters every token in the books; then it decodes the batch, call by *)
(* call and ubatch by ubatch, retrying a refused call after a defrag and   *)
(* with half the tokens; then drafts are verified and the rejected ones    *)
(* are taken back.                                                         *)
(*                                                                         *)
(* Tokens have no identity here: any prefix of a book may match the next   *)
(* prompt, and a shift keeps and drops any number of tokens of the book    *)
(* (n_keep and n_discard are request parameters; a discard that reaches    *)
(* beyond the book is one that reaches its end, and a negative one, which  *)
(* turns the shift off for its request, does not occur).  Checkpoints, the *)
(* companion context of a draft model, media chunks, the system prompt and *)
(* self-extend are left out.                                               *)
(***************************************************************************)
EXTENDS KvContext

CONSTANTS
    SlotCtx,    \* slot.n_ctx: tokens one slot may hold
    Margin,     \* free cells of the shared ring below which a slot must yield
    Boots,      \* ways to start: the sizes of the caches, two levers, and
                \* whether some requests come with cache_prompt false
    MaxDraft,   \* bound: draft tokens of one verification
    MaxKeep, MaxDrop,   \* bounds: tokens a shift keeps at the start, and drops
    NBatch, NUbatch

ASSUME SlotAssumption ==
    /\ SlotCtx \in 2..(MaxPos + 1) /\ Margin \in Nat
    /\ MaxDraft \in Nat /\ MaxKeep \in Nat /\ MaxDrop \in Nat
    /\ Boots \subseteq [self : Nat \ {0}, swa : Nat, fork : BOOLEAN,
                        shift : BOOLEAN, uncached : BOOLEAN]
    /\ NUbatch \in Nat \ {0} /\ NBatch \in Nat \ {0} /\ NUbatch <= NBatch

VARIABLES
    boot,   \* the levers of this run
    kv,     \* the two caches of the context
    phase,  \* slot -> "idle", "prompt", "gen"
    book,   \* slot -> number of its cache_tokens
    draft,  \* slot -> draft tokens in its book that are not verified yet
    lag,    \* slot -> tokens n_past is short of the book, after a shift that
            \* left the book alone and until the next sampled token
    nocache,\* slots whose request came with cache_prompt false
    torn,   \* slots whose book is known to be wrong: left so by an error path
            \* or by the shift of a request without cache_prompt (history)
    pend,   \* slots of the tokens of the batch not decoded yet, in order
    left,   \* tokens left in the llama_decode call under way (0: none)
    begun,  \* has that call committed a ubatch?
    nb,     \* n_batch, halved by refused calls of this tick
    tried   \* defrag_tried of this tick

vars == <<boot, kv, phase, book, draft, lag, nocache, torn, pend, left, begun,
          nb, tried>>
askVars == <<lag, nocache>>
batchVars == <<pend, left, begun, nb, tried>>

Slots == Seqs
Building == left = 0 /\ nb = 0          \* the batch is still being put together

Pending(s) == Cardinality({k \in DOMAIN pend : pend[k] = s})
Decoded(s) == book[s] - Pending(s)      \* tokens of the book that were decoded

\* The next n tokens of the batch, each at its place in its slot's book.
Ubatch(n) ==
    [k \in 1..n |->
       [seq |-> pend[k],
        pos |-> Decoded(pend[k]) + Cardinality({j \in 1..(k - 1) : pend[j] = pend[k]})]]

Init ==
    /\ boot \in Boots
    /\ kv = [self |-> Fresh(boot.self), swa |-> Fresh(boot.swa)]
    /\ phase = [s \in Slots |-> "idle"]
    /\ book = [s \in Slots |-> 0]
    /\ draft = [s \in Slots |-> 0] /\ lag = [s \in Slots |-> 0]
    /\ nocache = {} /\ torn = {}
    /\ pend = <<>> /\ left = 0 /\ begun = FALSE /\ nb = 0 /\ tried = FALSE

Repeat(s, n) == [k \in 1..n |-> s]

-----------------------------------------------------------------------------
(* Building the batch                                                      *)

Past(s) == book[s] - lag[s]             \* slot.n_past

\* The ring is nearly full and s is the deepest slot.  (The caches of idle
\* slots are reclaimed first, by Erase, counted in tokens of their books: when
\* they share their cells that frees nothing.)
Yields(s) ==
    /\ kv.self.used >= kv.self.size - Margin
    /\ \A t \in Slots : phase[t] = "gen" => Past(t) <= Past(s)

\* discard_n_kv_and_cache_tokens, the cells' side: d tokens after the first
\* keep ones go, the later ones move down.  The removal's answer is not read.
Slid(s, keep, d) ==
    CtxSeqAdd(CtxSeqRm(kv, s, keep, keep + d), s, keep + d, book[s], -d)
SlipOff(s, keep, d) == Refused(kv, s, keep, keep + d)

\* context_shift: a slot that is full or yields drops d tokens after the first
\* keep ones.  Only a request with cache_prompt has its book edited.
Shift(s, keep, d) ==
    /\ Building /\ pend = <<>> /\ boot.shift
    /\ phase[s] = "gen" /\ draft[s] = 0 /\ lag[s] = 0
    /\ book[s] >= SlotCtx - 1 \/ Yields(s)
    /\ keep + d <= book[s]
    /\ kv' = Slid(s, keep, d)
    /\ IF s \in nocache
       THEN lag' = [lag EXCEPT ![s] = d] /\ book' = book
       ELSE lag' = lag /\ book' = [book EXCEPT ![s] = @ - d]
    /\ torn' = IF s \in nocache \/ SlipOff(s, keep, d) THEN torn \cup {s} ELSE torn
    /\ UNCHANGED <<boot, phase, draft, nocache, batchVars>>

AddSampled_SlipNoLimit(s, n) ==
    /\ Building /\ phase[s] = "gen" /\ Pending(s) = 0 /\ draft[s] = 0
    /\ book[s] <= SlotCtx /\ book[s] + n < End /\ Len(pend) + 1 + n <= NBatch
    /\ pend' = pend \o Repeat(s, 1 + n)
    /\ book' = [book EXCEPT ![s] = @ + 1 + n]
    /\ draft' = [draft EXCEPT ![s] = n]
    /\ lag' = [lag EXCEPT ![s] = 0]
    /\ UNCHANGED <<boot, kv, phase, nocache, torn, left, begun, nb, tried>>

\* add_sampled_tokens: the sampled token and its draft go to the batch, at the
\* end of the book; a slot that is full was shifted first.  A book that no
\* shift edits grows without a limit in the code, here to the bound End.
AddSampled(s, n) ==
    /\ Building /\ phase[s] = "gen" /\ Pending(s) = 0 /\ draft[s] = 0
    /\ Past(s) + n < SlotCtx - 1 \/ (n = 0 /\ lag[s] > 0)
    /\ book[s] + n < End /\ Len(pend) + 1 + n <= NBatch
    /\ pend' = pend \o Repeat(s, 1 + n)
    /\ book' = [book EXCEPT ![s] = @ + 1 + n]
    /\ draft' = [draft EXCEPT ![s] = n]
    /\ lag' = [lag EXCEPT ![s] = 0]
    /\ UNCHANGED <<boot, kv, phase, nocache, torn, left, begun, nb, tried>>

\* context_shift_prompt: when the prompt is longer than the context, d tokens
\* after the first keep ones are dropped from it, and those of them that the
\* book lists from the cache as well.  What the prompt finds of the slot's own
\* cache, shifted or not.  (The book of a request without cache_prompt is not
\* edited here either: it shares nothing with it, and the trim empties it.)
Openings(s) ==
    {[kv |-> kv, book |-> book[s], torn |-> s \in torn]}
    \cup {[kv |-> Slid(s, x[1], x[2]), book |-> book[s] - x[2],
            torn |-> s \in torn \/ SlipOff(s, x[1], x[2])] :
          x \in {y \in (0..MaxKeep) \X (1..MaxDrop) :
                    boot.shift /\ y[1] + y[2] <= book[s]}}

\* The prompt shares its first p tokens with the book: the rest is trimmed,
\* unless nothing at or beyond p is held.  A removal that is refused costs the
\* slot everything it had cached.
Trim(o, s, p) ==
    LET skip == Max({0, PosMax(o.kv.self, s)}) < p
        lost == ~skip /\ Refused(o.kv, s, p, End)
        k == CtxSeqRm(o.kv, s, p, End)
    IN  [kv |-> IF skip THEN o.kv ELSE IF lost THEN CtxSeqRm(k, s, 0, End) ELSE k,
         book |-> IF lost THEN 0 ELSE p,
         torn |-> o.torn /\ ~lost /\ p > 0]

\* The slot goes on with the prompt from the caches and the book of r.
GoesOn(s, r, cached) ==
    /\ kv' = r.kv
    /\ book' = [book EXCEPT ![s] = r.book]
    /\ torn' = IF r.torn THEN torn \cup {s} ELSE torn \ {s}
    /\ phase' = [phase EXCEPT ![s] = "prompt"]
    /\ lag' = [lag EXCEPT ![s] = 0]
    /\ nocache' = IF cached THEN nocache \ {s} ELSE nocache \cup {s}
    /\ UNCHANGED <<boot, draft, batchVars>>

Landings(s, cached) ==
    UNION {{Trim(o, s, p) :
              p \in IF cached THEN {q \in 0..o.book : q < SlotCtx - 1} ELSE {0}} :
           o \in Openings(s)}

\* A request lands on an idle slot; one without cache_prompt shares nothing.
Admit(s, cached) ==
    /\ Building /\ phase[s] = "idle" /\ (cached \/ boot.uncached)
    /\ \E r \in Landings(s, cached) : GoesOn(s, r, cached)

\* slot_fork_try, on a model without a sliding cache: the prompt starts with p
\* tokens of another slot's book, more than the slot has of its own.  Short or
\* crowded cells undo it, at the price of what the slot had cached.
Fork(s, t) ==
    /\ Building /\ boot.fork /\ ~SwaActive(kv)
    /\ phase[s] = "idle" /\ s # t
    /\ \E o \in Openings(s), p \in 1..book[t] :
          LET f == CtxSharePrefix(o.kv, t, s, p)
              taken == Shared(o.kv.self, t, p) = p /\ PosMax(f.self, s) = p - 1
          IN  /\ p < SlotCtx - 1
              /\ PosMax(o.kv.self, t) >= p - 1 /\ Min(PositionsOf(o.kv.self, t)) = 0
              /\ GoesOn(s, IF taken THEN [kv |-> f, book |-> p, torn |-> t \in torn]
                            ELSE [kv |-> CtxSeqRm(f, s, 0, End), book |-> 0, torn |-> FALSE],
                         TRUE)

\* The next n tokens of the prompt; with the last of them the slot generates.
AddPrompt(s, n, last) ==
    /\ Building /\ phase[s] = "prompt" /\ Pending(s) = 0
    /\ book[s] + n < SlotCtx /\ Len(pend) + n <= NBatch
    /\ pend' = pend \o Repeat(s, n)
    /\ book' = [book EXCEPT ![s] = @ + n]
    /\ phase' = [phase EXCEPT ![s] = IF last THEN "gen" ELSE @]
    /\ UNCHANGED <<boot, kv, draft, askVars, torn, left, begun, nb, tried>>

-----------------------------------------------------------------------------
(* Decoding it (process_batch_tokens and llama_decode_internal)            *)

Unverified == {s \in Slots : draft[s] > 0 /\ Pending(s) = 0}

\* The tokens of the call that this step works on, and of its next ubatch.
Decoding == pend # <<>> /\ (left = 0 => Unverified = {})
Width == IF nb = 0 THEN NBatch ELSE nb
Call == IF left > 0 THEN left ELSE Min({Width, Len(pend)})
Take == Min({NUbatch, Call})
Batch == Ubatch(Take)
Hinted == [self |-> HeadHint(kv.self, Take), swa |-> kv.swa]
Short == left = 0 /\ Call > kv.self.size - kv.self.used

EndTick == nb' = 0 /\ tried' = FALSE

Commit(k) ==
    /\ kv' = SelfPlaced(k, Batch)
    /\ pend' = SubSeq(pend, Take + 1, Len(pend))
    /\ left' = Call - Take
    /\ begun' = (left' > 0)
    /\ IF pend' = <<>> /\ draft = [s \in Slots |-> 0] THEN EndTick
       ELSE nb' = Width /\ tried' = tried
    /\ UNCHANGED <<boot, phase, book, draft, askVars, torn>>

\* The call is refused before it committed anything: compact once, then go on
\* with half as many tokens, and with the last one give up.
Retry(k) ==
    /\ ~begun
    /\ \/ /\ ~tried
          /\ tried' = TRUE /\ nb' = Width
          /\ kv' \in Compacted(k)
          /\ UNCHANGED <<phase, draft, torn, pend>>
       \/ /\ tried /\ Width > 1
          /\ nb' = Width \div 2 /\ tried' = tried /\ kv' = k
          /\ UNCHANGED <<phase, draft, torn, pend>>
       \/ /\ tried /\ Width = 1
          /\ EndTick /\ kv' = k
          /\ pend' = <<>>
          /\ phase' = [s \in Slots |-> "idle"]
          /\ draft' = [s \in Slots |-> 0]
          /\ torn' = torn \cup {s \in Slots : Pending(s) > 0}
    /\ UNCHANGED <<boot, book, askVars, left, begun>>

\* Refused in the middle of a call: every slot at work is released.  Its book
\* keeps the tokens that were never decoded.
GiveUp(k) ==
    /\ begun
    /\ kv' = k
    /\ pend' = <<>> /\ left' = 0 /\ begun' = FALSE /\ EndTick
    /\ phase' = [s \in Slots |-> "idle"]
    /\ draft' = [s \in Slots |-> 0]
    /\ torn' = torn \cup {s \in Slots : Pending(s) > 0}
    /\ UNCHANGED <<boot, book, askVars>>

Refuse(k) == Retry(k) \/ GiveUp(k)

TooMany == Decoding /\ Short /\ Retry(kv)
NoSwaRoom ==
    /\ Decoding /\ ~Short /\ ~SwaRoom(Hinted, Batch)
    /\ Refuse(Retired(Hinted, Batch))
Decode ==
    /\ Decoding /\ ~Short /\ SwaRoom(Hinted, Batch)
    /\ Room(kv.self, Take)
    /\ Commit(SwaPlaced(Hinted, Batch))
\* No run of free cells in the main cache: in the middle of a call it is
\* compacted there and then, and the call fails if the compaction does.
NoSelfRoom ==
    /\ Decoding /\ ~Short /\ SwaRoom(Hinted, Batch)
    /\ ~Room(kv.self, Take)
    /\ LET k == SwaPlaced(Hinted, Batch)
       IN  \/ ~begun /\ Retry(GivenBack(k, Take))
           \/ /\ begun
              /\ \E c \in Compacted(k) :
                    \/ Room(c.self, Take) /\ Commit(c)
                    \/ GiveUp(GivenBack(c, Take))

Verify_SlipNotRemoved(s, n) ==
    /\ left = 0 /\ s \in Unverified /\ n <= draft[s]
    /\ book' = [book EXCEPT ![s] = @ - draft[s] + n]
    /\ draft' = [draft EXCEPT ![s] = 0]
    /\ IF pend = <<>> /\ Unverified = {s} THEN EndTick
       ELSE UNCHANGED <<nb, tried>>
    /\ UNCHANGED <<boot, kv, askVars, torn, phase, pend, left, begun>>

\* Drafts of the calls that are done are verified: n of them are accepted, the
\* rest is removed, and whether the removal was refused is not looked at.
Verify(s, n) ==
    /\ left = 0 /\ s \in Unverified /\ n <= draft[s]
    /\ LET p == book[s] - draft[s] + n
       IN  /\ book' = [book EXCEPT ![s] = p]
           /\ kv' = CtxSeqRm(kv, s, p, End)
           /\ torn' = IF Refused(kv, s, p, End) THEN torn \cup {s} ELSE torn
    /\ draft' = [draft EXCEPT ![s] = 0]
    /\ IF pend = <<>> /\ Unverified = {s} THEN EndTick
       ELSE UNCHANGED <<nb, tried>>
    /\ UNCHANGED <<boot, phase, askVars, pend, left, begun>>

-----------------------------------------------------------------------------
(* Between ticks                                                           *)

Release(s) ==
    /\ Building /\ pend = <<>> /\ phase[s] # "idle"
    /\ phase' = [phase EXCEPT ![s] = "idle"]
    /\ UNCHANGED <<boot, kv, book, draft, askVars, torn, batchVars>>

\* SLOT_ERASE, and the cache of an idle slot reclaimed for another one.
Erase(s) ==
    /\ Building /\ pend = <<>> /\ phase[s] = "idle" /\ book[s] > 0
    /\ kv' = CtxSeqRm(kv, s, 0, End)
    /\ book' = [book EXCEPT ![s] = 0]
    /\ lag' = [lag EXCEPT ![s] = 0]
    /\ torn' = torn \ {s}
    /\ UNCHANGED <<boot, phase, draft, nocache, batchVars>>

Next ==
    \/ \E s \in Slots :
          \/ Release(s) \/ Erase(s)
          \/ \E keep \in 1..MaxKeep, d \in 1..MaxDrop : Shift(s, keep, d)
          \/ \E n \in 0..MaxDraft : AddSampled(s, n) \/ Verify(s, n)
          \/ \E cached \in BOOLEAN : Admit(s, cached)
          \/ \E t \in Slots : Fork(s, t)
          \/ \E n \in 1..NBatch, last \in BOOLEAN : AddPrompt(s, n, last)
    \/ TooMany \/ NoSwaRoom \/ Decode \/ NoSelfRoom

Spec == Init /\ [][Next]_vars

-----------------------------------------------------------------------------
(* What the slots rely on                                                  *)

TypeOK ==
    /\ boot \in Boots
    /\ \A c \in {kv.self, kv.swa} :
          /\ c.cells \in [Rows(c) -> Cell] /\ c.head \in 0..c.size
          /\ c.used \in 0..c.size
    /\ phase \in [Slots -> {"idle", "prompt", "gen"}]
    /\ book \in [Slots -> 0..End] /\ draft \in [Slots -> 0..MaxDraft]
    /\ \A s \in Slots \ torn : book[s] < SlotCtx
    /\ lag \in [Slots -> 0..End] /\ nocache \subseteq Slots
    /\ torn \subseteq Slots /\ pend \in Seq(Slots)
    /\ left \in 0..NBatch /\ begun \in BOOLEAN /\ nb \in 0..NBatch
    /\ tried \in BOOLEAN

\* The book of a slot lists exactly the positions it holds, each in one cell,
\* unless an error path is known to have left it wrong: whatever a fork shares,
\* editing one slot takes nothing from another (server-context.cpp:5648-5654,
\* "never another sequence's").
BookIsHeld ==
    \A s \in Slots \ torn :
        /\ PositionsOf(kv.self, s) = 0..(Decoded(s) - 1)
        /\ OneRowEach(kv.self, s)

\* The two caches never disagree about which tokens exist: a refused ubatch
\* leaves nothing behind in the sliding cache (llama.cpp:12324-12330).
CachesAgree ==
    \A s \in Slots :
        /\ PositionsOf(kv.swa, s) \subseteq PositionsOf(kv.self, s)
        /\ s \notin torn => OneRowEach(kv.swa, s)

\* Whatever was evicted for whom, the next query of a slot finds its window.
WindowIsHeld ==
    SwaActive(kv) =>
        \A s \in {t \in Slots \ torn : draft[t] = 0} :
            Max({0, Decoded(s) - Window + 1})..(Decoded(s) - 1)
                \subseteq PositionsOf(kv.swa, s)

\* Every step is one of the abstract ones: in particular it edits the
\* positions of one slot only, cells shared by a fork or not.
Promise == INSTANCE PromptCache
    WITH held <- [s \in Slots |-> PositionsOf(kv.self, s)]
ImplementsPromptCache == Promise!Spec
=============================================================================
