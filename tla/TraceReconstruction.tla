--------------------------- MODULE TraceReconstruction ---------------------------
(***************************************************************************)
(* Calls made from traces that hold no text: the prompts of Weka traces,   *)
(* given by the hashes of their cache blocks, the streams and the timing   *)
(* of sub-agents, and the search for predecessors                          *)
(* (datagen/replay/weka_trace_replay_datagen.py).                          *)
(*                                                                         *)
(* A turn is [hashes, in, out].  The text of a block is the same wherever  *)
(* its hash occurs; a token is <<"block", hash, place>> or, in the tail    *)
(* of a prompt, <<"tail", turn, place>>.  Texts are the tokens they are    *)
(* decoded from.  A trace holds the hash of every full block of a prompt.  *)
(***************************************************************************)
EXTENDS ReplayGraph, Integers

CONSTANTS BlockSize   \* tokens of a cache block

ASSUME BlockSizeAssumption == BlockSize \in Nat \ {0}

Blocks(hashes) == FlattenSeq([k \in 1..Len(hashes) |-> [l \in 1..BlockSize |-> <<"block", hashes[k], l>>]])
PartialTail(n, seed) == [l \in 1..n |-> <<"tail", seed, l>>]
TailOf(turn) == turn.in % BlockSize
BlocksFor(tokens) == (tokens + BlockSize - 1) \div BlockSize

RoleSegment(role, count, tokens) == [role |-> role, count |-> count, tokens |-> tokens]
TokensOf(segments) == FlattenSeq([k \in 1..Len(segments) |-> segments[k].tokens])

(* init_turn_0: the system prompt and the tools, in whole blocks, then the *)
(* rest as one user message.                                               *)
InitTurn0(turn, prefix, seed) ==
    LET system == IF BlocksFor(prefix) < Len(turn.hashes) THEN BlocksFor(prefix) ELSE Len(turn.hashes)
        user == SubSeq(turn.hashes, system + 1, Len(turn.hashes))
    IN (IF system = 0 THEN <<>> ELSE <<RoleSegment("system", system, Blocks(SubSeq(turn.hashes, 1, system)))>>)
       \o <<RoleSegment("user", Len(user), Blocks(user) \o PartialTail(TailOf(turn), seed))>>

SharedBlocks(prev, turn) == Len(LongestCommonPrefix({prev.hashes, turn.hashes}))

(* What is left of the segment that ends where the history is cut: it      *)
(* loses as many tokens as the last prompt had in its tail.                *)
WithoutTail(segment, tail) ==
    LET n == Len(segment.tokens)
    IN [segment EXCEPT !.tokens = SubSeq(@, 1, n - (IF tail < n THEN tail ELSE n))]

(* Defect: a segment that is cut within keeps all its tokens.              *)
CutNothing(segment, kept) == [segment EXCEPT !.count = kept]

CutWithin(segment, kept) ==
    LET n == Len(segment.tokens)
    IN [segment EXCEPT !.count = kept, !.tokens = SubSeq(@, 1, IF kept * BlockSize < n THEN kept * BlockSize ELSE n)]

(* truncate_synth_buf_at_block: the segments up to block target. *)
Truncated(segments, target, tail) ==
    LET end(k) == SumOf([l \in 1..k |-> segments[l].count])
        last == CHOOSE k \in 1..Len(segments) : end(k) >= target /\ \A l \in 1..k - 1 : end(l) < target
    IN IF target <= 0 THEN <<>>
       ELSE IF end(Len(segments)) < target THEN segments
       ELSE SubSeq(segments, 1, last - 1) \o
            <<IF end(last) = target THEN WithoutTail(segments[last], tail)
              ELSE CutWithin(segments[last], target - end(last - 1))>>

(* advance_turn: what the prompts have in common stays; the blocks behind  *)
(* it are the answer to the last prompt, as many as it takes, and the next *)
(* user message.                                                           *)
AdvanceTurn(segments, prev, turn, seed) ==
    LET lcp == SharedBlocks(prev, turn)
        kept == Truncated(segments, lcp, TailOf(prev))
        new == Len(turn.hashes) - lcp
        tokens == Blocks(SubSeq(turn.hashes, lcp + 1, Len(turn.hashes))) \o PartialTail(TailOf(turn), seed)
        assistant == IF BlocksFor(prev.out) < new THEN BlocksFor(prev.out) ELSE new
        user == SubSeq(tokens, assistant * BlockSize + 1, Len(tokens))
    IN kept
       \o (IF assistant = 0 THEN <<>>
           ELSE <<RoleSegment("assistant", assistant, SubSeq(tokens, 1, assistant * BlockSize))>>)
       \o (IF user = <<>> THEN <<>> ELSE <<RoleSegment("user", new - assistant, user)>>)

(* The prompts of a conversation, turn by turn (_reconstruct_raw_calls). *)
Prompts(turns, prefix) ==
    LET prompt[k \in 1..Len(turns)] ==
            IF k = 1 THEN InitTurn0(turns[1], prefix, 1) ELSE AdvanceTurn(prompt[k - 1], turns[k - 1], turns[k], k)
    IN prompt

(***************************************************************************)
(* Streams of a sub-agent: a request goes to the first stream that is free *)
(* when it starts (_pack_into_streams).  Requests are [t, time], in the    *)
(* order of t.                                                             *)
(***************************************************************************)
(* Defect: a stream is free only some time after its last request.         *)
FreeLater(end, t) == end < t

Free(end, t) == end <= t

StreamEnd(requests, stream) == LET last == requests[stream[Len(stream)]] IN last.t + last.time
PackIntoStreams(requests) ==
    FoldLeft(LAMBDA streams, r :
                LET free == {k \in 1..Len(streams) : Free(StreamEnd(requests, streams[k]), requests[r].t)}
                IN IF free = {} THEN Append(streams, <<r>>)
                   ELSE LET first == CHOOSE k \in free : \A l \in free : k <= l
                        IN [streams EXCEPT ![first] = Append(@, r)],
             <<>>, [r \in 1..Len(requests) |-> r])

(***************************************************************************)
(* Idle time: gaps between the starts of requests are cut to cap           *)
(* (_IdleGapTimeWarp).  Starts are in ascending order.                     *)
(***************************************************************************)
Gaps(starts, cap) == {k \in 2..Len(starts) : starts[k] - starts[k - 1] > cap}
ShiftBefore(starts, cap, k) ==
    SumOf([l \in 1..k |-> IF l \in Gaps(starts, cap) THEN starts[l] - starts[l - 1] - cap ELSE 0])

(* Defect: a time within a gap is not held back.                           *)
NotClamped(starts, cap, k, t) ==
    t - ShiftBefore(starts, cap, k - 1)

WithinGap(starts, cap, k, t) ==
    (IF t - starts[k - 1] <= cap THEN t ELSE starts[k - 1] + cap) - ShiftBefore(starts, cap, k - 1)

Warp(starts, cap, t) ==
    LET inside == {k \in Gaps(starts, cap) : starts[k - 1] <= t /\ t < starts[k]}
        passed == {k \in Gaps(starts, cap) : starts[k] <= t}
        last == CHOOSE k \in passed : \A l \in passed : l <= k
    IN IF inside # {} THEN WithinGap(starts, cap, CHOOSE k \in inside : TRUE, t)
       ELSE IF passed = {} THEN t ELSE t - ShiftBefore(starts, cap, last)

(***************************************************************************)
(* The predecessors of calls with plain texts, found without looking at    *)
(* every message (_find_weka_predecessors): 0, or the first assistant      *)
(* message that holds the text, as <<message, whether it is equal>>.       *)
(***************************************************************************)
AssistantMessages(messages) == {k \in 1..Len(messages) : messages[k].role = "assistant"}

(* Defect: an equal message is preferred to an earlier one that holds the  *)
(* text.                                                                   *)
EqualFirst(text, messages) ==
    LET t(k) == MessageText(messages[k])
        equal == {k \in AssistantMessages(messages) : t(k) = text}
        hits == {k \in AssistantMessages(messages) : Within(text, t(k))}
    IN IF equal # {} THEN <<Min(equal), TRUE>> ELSE IF hits = {} THEN <<0, FALSE>> ELSE <<Min(hits), FALSE>>

FirstAssistantMatch(text, messages) ==
    LET m == AssistantMessages(messages)
        t(k) == MessageText(messages[k])
        exact == {k \in m : t(k) = text /\ \A l \in m : t(l) = text => k <= l}
        joined == FlattenSeq([k \in 1..Len(messages) |-> IF k \in m THEN t(k) ELSE <<>>])
        hits == {k \in m : k \in exact \/ Within(text, t(k))}
        none == <<0, FALSE>>
    IN IF m = {} THEN none
       ELSE IF text = <<>> THEN <<Min(m), t(Min(m)) = <<>>>>
       ELSE IF \A k \in m : Len(text) > Len(t(k)) THEN none
       ELSE IF exact = {} /\ ~Within(text, joined) THEN none
       ELSE IF hits = {} THEN none ELSE <<Min(hits), t(Min(hits)) = text>>

(***************************************************************************)
(* Properties.                                                             *)
(***************************************************************************)
(* Every prompt is made of its blocks, in their order and complete, and    *)
(* ends with its tail, so that it hits and misses in the cache what the    *)
(* recorded one did, however much of the last prompt it takes back.        *)
EveryBlockIsAligned(turns, prompts) ==
    \A k \in 1..Len(turns) :
        TokensOf(prompts[k]) = Blocks(turns[k].hashes) \o PartialTail(TailOf(turns[k]), k)

(* The same for conversations whose prompts but the last fill their blocks.*)
WholeBlocks(turns) == \A k \in 1..Len(turns) - 1 : TailOf(turns[k]) = 0
WholeBlocksAreAligned(turns, prompts) == WholeBlocks(turns) => EveryBlockIsAligned(turns, prompts)

(* No two requests of a stream run at a time, every request is in one      *)
(* stream, and there are no more streams than requests that run at a time. *)
StreamsAreFewest(requests, streams) ==
    LET n == Len(requests)
        Running(t) == {r \in 1..n : requests[r].t <= t /\ t < requests[r].t + requests[r].time}
    IN /\ \A r \in 1..n : \E k \in 1..Len(streams) : r \in ToSet(streams[k])
       /\ SumOf([k \in 1..Len(streams) |-> Len(streams[k])]) = n
       /\ \A k \in 1..Len(streams) : \A l \in 2..Len(streams[k]) :
              StreamEnd(requests, SubSeq(streams[k], 1, l - 1)) <= requests[streams[k][l]].t
       /\ \A k \in 2..Len(streams) : \E r \in 1..n :
              Cardinality(Running(requests[r].t) \cup {r}) >= k

(* Time never runs backwards, no gap between two starts is longer than the *)
(* cap, and one that was not stays as it was.                              *)
WarpKeepsOrder(starts, cap, times) ==
    /\ \A t \in times : Warp(starts, cap, t) <= Warp(starts, cap, t + 1)
    /\ \A k \in 2..Len(starts) :
          Warp(starts, cap, starts[k]) - Warp(starts, cap, starts[k - 1])
              = IF starts[k] - starts[k - 1] > cap THEN cap ELSE starts[k] - starts[k - 1]

(* The fast search finds the message that get_causal_dep finds, and calls  *)
(* it equal when that does; a match across two messages is none.           *)
FastSearchAgrees(text, messages) ==
    LET k == FirstHolding(text, messages)
    IN FirstAssistantMatch(text, messages)
           = <<k, k # 0 /\ OutputMatches(text, messages[k], FALSE)>>
=============================================================================
