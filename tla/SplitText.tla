------------------------------ MODULE SplitText ------------------------------
(***************************************************************************)
(* split_text_into_chunks of backend/utils/chunked_tts.py: a long text is   *)
(* cut into the logical chunks that are synthesised, checkpointed and       *)
(* joined one by one.  One action is one round of its loop.                 *)
(*                                                                         *)
(* Abstracted: a character is one of Characters, one per class the code     *)
(* tells apart; "m" is the only abbreviation.  Positions count from 1, so   *)
(* a cut at p is the source's split_pos + 1.                                *)
(***************************************************************************)
EXTENDS Integers, Sequences, SequencesExt

CONSTANTS Texts,    \* the texts to split
          Limits    \* the values of max_chars

Letters == {"a", "m"}
Digits == {"3"}
Ends == {"."}        \* . ! ? need white space or the segment's end after them
WideEnds == {"W"}    \* the CJK full stops do not
Clauses == {","}
Space == " "
Characters == Letters \cup Digits \cup Ends \cup WideEnds \cup Clauses \cup {"[", "]", Space}

ASSUME SplitAssumption == Texts \subseteq Seq(Characters) /\ Limits \subseteq Nat \ {0}

VARIABLES text,    \* the argument
          limit,   \* max_chars
          rest,    \* remaining
          chunks   \* the chunks so far

splitVars == <<text, limit, rest, chunks>>

NoText == /\ text = <<>> /\ limit = 1 /\ rest = <<>> /\ chunks = <<>>

-----------------------------------------------------------------------------
Greatest(S) == CHOOSE p \in S : \A q \in S : q <= p

Printed(t) == {p \in DOMAIN t : t[p] # Space}
From(t, p) == SubSeq(t, p, Len(t))

(* str.lstrip and str.strip *)
LStrip(t) == IF Printed(t) = {} THEN <<>>
             ELSE From(t, CHOOSE p \in Printed(t) : \A q \in Printed(t) : p <= q)
Strip(t) == LET u == LStrip(t) IN
            IF u = <<>> THEN <<>> ELSE SubSeq(u, 1, Greatest(Printed(u)))

(* The matches of _PARA_TAG_RE: an opening bracket and the next closing one,*)
(* a bracket inside a match opening nothing.                                *)
Closes(t, i, j) == i < j /\ t[j] = "]" /\ \A k \in i + 1 .. j - 1 : t[k] # "]"
Tags(t) ==
    {g \in (DOMAIN t) \X (DOMAIN t) :
        /\ t[g[1]] = "[" /\ Closes(t, g[1], g[2])
        /\ \A k \in 1 .. g[1] - 1 : t[k] = "[" => \E l \in k + 1 .. g[1] - 1 : t[l] = "]"}

InsideTag(t, p) == \E g \in Tags(t) : g[1] < p /\ p <= g[2]

(* The regular expressions end in white space or the end of the segment,    *)
(* whatever the text goes on with after the segment.                        *)
Followed(t, p) == p = Len(t) \/ t[p + 1] = Space

(* The last position before p that is not a letter, 0 if there is none. *)
WordStart(t, p) == Greatest({0} \cup {q \in 1 .. p - 1 : t[q] \notin Letters})

NotAStop(t, p) ==
    LET w == WordStart(t, p) IN
    \/ SubSeq(t, w + 1, p - 1) = <<"m">>
    \/ w > 0 /\ t[w] \in Digits

SentenceEnds(t) ==
    {p \in DOMAIN t : \/ /\ t[p] \in Ends /\ Followed(t, p)
                         /\ ~NotAStop(t, p) /\ ~InsideTag(t, p)
                      \/ t[p] \in WideEnds}
ClauseEnds(t) == {p \in DOMAIN t : t[p] \in Clauses /\ Followed(t, p) /\ ~InsideTag(t, p)}
Spaces(t) == {p \in DOMAIN t : t[p] = Space}

(* _safe_hard_cut: before the first tag the cut falls into, unless the      *)
(* segment begins with that tag.                                            *)
HardCut(t) ==
    LET cut == Len(t)
        hit == {g \in Tags(t) : g[1] < cut /\ cut <= g[2]} IN
    IF \E g \in hit : g[1] > 1 THEN (CHOOSE g \in hit : TRUE)[1] - 1 ELSE cut

(* Where a segment of exactly max_chars characters is cut. *)
SplitAt(t) ==
    IF SentenceEnds(t) # {} THEN Greatest(SentenceEnds(t))
    ELSE IF ClauseEnds(t) # {} THEN Greatest(ClauseEnds(t))
    ELSE IF Spaces(t) # {} THEN Greatest(Spaces(t))
    ELSE HardCut(t)

-----------------------------------------------------------------------------
SplitInit ==
    /\ text \in Texts /\ limit \in Limits
    /\ rest = Strip(text) /\ chunks = <<>>

Added(c) == IF c = <<>> THEN chunks ELSE Append(chunks, c)

(* Faulty variant: the character after the cut is taken for a space. *)
CutSwallowing ==
    LET r == LStrip(rest)
        p == SplitAt(SubSeq(r, 1, limit)) IN
    /\ Len(r) > limit
    /\ chunks' = Added(Strip(SubSeq(r, 1, p)))
    /\ rest' = From(r, p + 2)

Cut ==
    LET r == LStrip(rest)
        p == SplitAt(SubSeq(r, 1, limit)) IN
    /\ Len(r) > limit
    /\ chunks' = Added(Strip(SubSeq(r, 1, p)))
    /\ rest' = From(r, p + 1)

LastChunk ==
    /\ Len(LStrip(rest)) <= limit
    /\ chunks' = Added(LStrip(rest))
    /\ rest' = <<>>

SplitNext == /\ rest # <<>>
             /\ Cut \/ LastChunk
             /\ UNCHANGED <<text, limit>>

-----------------------------------------------------------------------------
(* Properties. *)

Spoken(t) == FoldLeft(LAMBDA said, c : IF c = Space THEN said ELSE Append(said, c), <<>>, t)

(* Nothing of the text is spoken twice, left out or moved: the chunks so    *)
(* far and what remains are the text up to white space, and every chunk is  *)
(* neither empty nor longer than the limit the engine was promised.         *)
ChunksPartitionText ==
    /\ Spoken(FlattenSeq(chunks) \o rest) = Spoken(text)
    /\ \A i \in DOMAIN chunks : Len(chunks[i]) \in 1 .. limit

=============================================================================
