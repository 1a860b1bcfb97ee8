------------------------------ MODULE LongForm ------------------------------
(***************************************************************************)
(* What generate_chunked and generate_text_batch of                         *)
(* backend/utils/chunked_tts.py compute: a text is synthesised in logical   *)
(* chunks, each under a seed of its own; a chunk the engine cannot finish   *)
(* or spoils is tried under other seeds and then in smaller pieces; results *)
(* are joined with a crossfade.  Everything here is a function of the text, *)
(* the seed and the engine, which is what makes a checkpoint reusable.      *)
(*                                                                         *)
(* Abstracted: a text is a sequence of words and max_chars counts words     *)
(* (SplitText models where a text is really cut); a frame lists what was    *)
(* mixed into it and with which weights; a word takes one frame.            *)
(***************************************************************************)
EXTENDS Integers, Sequences, SequencesExt

CONSTANTS Engines,     \* engines, each [long, wild]: seeds at which it fails
          Words,       \* the words of all texts
          ChunkWords,  \* max_chunk_chars
          MinRetry,    \* MIN_RUNAWAY_RETRY_CHARS
          Crossfade,   \* frames two chunks share
          Modulus,     \* _SEED_MODULUS
          MaxFrames    \* MAX_GENERATED_AUDIO_DURATION_SECONDS in frames

ASSUME LongFormAssumption ==
    /\ {ChunkWords, MinRetry, Modulus, MaxFrames} \subseteq Nat \ {0}
    /\ Crossfade \in Nat

MaxRetries == 2                     \* MAX_RUNAWAY_RETRIES
DurationOffsets == <<0, 10000, 20000>>  \* _DURATION_LIMIT_SEED_OFFSETS_V1

Offset(seed, by) == (seed + by) % Modulus

(* Consecutive pieces of at most n words. *)
Pieces(words, n) ==
    [k \in 1 .. (Len(words) + n - 1) \div n |->
        SubSeq(words, (k - 1) * n + 1, Min({k * n, Len(words)}))]

-----------------------------------------------------------------------------
(* What one inference yields.  An engine is deterministic: it runs over its *)
(* duration limit, or spoils more than a single word, at certain seeds.     *)
Outcome(engine, words, seed) ==
    IF seed \in engine.long THEN "limit"
    ELSE IF seed \in engine.wild /\ Len(words) > 1 THEN "runaway" ELSE "sound"

Frames(words, seed) == [i \in DOMAIN words |-> <<[word |-> words[i], seed |-> seed, fades |-> <<>>]>>]

Faded(frame, way, i, n) == [k \in DOMAIN frame |-> [frame[k] EXCEPT !.fades = Append(@, <<way, i, n>>)]]
Blend(old, new, i, n) == Faded(old, "out", i, n) \o Faded(new, "in", i, n)

(* _DiskBackedChunkAccumulator.append: the last `overlap` frames of what    *)
(* there is are read back and blended with the first ones of the chunk.     *)
Appended(audio, chunk) ==
    LET overlap == Min({Crossfade, Len(audio), Len(chunk)})
        kept == Len(audio) - overlap IN
    SubSeq(audio, 1, kept)
      \o [i \in 1 .. overlap |-> Blend(audio[kept + i], chunk[i], i, overlap)]
      \o SubSeq(chunk, overlap + 1, Len(chunk))

TooLong(audio, chunk) == Len(audio) + Len(chunk) - Min({Crossfade, Len(audio), Len(chunk)}) > MaxFrames

Nothing == [ok |-> FALSE, audio |-> <<>>]
Voiced(audio) == [ok |-> TRUE, audio |-> audio]

(* One more result in a row of results, of which none may fail. *)
Accumulated(sofar, result) ==
    IF ~sofar.ok \/ ~result.ok \/ TooLong(sofar.audio, result.audio) THEN Nothing
    ELSE Voiced(Appended(sofar.audio, result.audio))

(* retry_accumulator: a row of results, one after the other. *)
JoinedResults(results) == FoldLeft(Accumulated, Voiced(<<>>), results)

(* The first seed, of the three the recovery tries, at which the engine     *)
(* stays within its limit.                                                  *)
Tried(engine, words, seed) ==
    SelectSeq([k \in DOMAIN DurationOffsets |-> Offset(seed, DurationOffsets[k])],
              LAMBDA s : Outcome(engine, words, s) # "limit")

(* generate_one: x is <<engine, words, seed, retry_depth>>.                 *)
One[x \in Engines \X Seq(Words) \X (0 .. Modulus - 1) \X (0 .. MaxRetries)] ==
    LET engine == x[1]  words == x[2]  seed == x[3]  depth == x[4]
        tried == Tried(engine, words, seed)
        halves == Pieces(words, Max({MinRetry, Len(words) \div 2})) IN
    IF tried # <<>> /\ Outcome(engine, words, tried[1]) = "sound"
    THEN Voiced(Frames(words, tried[1]))
    ELSE IF depth = MaxRetries \/ Len(words) <= MinRetry \/ Len(halves) = 1 THEN Nothing
    ELSE JoinedResults([i \in DOMAIN halves |->
                   One[<<engine, halves[i], Offset(seed, (depth + 1) * 1000 + i - 1), depth + 1>>]])

(* The logical chunks of a request, [words, seed], and their seeds.         *)
Chunks(request) == Pieces(request.words, ChunkWords)
ChunkSeed(request, i) == Offset(request.seed, i - 1)

Chunk(engine, request, i) == One[<<engine, Chunks(request)[i], ChunkSeed(request, i), 0>>]

(* concatenate_audio_chunks: the length first, then every chunk into one    *)
(* buffer of that length.                                                   *)
TotalFrames(chunks) ==
    FoldLeft(LAMBDA n, c : n + Len(c) - Min({Crossfade, n, Len(c)}), 0, chunks)
Concatenated(chunks) ==
    FoldLeft(LAMBDA buffer, c :
                 LET overlap == Min({Crossfade, buffer.cursor, Len(c)})
                     first == buffer.cursor - overlap IN
                 [cursor |-> first + Len(c),
                  frames |-> [p \in DOMAIN buffer.frames |->
                      CASE p <= first \/ p > first + Len(c) -> buffer.frames[p]
                        [] p > first /\ p <= buffer.cursor -> Blend(buffer.frames[p], c[p - first], p - first, overlap)
                        [] OTHER -> c[p - first]]],
             [cursor |-> 0, frames |-> [p \in 1 .. TotalFrames(chunks) |-> <<>>]],
             chunks).frames

(* What a request sounds like when it is synthesised in one go. *)
Fresh(engine, request) ==
    LET results == [i \in DOMAIN Chunks(request) |-> Chunk(engine, request, i)]
        audios == [i \in DOMAIN results |-> results[i].audio] IN
    IF (\A i \in DOMAIN results : results[i].ok) /\ TotalFrames(audios) <= MaxFrames
    THEN Voiced(Concatenated(audios)) ELSE Nothing

(* generate_text_batch for one of its two texts: a single inference, and    *)
(* smaller chunks if that is spoiled; its duration limit is not recovered.  *)
InBatch(engine, request) ==
    CASE Outcome(engine, request.words, request.seed) = "sound" -> Voiced(Frames(request.words, request.seed))
      [] Outcome(engine, request.words, request.seed) = "limit" -> Nothing
      [] OTHER ->
           LET retry == Pieces(request.words, Max({MinRetry, Len(request.words) \div 2})) IN
           JoinedResults([i \in DOMAIN retry |-> One[<<engine, retry[i], ChunkSeed(request, i), 0>>]])

=============================================================================
