------------------------------ MODULE ChunkPlan ------------------------------
(***************************************************************************)
(* How a file is cut for TikTok: `plan_chunks` and `iter_ranges` of          *)
(* sau/platforms/tiktok/publisher.py.  Sizes and offsets are in bytes, or in *)
(* whatever unit the constants are.                                         *)
(***************************************************************************)
EXTENDS Integers

CONSTANTS
    MinChunk,   \* MIN_CHUNK_BYTES
    MaxChunk,   \* MAX_CHUNK_BYTES
    MaxChunks,  \* MAX_CHUNKS
    Chunk       \* chunk_size_bytes, the preferred chunk

ASSUME ChunkConstantsOK ==
    /\ MinChunk \in Nat \ {0}
    /\ MaxChunk \in Nat /\ MinChunk <= MaxChunk
    /\ MaxChunks \in Nat \ {0}
    /\ Chunk \in Nat /\ MinChunk <= Chunk   \* the setting is declared with ge = 5 MiB

Clamped == IF Chunk < MinChunk THEN MinChunk ELSE IF Chunk > MaxChunk THEN MaxChunk ELSE Chunk

\* math.ceil(size / MAX_CHUNKS)
Widened(size) == (size + MaxChunks - 1) \div MaxChunks

\* The chunk size for a file that is not too small to be cut.
ChunkFor(size) ==
    IF size \div Clamped <= MaxChunks THEN Clamped
    ELSE IF Widened(size) <= MaxChunk THEN Widened(size) ELSE MaxChunk

TooLarge(size) == size >= MinChunk /\ size \div ChunkFor(size) > MaxChunks

ChunkSize(size) == IF size < MinChunk THEN size ELSE ChunkFor(size)

\* Rounded down: the last chunk takes the remainder.
Total(size) ==
    IF size < MinChunk \/ size < ChunkFor(size) THEN 1 ELSE size \div ChunkFor(size)

\* The chunk number i, from 0, of iter_ranges.
RangeStart(size, i) == i * ChunkSize(size)
RangeEnd(size, i) == IF i = Total(size) - 1 THEN size ELSE (i + 1) * ChunkSize(size)
-----------------------------------------------------------------------------
\* What TikTok asks of a plan: chunks of a legal size, not too many, none of them
\* short, and the last of less than twice the size.
PlanLegal(size) ==
    /\ ChunkSize(size) <= MaxChunk
    /\ size >= MinChunk => ChunkSize(size) >= MinChunk
    /\ Total(size) \in 1..MaxChunks
    /\ RangeStart(size, Total(size) - 1) < size
    /\ size - RangeStart(size, Total(size) - 1) < 2 * ChunkSize(size)
    /\ Total(size) > 1 => size - RangeStart(size, Total(size) - 1) >= ChunkSize(size)
=============================================================================
