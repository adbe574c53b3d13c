------------------------------ MODULE Chunking ------------------------------
(***************************************************************************)
(* How a document's blocks (sections, entries, paragraphs) are packed into *)
(* chunks for retrieval.  A block is its length in characters; a piece of  *)
(* it is the characters from .. to.  Pure functions.                       *)
(***************************************************************************)
EXTENDS Integers, SequencesExt

CONSTANTS ChunkSize, Overlap,     \* chunk_size, overlap
          Separator,              \* length of the blank line between two blocks
          MaxBlocks, MaxLength    \* bounds: blocks of a document, and their lengths

Documents == UNION {[1 .. n -> 1 .. MaxLength] : n \in 0 .. MaxBlocks}

Piece(b, from, to) == [block |-> b, from |-> from, to |-> to]

Length(chunk) ==
  FoldLeft(LAMBDA n, p : n + p.to - p.from + 1, 0, chunk)
    + (IF chunk = <<>> THEN 0 ELSE Separator * (Len(chunk) - 1))

\* _split_oversized.
SplitOversized(b, length) ==
  LET split[start \in 0 .. length] ==
        IF start + ChunkSize >= length THEN << <<Piece(b, start + 1, length)>> >>
        ELSE << <<Piece(b, start + 1, start + ChunkSize)>> >> \o split[start + ChunkSize - Overlap]
  IN  split[0]

\* The chunk under construction is done.
Flushed(s) == IF s.current = <<>> THEN s.chunks ELSE Append(s.chunks, s.current)

\* Whether a block still fits.
Fits(current, piece) == Length(Append(current, piece)) <= ChunkSize

\* One block of chunk_text's loop.
Pack(s, b, length) ==
  IF length > ChunkSize THEN [chunks |-> Flushed(s) \o SplitOversized(b, length), current |-> <<>>]
  ELSE IF Fits(s.current, Piece(b, 1, length)) THEN [s EXCEPT !.current = Append(@, Piece(b, 1, length))]
  ELSE [chunks |-> Flushed(s), current |-> <<Piece(b, 1, length)>>]

ChunkText(doc) ==
  Flushed(FoldLeftDomain(LAMBDA s, b : Pack(s, b, doc[b]), [chunks |-> <<>>, current |-> <<>>], doc))

-----------------------------------------------------------------------------
\* No chunk is longer than what the embedding is meant for (chunk_size).
ChunksFit == \A doc \in Documents : \A c \in ToSet(ChunkText(doc)) : Length(c) <= ChunkSize

\* Every character of a document is in a chunk, in order, a block that fits whole is
\* never cut, and what is cut overlaps (chunk_text: "a block is only ever cut when it
\* exceeds chunk_size on its own").
NothingLost ==
  \A doc \in Documents :
    LET pieces == FlattenSeq(ChunkText(doc)) IN
    /\ \A b \in DOMAIN doc :
         /\ \A n \in 1 .. doc[b] : \E p \in ToSet(pieces) : p.block = b /\ n \in p.from .. p.to
         /\ doc[b] <= ChunkSize => Piece(b, 1, doc[b]) \in ToSet(pieces)
    /\ \A k \in 1 .. Len(pieces) - 1 :
         \/ pieces[k].block < pieces[k + 1].block
         \/ pieces[k].block = pieces[k + 1].block /\ pieces[k + 1].from = pieces[k].to - Overlap + 1
=============================================================================
