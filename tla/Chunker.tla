------------------------------ MODULE Chunker ------------------------------
(***************************************************************************)
(* How a source file is cut into chunks (search/chunker.rs), step by step: *)
(* one declaration of the tree, or one region between two split points, at *)
(* a time.  A source is a record: size (in bytes), ends (of the top-level  *)
(* declarations, or of the sections of a Markdown file, in the order of    *)
(* the tree), blank and newlines (the bytes that are white space, and line *)
(* feeds).  Bytes are counted from 0.  A chunk is a record of its first    *)
(* byte, the byte after its last, and its lines.                           *)
(***************************************************************************)
EXTENDS Integers, Sequences, FiniteSets, SequencesExt

CONSTANTS
    MaxChars,   \* MAX_CHARS
    Sources

(* The declarations of a tree lie one behind the other.                    *)
ASSUME SourcesAssumption ==
    /\ MaxChars \in Nat
    /\ \A s \in Sources :
        /\ s.size \in Nat /\ s.ends \in Seq(Nat)
        /\ \A i, k \in DOMAIN s.ends : i < k => s.ends[i] <= s.ends[k]
        /\ s.newlines \subseteq Nat /\ IsFiniteSet(s.newlines)

VARIABLES
    source,
    stage,     \* "split", "pack" or "done"
    scanned,   \* how many of the ends have been looked at
    points,    \* the split points
    packed,    \* how many of the regions between them are packed
    piece,     \* the bytes packed last, which may still grow
    pushed     \* the chunks

chunkVars == <<source, stage, scanned, points, packed, piece, pushed>>

Blank(start, end) == start..end - 1 \subseteq source.blank

(* chunk_source: of a blank source there is no chunk.                      *)
ChunkInit(sources) ==
    /\ source \in sources
    /\ stage = IF Blank(0, source.size) THEN "done" ELSE "split"
    /\ scanned = 0 /\ points = <<0>>
    /\ packed = 0 /\ piece = [start |-> 0, end |-> 0] /\ pushed = <<>>

(* A declaration that ends no later than one before it, or after the end   *)
(* of the source, is no place to split.                                    *)
SplitAfter ==
    /\ stage = "split" /\ scanned < Len(source.ends)
    /\ LET end == source.ends[scanned + 1]
       IN  points' = IF end > Last(points) /\ end <= source.size THEN Append(points, end) ELSE points
    /\ scanned' = scanned + 1
    /\ UNCHANGED <<source, stage, packed, piece, pushed>>

SplitAtEnd ==
    /\ stage = "split" /\ scanned = Len(source.ends)
    /\ points' = IF Last(points) < source.size THEN Append(points, source.size) ELSE points
    /\ stage' = "pack"
    /\ UNCHANGED <<source, scanned, packed, piece, pushed>>

LineOf(s, byte) == Cardinality({n \in s.newlines : n < byte}) + 1

(* push_chunk: a chunk of white space is dropped.                          *)
PushChunk ==
    IF Blank(piece.start, piece.end) THEN pushed
    ELSE Append(pushed, [start |-> piece.start, end |-> piece.end,
                         startLine |-> LineOf(source, piece.start),
                         endLine |-> LineOf(source, piece.end - 1)])

(* Mutant: what is packed already is compared, not what it would become.   *)
Fits_Before(region) == piece.end - piece.start <= MaxChars

Fits(region) == piece.end - piece.start + region.end - region.start <= MaxChars

(* Regions are packed from the first on; an empty piece is the first one.  *)
PackRegion ==
    /\ stage = "pack" /\ packed + 1 < Len(points)
    /\ LET region == [start |-> points[packed + 1], end |-> points[packed + 2]]
           empty  == piece.end = piece.start
       IN  IF ~empty /\ Fits(region)
           THEN piece' = [piece EXCEPT !.end = region.end] /\ UNCHANGED pushed
           ELSE piece' = region /\ pushed' = IF empty THEN pushed ELSE PushChunk
    /\ packed' = packed + 1
    /\ UNCHANGED <<source, stage, scanned, points>>

PushLast ==
    /\ stage = "pack" /\ packed + 1 = Len(points)
    /\ pushed' = IF piece.end > piece.start THEN PushChunk ELSE pushed
    /\ stage' = "done"
    /\ UNCHANGED <<source, scanned, points, packed, piece>>

ChunkNext == SplitAfter \/ SplitAtEnd \/ PackRegion \/ PushLast

ChunkSpec == ChunkInit(Sources) /\ [][ChunkNext]_chunkVars

-----------------------------------------------------------------------------
(* Where a chunk could be cut in two, by the declarations alone.           *)
Cuts == {e \in Range(source.ends) : e < source.size}

(* search/chunker.rs: every byte that is no white space is in exactly one  *)
(* chunk; chunks come in order and are cut where declarations end; only a  *)
(* chunk that cannot be cut is over the limit; no chunk has room for what  *)
(* the next begins with; and the lines of a chunk are those of its bytes.  *)
ChunksCover ==
    stage = "done" =>
        /\ \A b \in 0..source.size - 1 \ source.blank :
            \E i \in DOMAIN pushed : pushed[i].start <= b /\ b < pushed[i].end
        /\ \A i, k \in DOMAIN pushed : i < k => pushed[i].end <= pushed[k].start
        /\ \A i \in DOMAIN pushed :
            LET c == pushed[i]
            IN  /\ {c.start, c.end} \subseteq Cuts \cup {0, source.size} /\ c.start < c.end
                /\ c.end - c.start > MaxChars => Cuts \cap (c.start + 1)..(c.end - 1) = {}
                /\ c.endLine - c.startLine = Cardinality(source.newlines \cap c.start..(c.end - 2))
                /\ c.startLine = Cardinality(source.newlines \cap 0..(c.start - 1)) + 1
        /\ \A i \in DOMAIN pushed \ {1} :
            LET before == pushed[i - 1]
                next   == pushed[i]
            IN  next.start = before.end =>
                    \A e \in Cuts \cup {source.size} :
                        e > next.start => e - before.start > MaxChars
=============================================================================
