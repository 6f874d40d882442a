-------------------------------- MODULE Wire --------------------------------
(***************************************************************************)
(* The spans of an artifact that are announced and sent: a download with or *)
(* without a Range header (src/src/server/http.rs) and a chunk of the       *)
(* artifact_read tool (src/src/transport/raw_response.rs).                  *)
(***************************************************************************)
EXTENDS Integers

Lesser(a, b) == IF a < b THEN a ELSE b

\* A Range header: [given, unit, comma, from, to]; a bound is a number, left out, or
\* none that parses.
Blank == -1
Bad == -2
NotSatisfiable == [start |-> 1, end |-> 0]

\* Mutant: the last byte is taken to be the size.
ParseRangePastEnd(range, size) ==
  CASE ~range.unit \/ range.comma \/ size = 0 -> NotSatisfiable
    [] range.from = Blank ->
         IF range.to \in {Blank, Bad, 0} THEN NotSatisfiable
         ELSE [start |-> size - Lesser(range.to, size), end |-> size - 1]
    [] range.from = Bad \/ range.to = Bad -> NotSatisfiable
    [] OTHER ->
         LET end == IF range.to = Blank THEN size ELSE Lesser(range.to, size)
         IN  IF range.from < size /\ range.from <= end THEN [start |-> range.from, end |-> end]
             ELSE NotSatisfiable

ParseRange(range, size) ==
  CASE ~range.unit \/ range.comma \/ size = 0 -> NotSatisfiable
    [] range.from = Blank ->
         IF range.to \in {Blank, Bad, 0} THEN NotSatisfiable
         ELSE [start |-> size - Lesser(range.to, size), end |-> size - 1]
    [] range.from = Bad \/ range.to = Bad -> NotSatisfiable
    [] OTHER ->
         LET end == IF range.to = Blank THEN size - 1 ELSE Lesser(range.to, size - 1)
         IN  IF range.from < size /\ range.from <= end THEN [start |-> range.from, end |-> end]
             ELSE NotSatisfiable

\* download_artifact of a file of `size` bytes: the status, the span and the length
\* announced.  NoRange: no Range header, or an If-Range that names another etag.
NoRange == [unit |-> FALSE, comma |-> FALSE, from |-> Blank, to |-> Blank, given |-> FALSE]

Download(range, ifRangeMatches, size) ==
  LET effective == range.given /\ ifRangeMatches
      span == IF effective THEN ParseRange(range, size) ELSE [start |-> 0, end |-> size - 1]
  IN  IF effective /\ span = NotSatisfiable
      THEN [status |-> 416, start |-> 0, length |-> 0]
      ELSE [status |-> IF effective THEN 206 ELSE 200, start |-> span.start,
            length |-> span.end - span.start + 1]

\* read_artifact_chunk: where it reads, where the next one starts, whether that is the end.
Chunk(offset, most, size) ==
  LET from == Lesser(offset, size)
      next == from + Lesser(size - from, most)
  IN  [from |-> from, next |-> next, end |-> next >= size]

-----------------------------------------------------------------------------
(* The bytes a Range header asks for, of a file of `size` bytes (RFC 9110). *)
Asked(range, size) ==
  {b \in 0..size - 1 :
     /\ range.unit /\ ~range.comma /\ range.from # Bad /\ range.to # Bad
     /\ IF range.from = Blank THEN range.to # Blank /\ b >= size - range.to
        ELSE b >= range.from /\ (range.to # Blank => b <= range.to)}

(* A download sends exactly the bytes it announces and was asked for: the   *)
(* whole file, or the range, or nothing (download_artifact, parse_range).   *)
DownloadExact(range, ifRangeMatches, size) ==
  LET answer == Download(range, ifRangeMatches, size)
      sent == answer.start..answer.start + answer.length - 1
  IN  /\ answer.length >= 0 /\ sent \subseteq 0..size - 1
      /\ IF range.given /\ ifRangeMatches
         THEN sent = Asked(range, size) /\ (answer.status = 416 <=> Asked(range, size) = {})
         ELSE sent = 0..size - 1

(* Reading a file chunk by chunk, each from where the last one ended, gives *)
(* every byte once, and the end is announced with the last one              *)
(* (read_artifact_chunk).                                                   *)
ChunkExact(offset, most, size) ==
  LET chunk == Chunk(offset, most, size)
  IN  /\ chunk.from <= chunk.next /\ chunk.next <= size /\ chunk.next - chunk.from <= most
      /\ offset <= size => chunk.from = offset
      /\ chunk.end <=> chunk.next = size
      /\ most > 0 /\ ~chunk.end => chunk.next > chunk.from
=============================================================================
