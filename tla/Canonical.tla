----------------------------- MODULE Canonical -----------------------------
(***************************************************************************)
(* The canonical form of an outbound request (policy/canonical.rs): the    *)
(* form the policy engine evaluates and the transport sends.               *)
(*                                                                         *)
(* A path is a sequence of symbols, one per byte or percent-escape: only   *)
(* what the canonicalizer tells apart is kept.  "a" stands for any         *)
(* unreserved byte but the dot, "!" for a reserved pchar, " " for a byte   *)
(* that must be escaped, "ctl" for a control byte, "%" for a percent sign  *)
(* without two hex digits; an escape is written with the byte it encodes,  *)
(* "high" for one that is not UTF-8 where it stands.                       *)
(***************************************************************************)
EXTENDS Naturals, Sequences, SequencesExt

Escape(byte) == <<"esc", byte>>
Literal(byte) == <<"lit", byte>>

IsUnreserved(byte) == byte \in {"a", "b", "."}
IsPchar(byte) == IsUnreserved(byte) \/ byte = "!"

Slash == Literal("/")
Dot == Literal(".")

Malformed(symbol) == symbol = Literal("%")
Control(symbol) == symbol = Literal("ctl")

\* The first symbol that has no canonical form decides the refusal.
RefusedBecause(symbols) ==
  LET bad == {i \in DOMAIN symbols : Malformed(symbols[i]) \/ Control(symbols[i])}
  IN IF bad = {} THEN "none"
     ELSE IF Malformed(symbols[CHOOSE i \in bad : \A j \in bad : i <= j])
          THEN "invalid_percent_encoding" ELSE "control_character"

----------------------------------------------------------------------------
(* canonical_path: one pass that decodes, re-encodes and resolves segments *)
(* as they close.  out ends at the start of the open segment plus what the *)
(* segment holds so far.                                                   *)

Emit(symbol) ==
  IF symbol[1] = "esc"
  THEN IF IsUnreserved(symbol[2]) THEN Literal(symbol[2]) ELSE symbol
  ELSE IF IsPchar(symbol[2]) THEN symbol ELSE Escape(symbol[2])

OpenSegment(st) == SubSeq(st.out, st.start, Len(st.out))

\* Where the segment before the trailing slash begins.
PreviousStart(out) ==
  1 + CHOOSE i \in 1..(Len(out) - 1) :
        /\ out[i] = Slash
        /\ \A j \in (i + 1)..(Len(out) - 1) : out[j] # Slash

At(out) == [out |-> out, start |-> Len(out) + 1]

\* A resolution that takes ".." for a name.
CloseKeepingParents(st) ==
  LET before == SubSeq(st.out, 1, st.start - 1)
  IN CASE OpenSegment(st) \in {<<>>, <<Dot>>} -> At(before)
       [] OTHER -> At(Append(st.out, Slash))

CloseSegment(st) ==
  LET before == SubSeq(st.out, 1, st.start - 1)
  IN CASE OpenSegment(st) \in {<<>>, <<Dot>>} -> At(before)
       [] OpenSegment(st) = <<Dot, Dot>> ->
            IF Len(before) > 1
            THEN At(SubSeq(before, 1, PreviousStart(before) - 1))
            ELSE At(before)
       [] OTHER -> At(Append(st.out, Slash))

ReadSymbol(st, symbol) ==
  IF symbol = Slash
  THEN CloseSegment(st)
  ELSE [st EXCEPT !.out = Append(@, Emit(symbol))]

CanonicalPath(symbols) ==
  LET st == FoldLeft(ReadSymbol, At(<<Slash>>), symbols)
      lastIsReal == OpenSegment(st) \notin {<<>>, <<Dot>>, <<Dot, Dot>>}
      closed == CloseSegment(st).out
  IN IF lastIsReal THEN Front(closed) ELSE closed

----------------------------------------------------------------------------
(* canonical_query: pairs decoded once and sorted by key, stably; the      *)
(* first component that does not decode is the refusal.                    *)

DecodeRefused(symbols) ==
  IF RefusedBecause(symbols) # "none" THEN RefusedBecause(symbols)
  ELSE IF \E i \in DOMAIN symbols : symbols[i] = Escape("high") THEN "invalid_utf8" ELSE "none"

DecodeComponent(symbols) ==
  [i \in DOMAIN symbols |->
     IF symbols[i] = Literal("+") THEN " " ELSE symbols[i][2]]

\* url::form_urlencoded on the way out.
EncodeComponent(bytes) ==
  [i \in DOMAIN bytes |->
     CASE bytes[i] = " "          -> Literal("+")
       [] IsUnreserved(bytes[i])  -> Literal(bytes[i])
       [] OTHER                   -> Escape(bytes[i])]

\* An empty pair (a doubled ampersand) is skipped; keys are compared as the
\* byte strings they decode to.
ByteRank(byte) == CASE byte = " " -> 1 [] byte = "+" -> 2 [] byte = "." -> 3
                    [] byte = "a" -> 4 [] OTHER -> 5

KeyLess(k, l) ==
  \E i \in 1..(Len(k) + 1) :
    /\ \A j \in 1..(i - 1) : j <= Len(l) /\ k[j] = l[j]
    /\ \/ i = Len(k) + 1 /\ i <= Len(l)
       \/ i <= Len(k) /\ i <= Len(l) /\ ByteRank(k[i]) < ByteRank(l[i])

InsertByKey(pairs, pair) ==
  LET after == SelectSeq(pairs, LAMBDA p : KeyLess(pair.key, p.key))
      upTo == SelectSeq(pairs, LAMBDA p : ~KeyLess(pair.key, p.key))
  IN Append(upTo, pair) \o after

DecodedPairs(pairs) ==
  [i \in DOMAIN pairs |-> [key   |-> DecodeComponent(pairs[i].key),
                           value |-> DecodeComponent(pairs[i].value)]]

QueryRefused(pairs) ==
  LET asked == FlattenSeq([i \in DOMAIN pairs |-> <<DecodeRefused(pairs[i].key), DecodeRefused(pairs[i].value)>>])
      refused == SelectSeq(asked, LAMBDA why : why # "none")
  IN IF refused = <<>> THEN "none" ELSE Head(refused)

CanonicalQuery(pairs) ==
  IF QueryRefused(pairs) # "none" THEN QueryRefused(pairs)
  ELSE FoldLeft(InsertByKey, <<>>, DecodedPairs(pairs))

UrlQuery(pairs) ==
  [i \in DOMAIN pairs |-> [key   |-> EncodeComponent(pairs[i].key),
                           value |-> EncodeComponent(pairs[i].value)]]

----------------------------------------------------------------------------
(* What the form should be, segment by segment (RFC 3986, 5.2.4 and 6.2.2).*)

Segments(symbols) ==
  LET cuts == {0, Len(symbols) + 1} \cup {i \in DOMAIN symbols : symbols[i] = Slash}
      bounds == SetToSortSeq(cuts, <)
  IN [k \in 1..(Len(bounds) - 1) |->
        [i \in 1..(bounds[k + 1] - bounds[k] - 1) |-> Emit(symbols[bounds[k] + i])]]

Resolve(stack, segment) ==
  CASE segment \in {<<>>, <<Dot>>} -> stack
    [] segment = <<Dot, Dot>> -> IF stack = <<>> THEN stack ELSE Front(stack)
    [] OTHER -> Append(stack, segment)

ReferencePath(symbols) ==
  LET segments == Segments(symbols)
      kept == FoldLeft(Resolve, <<>>, segments)
      open == Last(segments) \in {<<>>, <<Dot>>, <<Dot, Dot>>}
      body == FoldLeft(LAMBDA acc, s : acc \o <<Slash>> \o s, <<>>, kept)
  IN IF kept = <<>> THEN <<Slash>> ELSE IF open THEN Append(body, Slash) ELSE body

\* Sorted by key; of two pairs with one key the first stays first.
StablySorted(pairs, sorted) ==
  /\ \A i, j \in DOMAIN sorted : i < j => ~KeyLess(sorted[j].key, sorted[i].key)
  /\ \A key \in {pairs[i].key : i \in DOMAIN pairs} \cup {sorted[i].key : i \in DOMAIN sorted} :
       SelectSeq(sorted, LAMBDA p : p.key = key)
         = SelectSeq(pairs, LAMBDA p : p.key = key)

\* The one-pass canonicalizer computes the segment-by-segment form, the wire
\* form is its own canonical form, and the query is a stable sort of the
\* decoded pairs that is sent without a refusal and survives the trip.
CanonicalPathOk(symbols) ==
  RefusedBecause(symbols) = "none" =>
    /\ CanonicalPath(symbols) = ReferencePath(symbols)
    /\ CanonicalPath(CanonicalPath(symbols)) = CanonicalPath(symbols)

CanonicalQueryOk(pairs) ==
  QueryRefused(pairs) = "none" =>
    /\ QueryRefused(UrlQuery(CanonicalQuery(pairs))) = "none"
    /\ StablySorted(DecodedPairs(pairs), CanonicalQuery(pairs))
    /\ CanonicalQuery(UrlQuery(CanonicalQuery(pairs))) = CanonicalQuery(pairs)

=============================================================================
