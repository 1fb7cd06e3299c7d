----------------------------- MODULE RequestTarget -----------------------------
(***************************************************************************)
(* parse.rs, and client_addr and joined_headers of runtime.rs, as          *)
(* functions: what request_from_parts makes of the target of a request and *)
(* of its X-Forwarded-For lines. Text is a sequence of characters, each    *)
(* its number; an octet over 127 becomes the character of that number, as  *)
(* in the code. A route template is the sequence of its segments: a literal *)
(* [kind, text], a parameter or the rest of the path [kind, name].         *)
(***************************************************************************)
EXTENDS Naturals, SequencesExt

Text == Seq(Nat)

Space     == 32
Percent   == 37
Ampersand == 38
Plus      == 43
Slash     == 47
Equals    == 61

HexValue ==
    [c \in 48..57 \cup 65..70 \cup 97..102 |->
        IF c < 58 THEN c - 48 ELSE IF c < 71 THEN c - 55 ELSE c - 87]

\* u8::from_str_radix takes a plus sign for the first of the two digits.
IsOctet(high, low) ==
    (high \in DOMAIN HexValue \/ high = Plus) /\ low \in DOMAIN HexValue
Octet(high, low) ==
    HexValue[low] + IF high = Plus THEN 0 ELSE 16 * HexValue[high]

\* Mutant: an escape at the end of the text is not seen.
EscapeFits_NotLast(s, i) == i + 2 < Len(s)

EscapeFits(s, i) == i + 2 <= Len(s)

urldecode[s \in Text] ==
    LET Escape(i) == s[i] = Percent /\ EscapeFits(s, i) /\ IsOctet(s[i + 1], s[i + 2])
        from[i \in 1..(Len(s) + 1)] ==
            IF i > Len(s) THEN <<>>
            ELSE IF Escape(i) THEN <<Octet(s[i + 1], s[i + 2])>> \o from[i + 3]
            ELSE <<IF s[i] = Plus THEN Space ELSE s[i]>> \o from[i + 1]
    IN  from[1]

-----------------------------------------------------------------------------
\* The pieces between the cs; upTo[n] those of the first n characters.
Split(s, c) ==
    LET upTo[n \in 0..Len(s)] ==
            IF n = 0 THEN <<<<>>>>
            ELSE LET pieces == upTo[n - 1]
                 IN  IF s[n] = c THEN Append(pieces, <<>>)
                     ELSE [pieces EXCEPT ![Len(pieces)] = Append(@, s[n])]
    IN  upTo[Len(s)]

Join(pieces, c) ==
    FlattenSeq([i \in DOMAIN pieces |-> (IF i = 1 THEN <<>> ELSE <<c>>) \o pieces[i]])

TrimSlashes(s) ==
    SubSeq(s, Min({i \in DOMAIN s : s[i] # Slash} \cup {Len(s) + 1}), Len(s))

\* Mutant: the path is decoded as a whole first.
Segments_Decoded(actual) == Split(TrimSlashes(urldecode[actual]), Slash)

Segments(actual) == Split(TrimSlashes(actual), Slash)

\* The template's segments are paired with the path's, up to a catch-all,
\* which takes what is left.
extract_path_params(template, actual) ==
    LET segments == Segments(actual)
        isRest(i)  == template[i].kind = "rest"
        isBound(i) == /\ \A j \in 1..(i - 1) : ~isRest(j)
                      /\ isRest(i) \/ (template[i].kind = "param" /\ i <= Len(segments))
        bound    == {i \in DOMAIN template : isBound(i)}
        lastOf(n) == Max({i \in bound : template[i].name = n})
        value(i) == IF isRest(i) THEN Join(SubSeq(segments, i, Len(segments)), Slash)
                    ELSE segments[i]
    IN  [n \in {template[i].name : i \in bound} |-> urldecode[value(lastOf(n))]]

\* The key of a pair ends at its first equals sign; without one it is all key.
KeyEnd(pair) == Min({i \in DOMAIN pair : pair[i] = Equals} \cup {Len(pair) + 1})

Key(pair)   == urldecode[SubSeq(pair, 1, KeyEnd(pair) - 1)]
Value(pair) == urldecode[SubSeq(pair, KeyEnd(pair) + 1, Len(pair))]

\* Of the pairs with one key the last counts.
parse_query(q) ==
    LET pairs == IF q = <<>> THEN <<>> ELSE Split(q, Ampersand)
        lastOf(k) == Max({i \in DOMAIN pairs : Key(pairs[i]) = k})
    IN  [k \in {Key(pairs[i]) : i \in DOMAIN pairs} |-> Value(pairs[lastOf(k)])]

-----------------------------------------------------------------------------
(* A header line is a sequence of trimmed entries, Blank among them, or is  *)
(* not visible ASCII.                                                       *)

Blank == "blank"

\* The entries of the header as req.headers has it.
joined_headers(lines) ==
    FlattenSeq([i \in DOMAIN lines |-> IF lines[i].visible THEN lines[i].entries ELSE <<>>])

\* Mutant: whoever connects may say whom it speaks for.
peer_is_trusted_always(peer, trusted) == TRUE

peer_is_trusted(peer, trusted) == peer \in trusted

client_addr(peer, trusted, lines) ==
    IF /\ peer_is_trusted(peer, trusted)
       /\ lines # <<>>
       /\ lines[1].visible
       /\ lines[1].entries[1] # Blank
    THEN lines[1].entries[1]
    ELSE peer
=============================================================================
