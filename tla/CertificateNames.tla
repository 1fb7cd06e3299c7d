--------------------------- MODULE CertificateNames ---------------------------
(***************************************************************************)
(* x509.rs as functions: the walk over the octets of a DER certificate and *)
(* the text of its names. Octets are numbers, and so is a text here: the   *)
(* octets of its UTF-8. Values of alternative names are kept as octets:    *)
(* how an address is written is the standard library's.                    *)
(***************************************************************************)
EXTENDS RequestTarget

BOOLEAN_TAG       == 1
INTEGER           == 2
OCTET_STRING      == 4
OBJECT_IDENTIFIER == 6
SEQUENCE          == 48
SET               == 49
VERSION           == 160
EXTENSIONS        == 163
SUBJECT_ALT_NAME  == <<85, 29, 17>>

\* The code's None. What is there has ok |-> TRUE.
Broken == [ok |-> FALSE]

Octets == Seq(0..255)

-----------------------------------------------------------------------------
(* Elements.                                                                *)

\* Mutant: the octets of a long length are folded the wrong way round.
LengthOf_Reversed(octets) == FoldRight(LAMBDA o, n : n * 256 + o, octets, 0)

\* Bound: lengths below 2^31.
LengthOf(octets) ==
    LET upTo[n \in 0..Len(octets)] ==
            IF n = 0 THEN 0 ELSE upTo[n - 1] * 256 + octets[n]
    IN  upTo[Len(octets)]

\* The element at the front of the input.
element[input \in Octets] ==
    LET isLong == input[2] >= 128
        start  == IF isLong THEN 2 + (input[2] % 128) ELSE 2
        length == IF isLong THEN LengthOf(SubSeq(input, 3, start)) ELSE input[2]
    IN  IF \/ Len(input) < 2
           \/ input[1] % 32 = 31
           \/ isLong /\ (start \notin 3..6 \/ Len(input) < start)
           \/ Len(input) - start < length
        THEN Broken
        ELSE [ok |-> TRUE, tag |-> input[1],
              content |-> SubSeq(input, start + 1, start + length),
              rest |-> SubSeq(input, start + length + 1, Len(input))]

Tagged(e, tag) == IF e.ok /\ e.tag = tag THEN e ELSE Broken

expect(input, tag) == Tagged(element[input], tag)

\* The elements of an input that is read to its end, or to where it breaks.
elements[input \in Octets] ==
    IF input = <<>> THEN <<>>
    ELSE LET first == element[input]
         IN  IF first.ok THEN <<first>> \o elements[first.rest] ELSE <<Broken>>

AllRead(items) == \A i \in DOMAIN items : items[i].ok

Items(items) == IF AllRead(items) THEN [ok |-> TRUE, items |-> items] ELSE Broken

\* Each of them must have the tag, and be read in turn.
Each(input, tag, read) ==
    LET found == elements[input]
    IN  IF AllRead(found) /\ \A i \in DOMAIN found : found[i].tag = tag
        THEN Items([i \in DOMAIN found |-> read[found[i].content]])
        ELSE Broken

\* What follows an optional field; a field that cannot be read stays, and
\* whatever is expected there does not read it either.
After(input, tag) ==
    IF input # <<>> /\ input[1] = tag /\ element[input].ok
    THEN element[input].rest ELSE input

-----------------------------------------------------------------------------
(* Text.                                                                    *)

Dot       == 46
Comma     == 44
Hash      == 35
Zero      == 48
Backslash == 92

StringTags == {12, 18, 19, 20, 22}
BMP_STRING == 30

IsText(tag) == tag \in StringTags \cup {BMP_STRING}

Utf8(c) ==
    IF c < 128 THEN <<c>>
    ELSE IF c < 2048 THEN <<192 + (c \div 64), 128 + (c % 64)>>
    ELSE <<224 + (c \div 4096), 128 + ((c \div 64) % 64), 128 + (c % 64)>>

\* The text of a string value; an odd octet at the end of UTF-16 is dropped.
\* Bound: strings are UTF-8, and UTF-16 has no surrogates.
Characters(tag, value) ==
    IF tag = BMP_STRING
    THEN FlattenSeq([i \in 1..(Len(value) \div 2) |->
                        Utf8(256 * value[2 * i - 1] + value[2 * i])])
    ELSE value

\* Mutant: the escape character itself is not escaped.
Special_NoBackslash == {34, Plus, Comma, 59, 60, 62}

\* Quotation mark, semicolon, less, greater and those with a name.
Special == {34, Plus, Comma, 59, 60, 62, Backslash}

escaped(text) ==
    LET at(i) ==
          CASE text[i] \in Special -> <<Backslash, text[i]>>
            [] text[i] \in {Hash, Space} /\ i = 1 -> <<Backslash, text[i]>>
            [] text[i] = Space /\ i = Len(text) -> <<Backslash, Space>>
            [] text[i] = 0 -> <<Backslash, Zero, Zero>>
            [] OTHER -> <<text[i]>>
    IN  FlattenSeq([i \in DOMAIN text |-> at(i)])

Hex(octets) ==
    LET digit(d) == IF d < 10 THEN Zero + d ELSE 87 + d
    IN  FlattenSeq([i \in DOMAIN octets |->
                        <<digit(octets[i] \div 16), digit(octets[i] % 16)>>])

attribute_value(tag, value) ==
    IF IsText(tag) THEN escaped(Characters(tag, value)) ELSE <<Hash>> \o Hex(value)

\* The numbers of an identifier, those of which it has the end.
\* Bound: they are below 2^31 for TLC, 2^63 for the proofs.
Arcs(identifier) ==
    LET read[n \in 0..Len(identifier)] ==
            IF n = 0 THEN [arcs |-> <<>>, arc |-> 0]
            ELSE LET arc == read[n - 1].arc * 128 + (identifier[n] % 128)
                 IN  IF identifier[n] >= 128
                     THEN [arcs |-> read[n - 1].arcs, arc |-> arc]
                     ELSE [arcs |-> Append(read[n - 1].arcs, arc), arc |-> 0]
    IN  read[Len(identifier)].arcs

decimal[n \in Nat] ==
    IF n < 10 THEN <<Zero + n>> ELSE Append(decimal[n \div 10], Zero + (n % 10))

\* The first number stands for two arcs.
dotted(identifier) ==
    LET arcs == Arcs(identifier)
        first == IF arcs[1] < 80 THEN arcs[1] \div 40 ELSE 2
        all == <<first, arcs[1] - first * 40>> \o Tail(arcs)
    IN  IF arcs = <<>> THEN <<>> ELSE Join([i \in DOMAIN all |-> decimal[all[i]]], Dot)

\* 2.5.4.x: CN, serialNumber, C, L, ST, STREET, O and OU; 0.9.2342.19200300.100.1.x:
\* DC and UID; and the emailAddress of PKCS #9.
attribute_type(identifier) ==
    CASE identifier = <<85, 4, 3>> -> <<67, 78>>
      [] identifier = <<85, 4, 5>> -> <<115, 101, 114, 105, 97, 108, 78, 117, 109, 98, 101, 114>>
      [] identifier = <<85, 4, 6>> -> <<67>>
      [] identifier = <<85, 4, 7>> -> <<76>>
      [] identifier = <<85, 4, 8>> -> <<83, 84>>
      [] identifier = <<85, 4, 9>> -> <<83, 84, 82, 69, 69, 84>>
      [] identifier = <<85, 4, 10>> -> <<79>>
      [] identifier = <<85, 4, 11>> -> <<79, 85>>
      [] identifier = <<9, 146, 38, 137, 147, 242, 44, 100, 1, 25>> -> <<68, 67>>
      [] identifier = <<9, 146, 38, 137, 147, 242, 44, 100, 1, 1>> -> <<85, 73, 68>>
      [] identifier = <<42, 134, 72, 134, 247, 13, 1, 9, 1>> ->
            <<101, 109, 97, 105, 108, 65, 100, 100, 114, 101, 115, 115>>
      [] OTHER -> dotted(identifier)

\* RFC 4514 puts the last, most specific, part first.
InOrder(rdns) == Reverse(rdns)

AttributeText(a) ==
    attribute_type(a.type) \o (<<Equals>> \o attribute_value(a.tag, a.value))

PartText(rdn) == Join([j \in DOMAIN rdn |-> AttributeText(rdn[j])], Plus)

\* A name is a sequence of parts, each a sequence of attributes.
NameText(rdns) == Join([i \in DOMAIN rdns |-> PartText(rdns[i])], Comma)

-----------------------------------------------------------------------------
(* The certificate.                                                         *)

Attribute[input \in Octets] ==
    LET identifier == expect(input, OBJECT_IDENTIFIER)
        value == element[identifier.rest]
    IN  IF identifier.ok /\ value.ok
        THEN [ok |-> TRUE, type |-> identifier.content,
              tag |-> value.tag, value |-> value.content]
        ELSE Broken

Attributes[input \in Octets] == Each(input, SEQUENCE, Attribute)

Named(rdns) ==
    IF rdns.ok
    THEN [ok |-> TRUE,
          text |-> NameText(InOrder([i \in DOMAIN rdns.items |-> rdns.items[i].items]))]
    ELSE Broken

distinguished_name[input \in Octets] == Named(Each(input, SET, Attributes))

\* Addresses, names and URIs; an address must have the length of one.
IsKept(tag, octets) ==
    tag \in {129, 130, 134} \/ (tag = 135 /\ Len(octets) \in {4, 16})

Kinds(found) ==
    LET kind(e) == IF IsKept(e.tag, e.content) THEN <<<<e.tag, e.content>>>> ELSE <<>>
    IN  [ok |-> TRUE, names |-> FlattenSeq([i \in DOMAIN found |-> kind(found[i])])]

general_names(input) ==
    LET sequence == expect(input, SEQUENCE)
        found == elements[sequence.content]
    IN  IF sequence.ok /\ AllRead(found) THEN Kinds(found) ELSE Broken

\* The alternative names an extension has, one list or none.
AltNames(found) == IF found.ok THEN [ok |-> TRUE, lists |-> <<found.names>>] ELSE Broken

Extension[input \in Octets] ==
    LET identifier == expect(input, OBJECT_IDENTIFIER)
        value == expect(After(identifier.rest, BOOLEAN_TAG), OCTET_STRING)
    IN  IF ~identifier.ok \/ ~value.ok THEN Broken
        ELSE IF identifier.content # SUBJECT_ALT_NAME THEN [ok |-> TRUE, lists |-> <<>>]
        ELSE AltNames(general_names(value.content))

\* What follows the key of a certificate: unique identifiers, which say
\* nothing here, and the extensions.
Lists(read) ==
    IF read.ok
    THEN [ok |-> TRUE,
          lists |-> FlattenSeq([i \in DOMAIN read.items |-> read.items[i].lists])]
    ELSE Broken

Trailer(field) ==
    LET wrapper == expect(field.content, SEQUENCE)
    IN  IF field.tag # EXTENSIONS THEN [ok |-> TRUE, lists |-> <<>>]
        ELSE IF wrapper.ok THEN Lists(Each(wrapper.content, SEQUENCE, Extension))
        ELSE Broken

\* The last list of alternative names counts.
Names(issuer, subject, trailers) ==
    LET lists == FlattenSeq([i \in DOMAIN trailers |-> trailers[i].lists])
    IN  IF issuer.ok /\ subject.ok /\ AllRead(trailers)
        THEN [ok |-> TRUE, issuer |-> issuer.text, subject |-> subject.text,
              subject_alt_names |-> IF lists = <<>> THEN <<>> ELSE Last(lists)]
        ELSE Broken

\* serialNumber, signature, issuer, validity, subject, subjectPublicKeyInfo.
Fields == <<INTEGER, SEQUENCE, SEQUENCE, SEQUENCE, SEQUENCE, SEQUENCE>>

FieldNames(field) ==
    IF /\ AllRead(field)
       /\ Len(field) >= 6
       /\ \A i \in 1..6 : field[i].tag = Fields[i]
    THEN Names(distinguished_name[field[3].content], distinguished_name[field[5].content],
               [i \in 1..(Len(field) - 6) |-> Trailer(field[i + 6])])
    ELSE Broken

names[der \in Octets] ==
    LET certificate == expect(der, SEQUENCE)
        tbs == expect(certificate.content, SEQUENCE)
    IN  IF certificate.ok /\ tbs.ok
        THEN FieldNames(elements[After(tbs.content, VERSION)]) ELSE Broken
=============================================================================
