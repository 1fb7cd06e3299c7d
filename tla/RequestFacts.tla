----------------------------- MODULE RequestFacts -----------------------------
(***************************************************************************)
(* What a script reads off a request, against what the other end meant by  *)
(* it: an issuer encodes a certificate and the handshake reads its names   *)
(* (TlsSession::from_connection); a client writes parameters into a target *)
(* as RFC 3986 lets it, and request_from_parts reads them.                 *)
(***************************************************************************)
EXTENDS CertificateNames

CONSTANTS
    Exchanges,  \* <<request, certificate>>: what the other end may mean
    Subjects,   \* what an issuer may call a subject
    Addresses   \* what a proxy may write in X-Forwarded-For

\* What a script can be meant to read is ASCII.
Texts == Seq(0..127)

\* A route as matchit takes it: no piece is empty, names differ, a catch-all
\* ends it. Parameters are not empty either; those of a catch-all at the top
\* of the path do not begin with a slash. Bound: a piece is a parameter or has
\* none; of one with both, as user_{name}, extract_path_params reads nothing.
IsTarget(route, params) ==
    LET named == {i \in DOMAIN route : route[i].kind # "literal"}
    IN  /\ route \in Seq([kind : {"literal"}, text : Seq(Nat \ {Slash}) \ {<<>>}]
                          \cup [kind : {"param", "rest"}, name : DOMAIN params])
        /\ \A i \in DOMAIN route : route[i].kind = "rest" => i = Len(route)
        /\ \A i, j \in named : route[i].name = route[j].name => i = j
        /\ params \in [{route[i].name : i \in named} -> Texts \ {<<>>}]
        /\ route # <<>> /\ route[1].kind = "rest" => params[route[1].name][1] # Slash

Lines == [visible : BOOLEAN, entries : Seq(Addresses \cup {Blank}) \ {<<>>}]

VARIABLES
    meant,      \* the request: [route, params, pairs, peer, trusted, lines]
    cert,       \* the client's certificate: [v1, issuer, subject, keyLength,
                \* uniqueID, extensions], a name being a sequence of sequences
                \* of [type, tag, value], an extension [type, critical, names]
    peerNames,  \* its names, once the handshake is over
    sent,       \* the target as it was sent
    facts       \* what the script is given

vars == <<meant, cert, peerNames, sent, facts>>

NotYet == [pending |-> TRUE]

Init ==
    /\ \E x \in Exchanges : meant = x[1] /\ cert = x[2]
    /\ peerNames = NotYet
    /\ sent = NotYet
    /\ facts = NotYet

-----------------------------------------------------------------------------
(* The issuer (X.690).                                                      *)

\* A certificate is shorter in TLS.
LengthLimit == 16777216

LengthOctets(n) ==
    IF n < 128 THEN <<n>>
    ELSE IF n < 256 THEN <<129, n>>
    ELSE IF n < 65536 THEN <<130, n \div 256, n % 256>>
    ELSE <<131, (n \div 65536) % 256, (n \div 256) % 256, n % 256>>

Encoded(tag, content) ==
    <<tag>> \o LengthOctets(Len(content)) \o content

InTurn(values, what(_)) == FlattenSeq([i \in DOMAIN values |-> what(values[i])])

EncodedName(rdns) ==
    LET attribute(a) ==
          Encoded(SEQUENCE, Encoded(OBJECT_IDENTIFIER, a.type) \o Encoded(a.tag, a.value))
        rdn(attributes) == Encoded(SET, InTurn(attributes, attribute))
    IN  Encoded(SEQUENCE, InTurn(rdns, rdn))

EncodedExtension(x) ==
    LET general(g) == Encoded(g.tag, g.octets)
        value == IF x.type = SUBJECT_ALT_NAME
                 THEN Encoded(SEQUENCE, InTurn(x.names, general)) ELSE <<0, 0>>
    IN  Encoded(SEQUENCE,
            Encoded(OBJECT_IDENTIFIER, x.type)
            \o (IF x.critical THEN Encoded(BOOLEAN_TAG, <<255>>) ELSE <<>>)
            \o Encoded(OCTET_STRING, value))

\* Version, serial number, signature, validity and key are what they are; the
\* signature of the whole, which follows the names, is left out.
EncodedCertificate(c) ==
    Encoded(SEQUENCE, Encoded(SEQUENCE,
        (IF c.v1 THEN <<>> ELSE Encoded(VERSION, Encoded(INTEGER, <<2>>)))
        \o Encoded(INTEGER, <<1>>) \o Encoded(SEQUENCE, <<>>)
        \o EncodedName(c.issuer) \o Encoded(SEQUENCE, <<>>) \o EncodedName(c.subject)
        \o Encoded(SEQUENCE, [i \in 1..c.keyLength |-> 0])
        \o (IF c.uniqueID THEN Encoded(129, <<0, 1>>) ELSE <<>>)
        \o (IF c.extensions = <<>> THEN <<>>
            ELSE Encoded(EXTENSIONS,
                    Encoded(SEQUENCE, InTurn(c.extensions, EncodedExtension))))))

\* A tag has one octet.
Tags == {t \in 0..255 : t % 32 # 31}

IsCertificate(c) ==
    LET distinguished == Seq(Seq([type : Octets, tag : Tags, value : Octets]))
        general == Seq([tag : Tags, octets : Octets])
    IN  /\ c \in [v1 : BOOLEAN, issuer : distinguished, subject : distinguished,
                  keyLength : Nat, uniqueID : BOOLEAN,
                  extensions : Seq([type : Octets, critical : BOOLEAN, names : general])]
        /\ Len(EncodedCertificate(c)) < LengthLimit

ASSUME ExchangesAssumption ==
    \A x \in Exchanges :
        /\ IsTarget(x[1].route, x[1].params)
        /\ x[1].pairs \in Seq(Texts \X Texts)
        /\ x[1].lines \in Seq(Lines)
        /\ IsCertificate(x[2])

\* An object identifier (X.690 8.19): it ends, no number in it begins with
\* zeros, and none takes more than nine octets, 63 bits.
Identifiers ==
    {t \in Octets \ {<<>>} : \A i \in DOMAIN t :
        /\ \E j \in i..(i + 8) : j \in DOMAIN t /\ t[j] < 128
        /\ t[i] = 128 => i > 1 /\ t[i - 1] >= 128}

\* A name has parts, none of them empty (X.501).
DistinguishedNames ==
    Seq(Seq([type : Identifiers, tag : Tags, value : Octets]) \ {<<>>})

ASSUME SubjectsAssumption == Subjects \subseteq DistinguishedNames

-----------------------------------------------------------------------------
(* The client (RFC 3986). Any character may be escaped; those that mean      *)
(* something where they stand must be, a plus sign in a path included.       *)

Escaped(c) ==
    LET digit(d, a) == IF d < 10 THEN 48 + d ELSE a + d - 10
    IN  {<<Percent, digit(c \div 16, a), digit(c % 16, a)>> : a \in {65, 97}}

As(c, literal) == IF c \in literal THEN {<<c>>} ELSE {}

InPath(c)  == Escaped(c) \cup As(c, 0..127 \ {Space, Percent, Plus, Slash})
InRest(c)  == InPath(c) \cup As(c, {Slash})
InKey(c)   == Escaped(c) \cup As(c, 0..127 \ {Space, Percent, Plus, Ampersand, Equals})
                         \cup IF c = Space THEN {<<Plus>>} ELSE {}
InValue(c) == InKey(c) \cup As(c, {Equals})

OneOfEach[sets \in Seq(SUBSET Text)] ==
    IF sets = <<>> THEN {<<>>}
    ELSE {Append(w, x) : w \in OneOfEach[Front(sets)], x \in Last(sets)}

\* The ways to write a text whose characters may be written Ways.
Written(text, Ways(_)) ==
    {FlattenSeq(w) : w \in OneOfEach[[i \in DOMAIN text |-> Ways(text[i])]]}

Paths(route, params) ==
    LET segment(t) == CASE t.kind = "literal" -> {t.text}
                        [] t.kind = "param" -> Written(params[t.name], InPath)
                        [] t.kind = "rest" -> Written(params[t.name], InRest)
    IN  {<<Slash>> \o Join(w, Slash) :
            w \in OneOfEach[[i \in DOMAIN route |-> segment(route[i])]]}

\* A pair without a value may leave out the equals sign.
QueryTexts(pairs) ==
    LET written(pair) ==
          {k \o <<Equals>> \o v :
              k \in Written(pair[1], InKey), v \in Written(pair[2], InValue)}
          \cup IF pair[1] # <<>> /\ pair[2] = <<>> THEN Written(pair[1], InKey) ELSE {}
    IN  {Join(w, Ampersand) : w \in OneOfEach[[i \in DOMAIN pairs |-> written(pairs[i])]]}

Send ==
    /\ peerNames # NotYet
    /\ sent = NotYet
    /\ \E path \in Paths(meant.route, meant.params), query \in QueryTexts(meant.pairs) :
          sent' = [path |-> path, query |-> query]
    /\ UNCHANGED <<meant, cert, peerNames, facts>>

-----------------------------------------------------------------------------
(* The listener.                                                            *)

\* TlsSession::from_connection, once per connection.
Handshake ==
    /\ peerNames = NotYet
    /\ peerNames' = names[EncodedCertificate(cert)]
    /\ UNCHANGED <<meant, cert, sent, facts>>

request_from_parts ==
    /\ sent # NotYet
    /\ facts = NotYet
    /\ facts' = [path_params  |-> extract_path_params(meant.route, sent.path),
                 query_params |-> parse_query(sent.query),
                 client       |-> client_addr(meant.peer, meant.trusted, meant.lines),
                 forwarded    |-> joined_headers(meant.lines)]
    /\ UNCHANGED <<meant, cert, peerNames, sent>>

Next == Handshake \/ Send \/ request_from_parts

Spec == Init /\ [][Next]_vars

-----------------------------------------------------------------------------
(* Properties.                                                              *)

\* The values the script reads are those the client put into the path,
\* whichever characters it escaped, a slash or an escape in a value included.
ParamsReadBack == facts # NotYet => facts.path_params = meant.params

\* Likewise of the query: a delimiter in a key or value starts no other
\* pair, and of two pairs with one key the last counts.
QueryReadsBack ==
    LET pairs == meant.pairs
        lastOf(k) == Max({i \in DOMAIN pairs : pairs[i][1] = k})
    IN  facts # NotYet =>
            facts.query_params =
                [k \in {pairs[i][1] : i \in DOMAIN pairs} |-> pairs[lastOf(k)][2]]

\* req.client is the peer or the first entry of X-Forwarded-For as req.headers
\* has it, and that only from a trusted proxy.
ClientAgreesWithHeaders ==
    facts # NotYet /\ facts.client # meant.peer =>
        /\ meant.peer \in meant.trusted
        /\ facts.client = facts.forwarded[1]

\* The names read off a certificate are those it was issued with: subject and
\* issuer, and the alternative names of the kinds that are kept, in order,
\* whatever else the certificate has.
CertificateReadsBack ==
    LET known(g) ==
          IF \/ g.tag \in {129, 130, 134}
             \/ g.tag = 135 /\ Len(g.octets) \in {4, 16}
          THEN <<<<g.tag, g.octets>>>> ELSE <<>>
        list(x) ==
          IF x.type = SUBJECT_ALT_NAME THEN <<InTurn(x.names, known)>> ELSE <<>>
        lists == InTurn(cert.extensions, list)
    IN  peerNames # NotYet =>
            /\ peerNames.ok
            /\ peerNames.subject = NameText(Reverse(cert.subject))
            /\ peerNames.issuer = NameText(Reverse(cert.issuer))
            /\ peerNames.subject_alt_names = IF lists = <<>> THEN <<>> ELSE Last(lists)

\* What attribute_value lets a text tell of a value: the characters of a
\* string, and of any other value its octets, but not their tag.
ValueContents(tag, value) == IF IsText(tag) THEN Characters(tag, value) ELSE value

Contents(rdns) ==
    [i \in DOMAIN rdns |-> [j \in DOMAIN rdns[i] |->
        LET a == rdns[i][j]
        IN  [type |-> a.type, isString |-> IsText(a.tag),
             value |-> ValueContents(a.tag, a.value)]]]

SubjectTexts == [d \in Subjects |-> NameText(Reverse(d))]

\* The subjects of two certificates read the same exactly when they have the
\* same contents. No value passes for another attribute, for another part of
\* the name, or for octets when it is a string; and it does not matter in which
\* string type, or alphabet, a string came. But octets of a value that is no
\* string read alike whatever type they are of: an INTEGER as a BIT STRING.
SubjectTellsItsContents ==
    peerNames # NotYet /\ peerNames.ok /\ cert.subject \in DistinguishedNames =>
        \A d \in Subjects :
            SubjectTexts[d] = peerNames.subject <=> Contents(d) = Contents(cert.subject)
=============================================================================
