---------------------------- MODULE MCRequestFacts ----------------------------
(***************************************************************************)
(* Texts are ASCII and hold what means something in a target: a slash, a   *)
(* plus sign, delimiters, and text that looks like an escape. No value of  *)
(* a catch-all at the top of the path begins with a slash.                 *)
(***************************************************************************)
EXTENDS RequestFacts

Literal  == [kind |-> "literal", text |-> <<97>>]
Param(n) == [kind |-> "param", name |-> n]
Rest     == [kind |-> "rest", name |-> "rest"]

MCTexts == {<<97>>, <<47>>, <<43>>, <<32, 97>>, <<38>>, <<61>>, <<37, 50, 70>>, <<37, 43, 53>>}
MCRests == (MCTexts \ {<<47>>}) \cup {<<97, 47>>, <<97, 47, 43>>}

MCTargets ==
    {<<<<Literal, Param("id")>>, [id |-> t]>> : t \in MCTexts}
    \cup {<<<<Param("id"), Literal, Param("op")>>, [id |-> t, op |-> u]>> :
             t, u \in MCTexts}
    \cup {<<<<Literal, Rest>>, [rest |-> t]>> : t \in MCRests \cup {<<47>>, <<47, 97>>}}
    \cup {<<<<Rest>>, [rest |-> t]>> : t \in MCRests}
    \cup {<<<<Param("id"), Rest>>, [id |-> <<47>>, rest |-> t]>> : t \in {<<47>>, <<97, 47>>}}

MCPairs == {<<k, v>> : k \in {<<97>>, <<38>>, <<61>>, <<37, 50, 54>>},
                       v \in {<<>>, <<61>>, <<43, 32>>}}

MCQueries ==
    {<<p>> : p \in MCPairs}
    \cup {<<p, q>> : p \in MCPairs, q \in {<<<<97>>, <<61>>>>, <<<<38>>, <<>>>>}}

MCAddresses == {"a", "b"}
Line(entries) == [visible |-> TRUE, entries |-> entries]
Opaque == [visible |-> FALSE, entries |-> <<"a">>]
MCLines == {Line(<<"a">>), Line(<<"a", "b">>), Line(<<Blank, "a">>), Line(<<Blank>>), Opaque}

Request(target, pairs, peer, trusted, lines) ==
    [route |-> target[1], params |-> target[2], pairs |-> pairs,
     peer |-> peer, trusted |-> trusted, lines |-> lines]

Somewhere == <<<<Literal>>, <<>>>>

MCRequests ==
    {Request(t, <<>>, "unknown", {"p"}, <<>>) : t \in MCTargets}
    \cup {Request(Somewhere, q, "p", {"p"}, <<>>) : q \in MCQueries}
    \cup {Request(Somewhere, <<>>, p, {"p"}, l) : 
             p \in {"p", "q"}, l \in BoundedSeq(MCLines, 2)}

-----------------------------------------------------------------------------
CommonName == <<85, 4, 3>>
Country    == <<85, 4, 6>>
GivenName  == <<85, 4, 42>>
Enterprise == <<43, 6, 1, 4, 1, 130, 55>>

\* Octets of "N", ",", "C=N" after a comma, "\", "+", "#", "#0180", " ", "  N",
\* NUL, "\00" and nothing; the first also as UTF-16; a BIT STRING and an INTEGER
\* of the same octets; an e acute and the euro sign.
MCValues ==
    {<<12, <<78>>>>, <<30, <<0, 78>>>>, <<3, <<1, 128>>>>, <<2, <<1, 128>>>>, <<3, <<>>>>,
     <<12, <<195, 169>>>>, <<30, <<0, 233>>>>, <<30, <<32, 172, 0>>>>}
    \cup {<<19, v>> : v \in
        {<<44>>, <<44, 67, 61, 78>>, <<92>>, <<92, 44>>, <<43, 67, 61, 78>>, <<35>>,
         <<35, 48, 49, 56, 48>>, <<32>>, <<32, 32, 78>>, <<78, 32>>, <<0>>, <<92, 48, 48>>, <<>>}}

Attr(type, v) == [type |-> type, tag |-> v[1], value |-> v[2]]
MCAttrs == {Attr(t, v) : t \in {CommonName, Country, GivenName, Enterprise}, v \in MCValues}
MCFew   == {Attr(t, v) : t \in {CommonName, Country},
                         v \in {<<12, <<78>>>>, <<19, <<44>>>>, <<19, <<92>>>>,
                                <<3, <<1, 128>>>>, <<2, <<1, 128>>>>, <<19, <<>>>>}}

Root == <<<<Attr(CommonName, <<12, <<67>>>>)>>>>

MCSubjects ==
    {<<>>, Root} \cup {<<<<a>>>> : a \in MCAttrs}
    \cup {<<<<a>>, <<b>>>> : a \in MCFew, b \in MCFew}
    \cup {<<<<a, b>>>> : a \in MCFew, b \in MCFew}

General(tag, octets) == [tag |-> tag, octets |-> octets]
Dns == General(130, <<78>>)
MCNames ==
    {<<>>, <<Dns>>, <<General(134, <<67>>), General(129, <<78>>), Dns>>,
     <<General(136, <<42>>), Dns>>, <<General(135, <<1, 2, 3>>), Dns>>,
     <<Dns, General(164, <<>>), General(135, <<1, 2, 3, 4>>)>>}

Ext(type, critical, names_) == [type |-> type, critical |-> critical, names |-> names_]
Alternative(n) == Ext(SUBJECT_ALT_NAME, FALSE, n)
KeyUsage(c) == Ext(<<85, 29, 15>>, c, <<>>)

MCExtensions ==
    {<<>>} \cup {<<Alternative(n)>> : n \in MCNames}
    \cup {<<KeyUsage(c), Ext(SUBJECT_ALT_NAME, d, n), KeyUsage(TRUE)>> :
             c, d \in BOOLEAN, n \in MCNames}
    \cup {<<Alternative(<<Dns>>), Alternative(n)>> : n \in MCNames}

Certificate(v1, subject, keyLength, uniqueID, extensions) ==
    [v1 |-> v1, issuer |-> Root, subject |-> subject, keyLength |-> keyLength,
     uniqueID |-> uniqueID, extensions |-> extensions]
Plain == Certificate(FALSE, Root, 0, FALSE, <<>>)

MCCertificates ==
    {Certificate(FALSE, s, 0, FALSE, <<>>) : s \in MCSubjects}
    \cup {Certificate(v, Root, n, u, x) :
             v, u \in BOOLEAN, n \in {0, 130, 300}, x \in MCExtensions}

MCExchanges == {<<r, Plain>> : r \in MCRequests}
               \cup {<<Request(Somewhere, <<>>, "p", {"p"}, <<>>), c>> : c \in MCCertificates}
=============================================================================
