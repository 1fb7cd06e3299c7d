------------------------------ MODULE MCRouting ------------------------------
(***************************************************************************)
(* Routing with the ways a script writes a route: in its own case, with no *)
(* method, with words that are none, with a bare string, an empty list,    *)
(* values that are no text; on a template of its own, on one that a wider  *)
(* template covers too, and on none.                                       *)
(***************************************************************************)
EXTENDS Routing, TLC

MCWords    == {"get", "GET", "PUT", "no token", "NO TOKEN"}
MCMethods  == {"get", "GET", "PUT"}
MCUpper    == [w \in MCWords \cup {NotText} |->
                  IF w = "get" THEN "GET" ELSE IF w = "no token" THEN "NO TOKEN" ELSE w]

\* "/a" alone, and any other one segment.
MCCovering == "/a" :> <<"/a", "/{x}">> @@ "/b" :> <<"/{x}">> @@ "/b/c" :> <<>>

Default(p) == [path |-> p, spelled |-> FALSE, methods |-> <<>>,
               form |-> "none", listeners |-> <<>>]
With(call, methods) == [call EXCEPT !.spelled = TRUE, !.methods = methods]
Only(call, form, listeners) == [call EXCEPT !.form = form, !.listeners = listeners]

MCCalls == {
    Default("/a"),
    Default("/{x}"),
    Default(NoPath),
    Default(NotText),
    With(Default("/a"), <<"get", "PUT">>),
    With(Default("/{x}"), <<"PUT">>),
    With(Default("/a"), <<"no token", "PUT">>),
    With(Default("/a"), <<>>),
    With(Default("/a"), <<"PUT", NotText>>),
    Only(Default("/a"), "list", <<"internal">>),
    Only(Default("/{x}"), "string", <<"public">>),
    Only(Default("/a"), "list", <<>>),
    Only(Default("/a"), "list", <<"public", "nowhere">>),
    Only(Default("/{x}"), "list", <<"nowhere", NotText>>),
    With(Only(Default("/a"), "string", <<"public">>), <<"PUT">>) }
=============================================================================
