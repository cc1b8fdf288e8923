------------------------------- MODULE MCNntp -------------------------------
(* The cmdlist "lost" names a group the server does not carry before one it *)
(* does; the workloads pair cmdlists of the kinds that can get into each    *)
(* other's way.                                                             *)
EXTENDS NntpProperties

MCcmdtype ==
    [c \in Cmdlists |-> CASE c \in {"articles", "lost"} -> "body"
                          [] c = "headers"  -> "xover"
                          [] c = "info"     -> "groupinfo"
                          [] OTHER          -> "listing"]
MCgroups ==
    [c \in Cmdlists |-> CASE c = "articles" -> <<"alt.one">>
                          [] c = "lost"     -> <<"alt.none", "alt.one", "alt.one">>
                          [] c = "headers"  -> <<"alt.two">>
                          [] c = "info"     -> <<"alt.one">>
                          [] OTHER          -> <<>>]
MCcommands ==
    [c \in Cmdlists |-> CASE c = "articles" -> <<"a1", "a2">>
                          [] c = "lost"     -> <<"a4">>
                          [] c = "headers"  -> <<"r1", "r2">>
                          [] OTHER          -> <<>>]
MCWorkloads ==
    {{"articles", "headers"}, {"lost", "articles"}, {"articles", "groups"},
     {"info", "headers"}}
=============================================================================
