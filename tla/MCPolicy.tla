------------------------------ MODULE MCPolicy ------------------------------
(***************************************************************************)
(* A small instance of Policy: two catalogued tools and one that is not,   *)
(* rules of every shape, tokens of a person, of a delegate and of robots.  *)
(***************************************************************************)
EXTENDS Policy

Rule(id, effect, actions, on, who, reads, kind, test) ==
    [id |-> id, effect |-> effect, actions |-> actions, on |-> on, who |-> who,
     reads |-> reads, name |-> "chan", kind |-> kind, test |-> test]

tool == {"tool_call"}
read == {"resource_read"}

MCRules ==
    {Rule("all", "permit", tool, Any, Any, None, None, None),
     Rule("all", "permit", tool, "read", "dba", None, None, None),
     Rule(NoId, "permit", tool, Any, Any, None, None, None),
     Rule("scope", "permit", tool \cup read, Any, Any, "scope", None, None),
     Rule("scoped", "permit", tool, Any, Any, "scope", None, None),
     Rule("robot", "forbid", tool \cup read, Any, Any, "human", None, None),
     Rule("typo", "forbid", tool, Any, Any, "typo", None, None),
     Rule("chan", "forbid", tool, "send", Any, "arg", "string", "eq"),
     Rule("net", "forbid", tool, "send", Any, "arg", "string", "ip"),
     Rule("anynet", "forbid", tool, Any, Any, "arg", "string", "ip"),
     Rule("permitnet", "permit", tool, "send", Any, "arg", "string", "ip"),
     Rule("docs", "permit", read, Any, Any, "target", "string", "eq"),
     Rule("ask", "permit", {"sampling"}, WrappedServer, "dba", None, None, None),
     Rule("other", "permit", {"sampling"}, "in", Any, None, None, None)}

Value(k, v) == [kind |-> k, value |-> v]
MCRaw == {Value("string", "in"), Value("string", "out"), Value("string", "odd"),
          Value("long", "in"), Value("oversize", "in"), Value("null", "in"),
          Value("absent", "in")}

Arg(k, d, w) == [name |-> "chan", kind |-> k, default |-> d, wellformed |-> w]
Tool(a) == [required_scope |-> "w", arg |-> a]
MCCatalogues ==
    {[t \in {"send", "read"} |-> IF t = "send" THEN Tool(a) ELSE Tool(b)] :
        a \in {NoArg, Arg("string", Value("absent", "in"), TRUE),
               Arg("string", Value("string", "out"), TRUE),
               Arg("string", Value("long", "in"), TRUE),
               Arg("string", Value("absent", "in"), FALSE)},
        b \in {NoArg, Arg("long", Value("absent", "in"), TRUE)}}

MCFailModes ==
    {[default |-> FALSE, tools |-> << >>],
     [default |-> TRUE, tools |-> << >>],
     [default |-> FALSE, tools |-> [t \in {"read", "send"} |-> TRUE]]}

Map(m, l) ==
    [subject |-> "sub", scopes |-> <<"scope", "scp">>, groups |-> <<"groups", "roles">>,
     client_id |-> <<"client_id", "azp">>, machine |-> m, labels |-> l]
NoMarkers == [subject_is_client |-> FALSE, equals |-> {}, prefixes |-> {}]

MCEdited == {Map(NoMarkers, DefaultLabels), Map(DefaultMarkers, <<"email">>)}

Idp == [kid |-> "k1", key |-> "idp", kty |-> "RSA", usable |-> TRUE]
MCIdentityBundles ==
    {[format |-> f, issuer |-> "idp", audience |-> "obsign", jwks |-> {Idp},
      claims |-> Map(DefaultMarkers, DefaultLabels)] : f \in 1 .. 3}

Claims == {"sub", "scope", "scp", "groups", "roles", "client_id", "azp", "idtyp",
           "preferred_username", "email"}
Token(kid, key, aud, act, c) ==
    [kid |-> kid, key |-> key, iss |-> "idp", aud |-> aud, fresh |-> TRUE, act |-> act,
     claims |-> [p \in Claims |-> IF p \in DOMAIN c THEN c[p] ELSE {}]]
Person == [sub |-> {"alice"}, scope |-> {"r"}, scp |-> {"w"}, groups |-> {"dba"},
           email |-> {"alice"}]
Robot == [sub |-> {"svc"}, client_id |-> {"job"}, scp |-> {"w"}, roles |-> {"dba"},
          preferred_username |-> {"service-account-job"}]

MCTokens ==
    {Token("k1", "idp", "obsign", << >>, Person),
     Token("k1", "idp", "obsign", <<"agent", NoSub, "agent">>, Person),
     Token("k1", "idp", "obsign", <<"agent">>, Robot),
     Token("k1", "rogue", "obsign", << >>, Person),
     Token("k1", "idp", "other", << >>, Person)}
=============================================================================
