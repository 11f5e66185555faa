-------------------------------- MODULE Edge --------------------------------
(***************************************************************************)
(* The front door's decisions: which service a path belongs to, who may    *)
(* call it, which budget a call draws on, and what identity the service    *)
(* behind it is shown. A path is the sequence of its segments.             *)
(***************************************************************************)
EXTENDS Naturals, FiniteSets, Sequences, SequencesExt

Rule(prefix, upstream, mode, limit) ==
    [prefix |-> prefix, upstream |-> upstream, mode |-> mode, limit |-> limit]
AuthRule(p, upstream) == Rule(p, upstream, "auth", "verb")
ReadRule(p) == Rule(p, "catalog", "public_read", "verb")
LoginRule(p) == Rule(p, "identity", "public", "auth")

RULES ==
    {LoginRule(<<"v1", "auth", "register">>), LoginRule(<<"v1", "auth", "login">>),
     LoginRule(<<"v1", "auth", "refresh">>),
     AuthRule(<<"v1", "auth">>, "identity"), AuthRule(<<"v1", "me">>, "identity"),
     ReadRule(<<"v1", "restaurants">>), ReadRule(<<"v1", "menus">>), ReadRule(<<"v1", "search">>),
     AuthRule(<<"v1", "inventory">>, "inventory"), AuthRule(<<"v1", "orders">>, "order"),
     AuthRule(<<"v1", "quote">>, "order"), AuthRule(<<"v1", "restaurant">>, "order"),
     AuthRule(<<"v1", "notifications">>, "notification"),
     AuthRule(<<"v1", "rider">>, "dispatch"), AuthRule(<<"v1", "deliveries">>, "dispatch"),
     AuthRule(<<"v1", "track">>, "order"), AuthRule(<<"v1", "assistant">>, "assistant"),
     AuthRule(<<"v1", "restaurant", "analytics">>, "analytics")}

\* The longest prefix wins; whole segments only.
Matching(path) == {r \in RULES : IsPrefix(r.prefix, path)}
NoRule == Rule(<<>>, "none", "none", "none")
match(path) ==
    IF Matching(path) = {} THEN NoRule
    ELSE CHOOSE r \in Matching(path) : \A o \in Matching(path) : Len(o.prefix) <= Len(r.prefix)

IsRead(method) == method \in {"GET", "HEAD"}
needs_auth(r, method) == r.mode = "auth" \/ (r.mode = "public_read" /\ ~IsRead(method))
limit_class_for(r, method) ==
    IF r.limit # "verb" THEN r.limit ELSE IF IsRead(method) THEN "read" ELSE "write"

\* merge_specs: the documented operations of the services' own specs.
merge_specs(operations) == {o \in operations : match(o.path) # NoRule}

-----------------------------------------------------------------------------
(* Identity headers.                                                       *)

Claims(sub, roles, restaurant_id, rider_id) ==
    [sub |-> sub, roles |-> roles, restaurant_id |-> restaurant_id, rider_id |-> rider_id]
Anonymous == Claims("none", {}, "none", "none")

STRIP_HEADERS == {"sub", "role", "roles", "restaurant_id", "rider_id"}
\* context_from_claims and headers_for: an absent scope is not stamped.
headers_for(c) ==
    [h \in {"sub", "roles"} \cup {k \in {"restaurant_id", "rider_id"} : c[k] # "none"} |-> c[h]]
\* Inbound headers minus the identity ones, plus what was verified.
Forwarded(inbound, c) ==
    LET stamped == IF c = Anonymous THEN <<>> ELSE headers_for(c)
        kept == DOMAIN inbound \ STRIP_HEADERS
    IN  [h \in kept \cup DOMAIN stamped |-> IF h \in DOMAIN stamped THEN stamped[h] ELSE inbound[h]]

ROLES == {"customer", "restaurant_admin", "rider", "system_admin", "system"}
Header(hs, h, default) == IF h \in DOMAIN hs THEN hs[h] ELSE default
\* get_auth_context: no subject, no role or an unknown one is no identity.
get_auth_context(hs) ==
    LET c == Claims(Header(hs, "sub", "none"), Header(hs, "roles", {}),
                    Header(hs, "restaurant_id", "none"), Header(hs, "rider_id", "none"))
    IN  IF c.sub = "none" \/ c.roles = {} \/ ~(c.roles \subseteq ROLES) THEN Anonymous ELSE c
require_role(c, allowed) == c # Anonymous /\ ("system" \in c.roles \/ c.roles \cap allowed # {})
require_system(c) == require_role(c, {})
internal_headers(caller) == headers_for(Claims(caller, {"system"}, "none", "none"))

-----------------------------------------------------------------------------
(* The limiter: a count per class, scope and window.                       *)

Scope(c) == IF c = Anonymous THEN "ip" ELSE "sub"
allowed(count, limit) == count <= limit

-----------------------------------------------------------------------------
Upper(path) == match(path).upstream
At(a, b) == <<"v1", a, b>>

\* The table as its comments describe it: exactly one rule is the longest; the
\* endpoints that give tokens are open and tightly limited while the rest of
\* /v1/auth is not; browsing is open and writing there is not; the owner's
\* metrics leave the kitchen's service; internal routes have no rule.
ASSUME RoutesAgree ==
    /\ \A r, o \in RULES : r.prefix = o.prefix => r = o
    /\ \A m \in {"GET", "POST"} :
         /\ \A p \in {"register", "login", "refresh"} :
              ~needs_auth(match(At("auth", p)), m) /\ limit_class_for(match(At("auth", p)), m) = "auth"
         /\ needs_auth(match(At("auth", "me")), m)
    /\ ~needs_auth(match(At("restaurants", "r")), "GET") /\ needs_auth(match(At("restaurants", "r")), "POST")
    /\ Upper(At("restaurant", "analytics")) = "analytics" /\ Upper(At("restaurant", "orders")) = "order"
    /\ match(At("internal", "grants")) = NoRule
    /\ merge_specs({[path |-> At("internal", "grants"), method |-> "POST"]}) = {}

\* What a service reads back is what was verified, whatever came in, and a
\* system caller passes every gate.
ASSUME StampedAgree ==
    \A c \in {Anonymous, Claims("u", {"customer"}, "none", "none"),
              Claims("u", {"restaurant_admin", "customer"}, "b", "none"),
              Claims("u", {"rider"}, "none", "u")} :
      /\ \A inbound \in {<<>>, [sub |-> "v", roles |-> {"system"}], [rider_id |-> "v", accept |-> "x"]} :
           get_auth_context(Forwarded(inbound, c)) = c
      /\ ~require_system(c)
      /\ require_system(get_auth_context(internal_headers("svc")))
=============================================================================
