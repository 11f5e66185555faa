------------------------------ MODULE Identity ------------------------------
(***************************************************************************)
(* One user's account, sessions and roles, and the browser tabs that carry *)
(* its tokens through the edge.                                            *)
(*                                                                         *)
(* Identity answers a login or a refresh with a pair: an access token that *)
(* freezes the user's roles, and a refresh token that is the session row's *)
(* current one. The edge verifies access tokens against a cached key set.  *)
(* A tab keeps the pair in memory and in the storage all tabs share, and   *)
(* refreshes once at a time. Grants change the roles beside all this.      *)
(***************************************************************************)
EXTENDS Edge

CONSTANTS
    Tabs,          \* pages of the app open in one browser
    Calls,         \* concurrent API requests
    TabOf,         \* the tab that makes a request
    Riders,        \* requests that grant the rider role
    Consumer,      \* the grant-convergence consumer
    Adders,        \* concurrent add-address requests
    Casts,         \* who is at work together, which routes they ask for, what befalls them
    Keys,          \* signing keys
    MaxSessions,   \* logins (bound)
    Toks,          \* refresh-token values in circulation (bound)
    Limit,         \* requests per window, by class
    AddrIds, MaxAddresses   \* MAX_ADDRESSES

ASSUME IdentityConstants ==
    /\ TabOf \in [Calls -> Tabs] /\ MaxAddresses \in Nat \ {0} /\ MaxSessions \in Nat
    /\ Toks \subseteq Nat \ {0} /\ Limit \in [{"auth", "read", "write"} -> Nat]
    /\ Consumer \notin Calls \cup Riders /\ Calls \cap Riders = {} /\ IsFiniteSet(Adders)

Grantors == Calls \cup Riders \cup {Consumer}
None == "none"
Sub == "user"
BrandId == "brand"

-----------------------------------------------------------------------------
(* Rows, tokens and requests.                                              *)

\* users with user_roles, restaurant_owners and riders.
User(there, roles, brand, rider) ==
    [there |-> there, roles |-> roles, brand |-> brand, rider |-> rider]
NoUser == User(FALSE, {}, None, FALSE)

\* A token pair; the id is the refresh token and names the access token too.
Pair(id, claims, kid) == [id |-> id, claims |-> claims, kid |-> kid]
NoPair == Pair(0, Anonymous, 0)

\* refresh_tokens: one row per login.
Session(tok, expired) == [tok |-> tok, expired |-> expired]

\* A request's way: what it asks, with which token, whether it may retry, what
\* key set it fetched, whom the service sees, whether it shared a refresh.
Request(pc, route, pair, retry, doc, ctx, joined) ==
    [pc |-> pc, route |-> route, pair |-> pair, retry |-> retry, doc |-> doc, ctx |-> ctx,
     joined |-> joined]
Idle == Request("idle", None, NoPair, FALSE, 0, Anonymous, FALSE)
Absent == Request("absent", None, NoPair, FALSE, 0, Anonymous, FALSE)

\* The tab's single refresh in flight.
Flight(pc, tok, sid, pair) == [pc |-> pc, tok |-> tok, sid |-> sid, pair |-> pair]
NoFlight == Flight("none", 0, 0, NoPair)

Routes == {"browse", "orders", "onboard"}
Path(route) == CASE route = "browse" -> <<"v1", "restaurants">>
                 [] route = "orders" -> <<"v1", "orders">>
                 [] OTHER            -> <<"v1", "restaurants">>
Method(route) == IF route = "onboard" THEN "POST" ELSE "GET"
RuleFor == [r \in Routes |-> match(Path(r))]
Protected == {r \in Routes : needs_auth(RuleFor[r], Method(r))}
Budget == [r \in Routes |-> limit_class_for(RuleFor[r], Method(r))]

VARIABLES
    user,       \* the account's rows
    addresses,  \* the user's address rows
    adding,     \* add-address requests that passed the count
    sess,       \* session rows
    expired,    \* access tokens past their exp
    key,        \* identity's signing key
    granting,   \* grants that passed their checks
    branded,    \* catalog has the user's brand, and the event of it
    processed,  \* the consumer's processed_events row of that event
    mem,        \* each tab's pair (the store in memory)
    stored,     \* the pair in localStorage
    flight, calls,
    jwks,       \* the edge's key cache: keys and how old they are
    hits,       \* the limiter's counts of this window
    cast,       \* the scenario: one of Casts, never changed
    trouble,    \* history: a refresh token died outside the holder's sight
    crossed     \* history: a rider and an owner grant overlapped

identity == <<user, addresses, adding, sess, expired, key, granting, branded, processed,
          mem, stored, flight, calls, jwks, hits, cast, trouble, crossed>>
account == <<user, addresses, adding, granting, branded, processed, crossed>>
browser == <<mem, stored, flight>>
edge == <<jwks, hits, cast>>
tokens == <<sess, expired, key, trouble>>

Cache(keys, age) == [keys |-> keys, age |-> age]

IdentityInit ==
    /\ cast \in Casts
    /\ user = NoUser
    /\ addresses = {} /\ adding = [a \in Adders |-> IF a \in cast.who THEN "idle" ELSE "absent"]
    /\ sess = [s \in 1..MaxSessions |-> Session(0, FALSE)]
    /\ expired = {}
    /\ key = 1
    /\ granting = [g \in Grantors |-> IF g \in cast.who \cup DOMAIN cast.plan THEN "no" ELSE "absent"]
    /\ branded = FALSE /\ processed = FALSE
    /\ mem = [t \in Tabs |-> NoPair] /\ stored = NoPair
    /\ flight = [t \in Tabs |-> NoFlight]
    /\ calls = [c \in Calls |-> IF c \in DOMAIN cast.plan THEN Idle ELSE Absent]
    /\ jwks = IF "age" \in cast.events THEN Cache({}, "stale") ELSE Cache({1}, "fresh")
    /\ hits = [k \in {"auth", "read", "write"} \X {"ip", "sub"} |-> 0]
    /\ trouble = FALSE /\ crossed = FALSE

-----------------------------------------------------------------------------
(* The account.                                                            *)

\* Registering a known email is a silent no-op.
register ==
    /\ ~user.there
    /\ user' = User(TRUE, {"customer"}, None, FALSE)
    /\ UNCHANGED <<addresses, adding, granting, branded, processed, crossed, tokens, browser, calls, edge>>

Held == {mem[t].id : t \in Tabs} \cup {stored.id} \cup UNION {{flight[t].tok, flight[t].pair.id} : t \in Tabs}
InUse == {sess[s].tok : s \in DOMAIN sess} \cup Held \cup {calls[c].pair.id : c \in Calls}
\* new_refresh_token: 256 random bits.
new_refresh_token == CHOOSE n \in Toks : n \notin InUse

\* _issue_pair and TokenIssuer.issue: the claims are the rows of this moment.
issue_pair(id) ==
    Pair(id, Claims(Sub, user.roles, user.brand, IF "rider" \in user.roles THEN Sub ELSE None), key)

\* The tab is one of the cast's.
IsOpen(t) == \E c \in Calls : TabOf[c] = t /\ calls[c] # Absent
\* A row whose token nobody holds any more stands for no row.
FreeSession == {s \in DOMAIN sess : sess[s].tok = 0 \/ (sess[s].tok \notin Held /\ \A t \in Tabs : flight[t].sid # s)}
\* login opens a session row; the tab stores the pair.
login(t) ==
    /\ user.there /\ mem[t].id = 0 /\ FreeSession # {} /\ flight[t] = NoFlight
    /\ IsOpen(t) /\ Toks \ InUse # {}
    /\ LET s == CHOOSE x \in FreeSession : TRUE
           id == new_refresh_token
       IN  /\ sess' = [sess EXCEPT ![s] = Session(id, FALSE)]
           /\ mem' = [mem EXCEPT ![t] = issue_pair(id)]
           /\ stored' = issue_pair(id)
           /\ expired' = (expired \cap InUse) \ {id}
    /\ UNCHANGED <<account, key, trouble, flight, calls, edge>>

\* Grants: the check is one read, the write another; nothing locks between.
\* A replay of an applied grant changes nothing.
GrantIn(kind) ==
    /\ user.there
    /\ IF kind = "admin" THEN "rider" \notin user.roles
       ELSE user.roles \cap {"rider", "restaurant_admin"} = {}
\* set_owner_brand with add_role; add_role with add_rider: one transaction each.
add_role(role) == user.roles \cup {role}
grant_restaurant_admin == User(TRUE, add_role("restaurant_admin"), BrandId, user.rider)
grant_rider == User(TRUE, add_role("rider"), user.brand, TRUE)

Write(g) == IF granting[g] = "admin" THEN grant_restaurant_admin ELSE grant_rider
Crosses(g) == \E h \in Grantors \ {g} : {granting[g], granting[h]} = {"admin", "rider"}

RiderGrant(g) ==
    \/ /\ granting[g] = "no" /\ GrantIn("rider")
       /\ granting' = [granting EXCEPT ![g] = "rider"]
       /\ UNCHANGED <<user, crossed>>
    \/ /\ granting[g] = "rider"
       /\ user' = Write(g) /\ crossed' = (crossed \/ Crosses(g))
       /\ granting' = [granting EXCEPT ![g] = "no"]
RiderRequest(g) ==
    RiderGrant(g) /\ UNCHANGED <<addresses, adding, branded, processed, tokens, browser, calls, edge>>

\* Slip: the event is marked before the grant is applied.
MarkFirst ==
    /\ branded /\ user.there
    /\ \/ /\ granting[Consumer] = "no" /\ ~processed
          /\ granting' = [granting EXCEPT ![Consumer] = IF GrantIn("admin") THEN "admin" ELSE "mark"]
          /\ processed' = TRUE
          /\ UNCHANGED <<user, crossed>>
       \/ /\ granting[Consumer] = "admin"
          /\ user' = Write(Consumer) /\ crossed' = (crossed \/ Crosses(Consumer))
          /\ granting' = [granting EXCEPT ![Consumer] = "mark"]
          /\ UNCHANGED processed
       \/ /\ granting[Consumer] = "mark"
          /\ granting' = [granting EXCEPT ![Consumer] = "no"]
          /\ UNCHANGED <<user, crossed, processed>>
    /\ UNCHANGED <<addresses, adding, branded, tokens, browser, calls, edge>>

\* GrantConvergenceHandler: apply, then mark; a conflict is marked as well.
ConvergeGrant ==
    /\ branded /\ user.there
    /\ \/ /\ granting[Consumer] = "no" /\ ~processed
          /\ granting' = [granting EXCEPT ![Consumer] = IF GrantIn("admin") THEN "admin" ELSE "mark"]
          /\ UNCHANGED <<user, crossed, processed>>
       \/ /\ granting[Consumer] = "admin"
          /\ user' = Write(Consumer) /\ crossed' = (crossed \/ Crosses(Consumer))
          /\ granting' = [granting EXCEPT ![Consumer] = "mark"]
          /\ UNCHANGED processed
       \/ /\ granting[Consumer] = "mark"
          /\ processed' = TRUE
          /\ granting' = [granting EXCEPT ![Consumer] = "no"]
          /\ UNCHANGED <<user, crossed>>
    /\ UNCHANGED <<addresses, adding, branded, tokens, browser, calls, edge>>
\* The consumer dies; the event is delivered again.
ConsumerDies ==
    /\ granting[Consumer] \in {"admin", "mark"}
    /\ granting' = [granting EXCEPT ![Consumer] = "no"]
    /\ UNCHANGED <<user, addresses, adding, branded, processed, crossed, tokens, browser, calls, edge>>

-----------------------------------------------------------------------------
(* Saved addresses: a count, then an insert.                               *)

count_addresses == Cardinality(addresses)
add_address(a) ==
    \/ /\ adding[a] = "idle" /\ user.there /\ count_addresses < MaxAddresses
       /\ adding' = [adding EXCEPT ![a] = "counted"] /\ UNCHANGED addresses
    \/ /\ adding[a] = "counted"
       /\ \E i \in AddrIds \ addresses : addresses' = addresses \cup {i}
       /\ adding' = [adding EXCEPT ![a] = "idle"]
delete_address(a) ==
    /\ adding[a] = "idle"
    /\ \E i \in addresses : addresses' = addresses \ {i}
    /\ UNCHANGED adding
AddressRequest(a) ==
    /\ add_address(a) \/ delete_address(a)
    /\ UNCHANGED <<user, granting, branded, processed, crossed, tokens, browser, calls, edge>>

-----------------------------------------------------------------------------
(* A tab's refresh.                                                        *)

SignedIn(t) == mem[t].id # 0

\* refreshTokens: one at a time per tab; later callers share it.
JoinRefresh(t) ==
    flight' = IF flight[t].pc # "none" THEN flight
              ELSE [flight EXCEPT ![t] = Flight(IF SignedIn(t) THEN "sent" ELSE "refused", mem[t].id, 0, NoPair)]

\* The limiter's verdict; without a Redis answer the request goes on.
Spend(class, scope, ok) ==
    \/ ok /\ UNCHANGED hits
    \/ /\ "redis" \in cast.events
       /\ LET n == hits[<<class, scope>>] + 1
          IN  /\ ok = allowed(n, Limit[class])
              /\ hits' = [hits EXCEPT ![<<class, scope>>] = IF n > Limit[class] THEN @ ELSE n]

\* The edge turns it away (429, or 503 with identity unreachable).
RefreshTurnedAway(t) ==
    /\ flight[t].pc = "sent"
    /\ \/ Spend("auth", "ip", FALSE)
       \/ "outage" \in cast.events /\ Spend("auth", "ip", TRUE)
    /\ flight' = [flight EXCEPT ![t] = Flight("turned_away", @.tok, 0, NoPair)]
    /\ UNCHANGED <<account, tokens, mem, stored, calls, jwks, cast>>

get_refresh_by_hash(tok) == {s \in DOMAIN sess : sess[s].tok = tok}
\* refresh, its read: the row by the token's hash, and its expiry.
refresh(t) ==
    /\ flight[t].pc = "sent" /\ Spend("auth", "ip", TRUE)
    /\ LET rows == {s \in get_refresh_by_hash(flight[t].tok) : ~sess[s].expired}
       IN  flight' = [flight EXCEPT ![t] =
             IF rows = {} THEN Flight("refused", @.tok, 0, NoPair)
             ELSE Flight("read", @.tok, CHOOSE s \in rows : TRUE, NoPair)]
    /\ UNCHANGED <<account, tokens, mem, stored, calls, jwks, cast>>

\* refresh, its write: rotate_session by row id, whatever the row holds now.
\* Somebody else's copy of the old token, or of the one overwritten, is dead.
rotate_session(t) ==
    /\ flight[t].pc = "read" /\ Toks \ InUse # {}
    /\ LET id == new_refresh_token
           old == sess[flight[t].sid].tok
       IN  /\ sess' = [sess EXCEPT ![flight[t].sid] = Session(id, FALSE)]
           /\ expired' = (expired \cap InUse) \ {id}
           /\ flight' = [flight EXCEPT ![t] = Flight("done", @.tok, 0, issue_pair(id))]
           /\ trouble' = (trouble \/ old # flight[t].tok
                            \/ \E u \in Tabs \ {t} : mem[u].id = old)
    /\ UNCHANGED <<account, key, mem, stored, calls, edge>>

\* The answer is lost on the way; the committed rotation stands.
AnswerLost(t) ==
    /\ flight[t].pc \in {"sent", "done"} /\ "outage" \in cast.events
    /\ trouble' = (trouble \/ flight[t].pc = "done")
    /\ flight' = [flight EXCEPT ![t] = Flight("lost", @.tok, 0, NoPair)]
    /\ UNCHANGED <<account, sess, expired, key, mem, stored, calls, edge>>

\* What the callers that awaited the refresh do: retry once, or report.
Resumed(c, ok, pair) ==
    LET q == calls[c] IN
    IF q.pc = "await" THEN IF ok THEN Request("edge", q.route, pair, FALSE, 0, Anonymous, FALSE) ELSE Idle
    ELSE IF q.pc = "settle" THEN IF ok THEN Request("back", q.route, pair, FALSE, 0, Anonymous, q.joined) ELSE Idle
    ELSE q

\* Slip: the new refresh token is not kept.
SettleAccessOnly(t) ==
    /\ flight[t].pc \in {"done", "refused", "turned_away", "lost"}
    /\ LET ok == flight[t].pc = "done"
           new == IF ok /\ SignedIn(t) THEN Pair(mem[t].id, flight[t].pair.claims, flight[t].pair.kid)
                  ELSE IF ok THEN flight[t].pair ELSE IF flight[t].pc = "lost" THEN mem[t] ELSE NoPair
       IN  /\ mem' = [mem EXCEPT ![t] = new]
           /\ stored' = IF flight[t].pc = "lost" THEN stored ELSE new
           /\ calls' = [c \in Calls |-> IF TabOf[c] = t THEN Resumed(c, ok, new) ELSE calls[c]]
    /\ flight' = [flight EXCEPT ![t] = NoFlight]
    /\ UNCHANGED <<account, tokens, edge>>

\* The promise settles: setTokens, or logout on any answer that is not ok;
\* a network error leaves the store alone.
SettleRefresh(t) ==
    /\ flight[t].pc \in {"done", "refused", "turned_away", "lost"}
    /\ LET ok == flight[t].pc = "done"
           new == IF ok THEN flight[t].pair ELSE IF flight[t].pc = "lost" THEN mem[t] ELSE NoPair
       IN  /\ mem' = [mem EXCEPT ![t] = new]
           /\ stored' = IF flight[t].pc = "lost" THEN stored ELSE new
           /\ calls' = [c \in Calls |-> IF TabOf[c] = t THEN Resumed(c, ok, new) ELSE calls[c]]
    /\ flight' = [flight EXCEPT ![t] = NoFlight]
    /\ UNCHANGED <<account, tokens, edge>>

\* The Sign out button; the session row stays, and so does a refresh in flight.
logout(t) ==
    /\ SignedIn(t) /\ "logout" \in cast.events
    /\ mem' = [mem EXCEPT ![t] = NoPair] /\ stored' = NoPair
    /\ UNCHANGED <<account, tokens, flight, calls, edge>>
\* A page load reads the shared storage.
Reload(t) ==
    /\ IsOpen(t) /\ "reload" \in cast.events /\ mem[t] # stored /\ flight[t] = NoFlight
    /\ \A c \in Calls : TabOf[c] = t => calls[c] = Idle
    /\ mem' = [mem EXCEPT ![t] = stored]
    /\ trouble' = (trouble \/ \E u \in Tabs \ {t} : stored # NoPair /\ flight[u].tok = stored.id)
    /\ UNCHANGED <<account, sess, expired, key, stored, flight, calls, edge>>

-----------------------------------------------------------------------------
(* A request through the edge.                                             *)

NeedsAuth(c) == calls[c].route \in Protected
Class(c) == Budget[calls[c].route]

\* request: sent with the token in memory. Onboarding is for signed-in users.
request(c, route) ==
    /\ calls[c].pc = "idle" /\ route \in cast.plan[c] /\ (route # "browse" => SignedIn(TabOf[c]))
    /\ calls' = [calls EXCEPT ![c] = Request("edge", route, mem[TabOf[c]], TRUE, 0, Anonymous, FALSE)]
    /\ UNCHANGED <<account, tokens, browser, edge>>

\* verify: an unknown key or a stale cache asks for a fetch, clamped.
KeysMissing(p) == (p.kid \notin jwks.keys \/ jwks.age = "stale") /\ jwks.age # "clamped"
AskForKeys(c) ==
    /\ calls[c].pc = "edge" /\ calls[c].pair # NoPair /\ KeysMissing(calls[c].pair)
    /\ calls' = [calls EXCEPT ![c].pc = "fetch"]
    /\ UNCHANGED <<account, tokens, browser, edge>>
\* Identity's document: the one current key.
jwks_doc(c) ==
    /\ calls[c].pc = "fetch"
    /\ calls' = [calls EXCEPT ![c] = [@ EXCEPT !.pc = "fetched", !.doc = key]]
    /\ UNCHANGED <<account, tokens, browser, edge>>

\* What the token is worth with these keys: its claims, "expired", "invalid".
verify(p, keys) ==
    IF p = NoPair THEN "missing"
    ELSE IF p.kid \notin keys THEN "invalid" ELSE IF p.id \in expired THEN "expired" ELSE "valid"

\* The proxy's decision: refuse, or rate-limit and forward.
Verdict(c, worth) ==
    \/ /\ worth # "valid" /\ NeedsAuth(c)
       /\ calls' = [calls EXCEPT ![c].pc = IF worth = "expired" THEN "expired" ELSE "refused"]
       /\ UNCHANGED hits
    \/ /\ worth = "valid" \/ ~NeedsAuth(c)
       /\ LET ctx == IF worth = "valid" THEN calls[c].pair.claims ELSE Anonymous
              seen == get_auth_context(Forwarded([sub |-> "someone", roles |-> {"system"}], ctx))
          IN  \/ /\ Spend(Class(c), Scope(ctx), TRUE)
                 /\ calls' = [calls EXCEPT ![c] = Request("serve", @.route, @.pair, @.retry, 0, seen, FALSE)]
              \/ /\ Spend(Class(c), Scope(ctx), FALSE)
                 /\ calls' = [calls EXCEPT ![c].pc = "limited"]

\* With keys at hand, or clamped from asking again.
Decide(c) ==
    /\ calls[c].pc = "edge" /\ (calls[c].pair = NoPair \/ ~KeysMissing(calls[c].pair))
    /\ Verdict(c, verify(calls[c].pair, jwks.keys))
    /\ UNCHANGED <<account, tokens, browser, jwks, cast>>
\* With the fetched document, which replaces the cache...
DecideFetched(c) ==
    /\ calls[c].pc = "fetched"
    /\ jwks' = Cache({calls[c].doc}, "clamped")
    /\ Verdict(c, verify(calls[c].pair, {calls[c].doc}))
    /\ UNCHANGED <<account, tokens, browser, cast>>
\* ... or with a fetch that failed: an error, or anonymous on a public route.
KeysUnreachable(c) ==
    /\ calls[c].pc = "fetch"
    /\ IF NeedsAuth(c) THEN calls' = [calls EXCEPT ![c] = Idle] /\ UNCHANGED hits
       ELSE Verdict(c, "missing")
    /\ UNCHANGED <<account, tokens, browser, jwks, cast>>

\* 401 with AUTH_TOKEN_EXPIRED: refresh and retry, once. Any other refusal is
\* reported.
Refused(c) ==
    /\ calls[c].pc \in {"expired", "refused", "limited"}
    /\ IF calls[c].pc = "expired" /\ calls[c].retry
         THEN calls' = [calls EXCEPT ![c].pc = "await"] /\ JoinRefresh(TabOf[c])
         ELSE calls' = [calls EXCEPT ![c] = Idle] /\ UNCHANGED flight
    /\ UNCHANGED <<account, tokens, mem, stored, edge>>

\* The service answers. Onboarding mints the brand and asks for the grant,
\* which fails for good (a rider), for now, or goes through.
Serve(c) ==
    /\ calls[c].pc = "serve"
    /\ \/ /\ calls' = [calls EXCEPT ![c] = Idle]
          /\ branded' \in {branded, branded \/ calls[c].route = "onboard"} /\ UNCHANGED granting
       \/ /\ calls[c].route = "onboard" /\ GrantIn("admin")
          /\ calls' = [calls EXCEPT ![c].pc = "grant"]
          /\ granting' = [granting EXCEPT ![c] = "admin"]
          /\ branded' = TRUE
    /\ UNCHANGED <<user, addresses, adding, processed, crossed, tokens, browser, edge>>
\* onboardRestaurant: the grant is written, and the tab refreshes its claims.
Granted(c) ==
    /\ calls[c].pc = "grant"
    /\ user' = Write(c) /\ crossed' = (crossed \/ Crosses(c))
    /\ granting' = [granting EXCEPT ![c] = "no"]
    /\ calls' = [calls EXCEPT ![c] = [@ EXCEPT !.pc = "settle", !.joined = flight[TabOf[c]].pc # "none"]]
    /\ JoinRefresh(TabOf[c])
    /\ UNCHANGED <<addresses, adding, branded, processed, tokens, mem, stored, edge>>
\* onboardRestaurant returned: the app goes to the dashboard.
Onboarded(c) ==
    /\ calls[c].pc = "back"
    /\ calls' = [calls EXCEPT ![c] = Idle]
    /\ UNCHANGED <<account, tokens, browser, edge>>

-----------------------------------------------------------------------------
(* Time and operations.                                                    *)

TokenExpires ==
    /\ \E n \in {mem[t].id : t \in Tabs} \ {0} : n \notin expired /\ expired' = expired \cup {n}
    /\ UNCHANGED <<account, sess, key, trouble, browser, calls, edge>>
SessionExpires ==
    /\ "thirty_days" \in cast.events
    /\ \E s \in DOMAIN sess :
         /\ sess[s].tok # 0 /\ ~sess[s].expired
         /\ sess' = [sess EXCEPT ![s] = Session(@.tok, TRUE)]
    /\ trouble' = TRUE
    /\ UNCHANGED <<account, expired, key, browser, calls, edge>>
\* Five seconds, then the cache's ten minutes.
CacheAges ==
    /\ jwks.age # "stale" /\ "age" \in cast.events
    /\ jwks' = Cache(jwks.keys, IF jwks.age = "clamped" THEN "fresh" ELSE "stale")
    /\ UNCHANGED <<account, tokens, browser, calls, hits, cast>>
WindowRolls ==
    /\ \E k \in DOMAIN hits : hits[k] > 0
    /\ hits' = [k \in DOMAIN hits |-> 0]
    /\ UNCHANGED <<account, tokens, browser, calls, jwks, cast>>
\* Identity is restarted with the next signing key.
load_or_generate ==
    /\ "age" \in cast.events
    /\ \E k \in Keys : k > key /\ key' = k
    /\ UNCHANGED <<account, sess, expired, trouble, browser, calls, edge>>

-----------------------------------------------------------------------------
RefreshStep(t) == refresh(t) \/ rotate_session(t) \/ SettleRefresh(t)
CallStep(c) == \/ AskForKeys(c) \/ jwks_doc(c) \/ Decide(c) \/ DecideFetched(c)
               \/ Refused(c) \/ Serve(c) \/ Granted(c) \/ Onboarded(c)

IdentityNext ==
    \/ register
    \/ \E t \in Tabs : \/ login(t) \/ logout(t) \/ Reload(t)
                       \/ RefreshStep(t) \/ RefreshTurnedAway(t) \/ AnswerLost(t)
    \/ \E c \in Calls : CallStep(c) \/ KeysUnreachable(c) \/ \E r \in Routes : request(c, r)
    \/ \E g \in Riders : RiderRequest(g)
    \/ ConvergeGrant \/ ConsumerDies
    \/ \E a \in Adders : AddressRequest(a)
    \/ TokenExpires \/ SessionExpires \/ CacheAges \/ WindowRolls \/ load_or_generate

\* Requests that were sent are answered one way or another; the consumer
\* reads its topic, and does not die for ever.
IdentityFairness ==
    /\ \A t \in Tabs : WF_identity(RefreshStep(t))
    /\ \A c \in Calls : WF_identity(CallStep(c))
    /\ SF_identity(ConvergeGrant /\ user' # user) /\ WF_identity(ConvergeGrant)

IdentitySpec == IdentityInit /\ [][IdentityNext]_identity /\ IdentityFairness

-----------------------------------------------------------------------------
(* Properties.                                                             *)

Grantable == {"customer", "restaurant_admin", "rider"}
ClaimSet == {Anonymous} \cup [sub : {Sub}, roles : SUBSET Grantable, restaurant_id : {BrandId, None},
                              rider_id : {Sub, None}]
Pairs == {NoPair} \cup [id : Toks, claims : ClaimSet, kid : Keys]

\* Type correctness of every variable.
IdentityTypeOK ==
    /\ user \in [there : BOOLEAN, roles : SUBSET Grantable, brand : {BrandId, None}, rider : BOOLEAN]
    /\ addresses \subseteq AddrIds /\ adding \in [Adders -> {"idle", "counted", "absent"}]
    /\ sess \in [1..MaxSessions -> [tok : Toks \cup {0}, expired : BOOLEAN]]
    /\ expired \subseteq Toks /\ key \in Keys
    /\ granting \in [Grantors -> {"no", "admin", "rider", "mark", "absent"}]
    /\ branded \in BOOLEAN /\ processed \in BOOLEAN /\ trouble \in BOOLEAN /\ crossed \in BOOLEAN
    /\ mem \in [Tabs -> Pairs] /\ stored \in Pairs
    /\ \A t \in Tabs :
         /\ flight[t].pc \in {"none", "sent", "read", "done", "lost", "refused", "turned_away"}
         /\ flight[t].tok \in Toks \cup {0} /\ flight[t].pair \in Pairs
         /\ flight[t].pc = "read" => flight[t].sid \in 1..MaxSessions
    /\ \A c \in Calls :
         /\ calls[c].pc \in {"idle", "absent", "edge", "fetch", "fetched", "expired", "refused", "limited", "await",
                            "serve", "grant", "settle", "back"}
         /\ calls[c].pair \in Pairs /\ calls[c].ctx \in ClaimSet
    /\ jwks \in [keys : SUBSET Keys, age : {"clamped", "fresh", "stale"}]
    /\ \A k \in DOMAIN hits : hits[k] \in 0..Limit[k[1]]

\* The identity a service acts on was verified: the roles and scopes it is
\* shown are the user's own by rows that are there, a protected route always
\* has a subject, and identity headers the client sent are never among them.
ServiceSeesVerified ==
    \A c \in Calls : calls[c].pc \in {"serve", "grant"} =>
      /\ calls[c].ctx = Anonymous => ~NeedsAuth(c)
      /\ calls[c].ctx.roles \subseteq user.roles
      /\ calls[c].ctx.restaurant_id \in {None, user.brand}
      /\ calls[c].ctx.rider_id = Sub => user.rider

\* An owner's role comes with a brand and a rider's with a riders row, and
\* nobody is both; excepted are the two grants running at once.
RoleClasses ==
    /\ "restaurant_admin" \in user.roles <=> user.brand = BrandId
    /\ "rider" \in user.roles <=> user.rider
    /\ {"rider", "restaurant_admin"} \subseteq user.roles => crossed

\* Nobody is signed out by accident: apart from the button and a page load,
\* a tab loses its session only when its refresh token died elsewhere (a
\* second tab, a lost answer, its 30 days) or the edge turned it away.
KeptSignedIn ==
    [][\A t \in Tabs : mem[t].id # 0 /\ mem'[t].id = 0 =>
         trouble \/ flight[t].pc = "turned_away" \/ logout(t) \/ Reload(t)]_identity

\* After onboarding returns, the tab's claims carry the new role; excepted is
\* a refresh that was under way when the grant landed.
OnboardedIsOwner ==
    \A c \in Calls : calls[c].pc = "back" =>
      "restaurant_admin" \in calls[c].pair.claims.roles \/ calls[c].joined

\* A token of the current key is turned down as unknown for no longer than
\* the edge is clamped from fetching the keys.
RotationConverges ==
    [][\A c \in Calls : calls[c].pc \in {"edge", "fetched"} /\ calls'[c].pc = "refused" =>
         calls[c].pair = NoPair \/ calls[c].pair.kid # key \/ jwks'.age = "clamped"]_identity

\* Concurrent additions pass the cap by fewer than there are requests.
AddressesBounded == Cardinality(addresses) < MaxAddresses + Cardinality(Adders)

\* Every request comes back, whatever is refreshed, retried or refused.
CallsReturn == \A c \in Calls : calls[c].pc = "edge" ~> calls[c].pc \in {"idle", "absent"}

\* The owner of a brand gets the role even if the grant in the request was
\* lost, unless they are a rider.
GrantConverges ==
    (branded /\ granting[Consumer] # "absent") ~> user.roles \cap {"restaurant_admin", "rider"} # {}
=============================================================================
