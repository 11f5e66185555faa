----------------------------- MODULE MCIdentity -----------------------------
(***************************************************************************)
(* Identity with two tabs of one browser. The casts: one tab with two      *)
(* requests; two tabs; a rider grant beside an onboarding and the          *)
(* consumer; a key rotation; an armed limiter; two address requests.       *)
(***************************************************************************)
EXTENDS Identity

c_TabOf == [c \in {"c1", "c2", "c3"} |-> IF c = "c3" THEN "t2" ELSE "t1"]
Cast(plan, who, events) == [plan |-> plan, who |-> who, events |-> events]
c_Casts == {Cast([c1 |-> {"onboard"}, c2 |-> {"orders"}], {}, {}),
            Cast([c1 |-> {"orders"}, c3 |-> {"orders"}], {}, {"reload"}),
            Cast([c1 |-> {"orders"}], {}, {"reload", "logout", "thirty_days", "outage"}),
            Cast([c1 |-> {"onboard"}], {"k", "g"}, {}),
            Cast([c1 |-> {"orders", "browse"}], {}, {"age"}),
            Cast([c1 |-> {"orders", "browse"}], {}, {"redis"}),
            Cast(<<>>, {"a1", "a2"}, {})}
c_Limit == [auth |-> 1, read |-> 1, write |-> 1]
=============================================================================
