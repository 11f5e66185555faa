------------------------------ MODULE Presence ------------------------------
(***************************************************************************)
(* A rider's presence: rider_state.status is the record, Redis the index   *)
(* the offer cascade searches.  Going online writes both; after that only  *)
(* GPS pings over the rider socket keep the index alive, and the gateway   *)
(* accepts the socket by the claims of the rider's access token.           *)
(***************************************************************************)
EXTENDS Naturals

CONSTANTS
    Riders,
    LOC_TTL, HB_TTL     \* lifetimes of the two keys, in ticks of 30 s (1 and 3)

VARIABLES
    status,     \* rider_state.status
    pin,        \* members of the GEO set
    loc, hb,    \* ticks the position and the heartbeat key have left
    request,    \* a status request between its two writes
    socket      \* the console's socket: "off", "connecting", "open", "retry"

vars == <<status, pin, loc, hb, request, socket>>

Init ==
    /\ status = [r \in Riders |-> "offline"]
    /\ pin = {}
    /\ loc = [r \in Riders |-> 0] /\ hb = [r \in Riders |-> 0]
    /\ request = [r \in Riders |-> "none"]
    /\ socket = [r \in Riders |-> "off"]

\* TokenIssuer.issue for a rider: the held roles, as a list.
issue(r) == [sub |-> r, roles |-> {"rider"}, rider_id |-> r]

\* _authenticate after the signature: the claim it asks for.
_authenticate(claims) == "role" \in DOMAIN claims /\ claims["role"] = "rider"

\* The console waits for one status request before it sends the next.
set_status(r) ==
    /\ request[r] = "none"
    /\ status' = [status EXCEPT ![r] = IF @ = "offline" THEN "online" ELSE "offline"]
    /\ request' = [request EXCEPT ![r] = IF status[r] = "offline" THEN "update" ELSE "remove"]
    /\ UNCHANGED <<pin, loc, hb, socket>>

\* RiderGeo.update and LocationIngest.ping: the same three keys.
Fix(r) ==
    /\ pin' = pin \cup {r}
    /\ loc' = [loc EXCEPT ![r] = LOC_TTL]
    /\ hb' = [hb EXCEPT ![r] = HB_TTL]

go_online(r) ==
    /\ request[r] = "update" /\ Fix(r)
    /\ request' = [request EXCEPT ![r] = "none"]
    /\ socket' = [socket EXCEPT ![r] = "connecting"]
    /\ UNCHANGED status

go_offline(r) ==
    /\ request[r] = "remove"
    /\ pin' = pin \ {r}
    /\ loc' = [loc EXCEPT ![r] = 0] /\ hb' = [hb EXCEPT ![r] = 0]
    /\ request' = [request EXCEPT ![r] = "none"]
    /\ socket' = [socket EXCEPT ![r] = "off"]
    /\ UNCHANGED status

\* The handshake: accepted, or closed with 4401 and tried again in 3 s.
rider_socket(r) ==
    /\ socket[r] = "connecting"
    /\ socket' = [socket EXCEPT ![r] = IF _authenticate(issue(r)) THEN "open" ELSE "retry"]
    /\ UNCHANGED <<status, pin, loc, hb, request>>

reconnect(r) ==
    /\ socket[r] = "retry"
    /\ socket' = [socket EXCEPT ![r] = "connecting"]
    /\ UNCHANGED <<status, pin, loc, hb, request>>

\* 30 s pass: longer than a handshake.  An open socket pings every second.
Tick ==
    /\ \A r \in Riders : socket[r] # "connecting"
    /\ loc' = [r \in Riders |-> IF socket[r] = "open" THEN LOC_TTL ELSE IF loc[r] > 0 THEN loc[r] - 1 ELSE 0]
    /\ hb' = [r \in Riders |-> IF socket[r] = "open" THEN HB_TTL ELSE IF hb[r] > 0 THEN hb[r] - 1 ELSE 0]
    /\ pin' = pin \cup {r \in Riders : socket[r] = "open"}
    /\ UNCHANGED <<status, request, socket>>

\* RiderGeo.search: pinned and beating.
search == {r \in pin : hb[r] > 0}

Next ==
    \/ Tick
    \/ \E r \in Riders : \/ set_status(r) \/ go_online(r) \/ go_offline(r)
                         \/ rider_socket(r) \/ reconnect(r)

Spec == Init /\ [][Next]_vars

(* A rider who is online, with the console open and polling, is found by the  *)
(* search: "a dead socket costs latency, not correctness" (rider-gateway's    *)
(* main.py), "kill the socket and the console keeps working, offers included" *)
(* (RiderConsole.tsx).                                                        *)
OnlineIsFound ==
    \A r \in Riders : status[r] = "online" /\ request[r] = "none" => r \in search
=============================================================================
