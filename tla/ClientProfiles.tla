---------------------------- MODULE ClientProfiles ----------------------------
(***************************************************************************)
(* The per-client allow and deny lists (table client_profiles), as the     *)
(* POST route of phase5/backend/app.py edits them: Flask runs each request *)
(* in a thread of its own, the route SELECTs the client's row, edits a     *)
(* copy and hands the whole row to Database.set_profile, which replaces it.*)
(* Only the REPLACE is under a lock.                                       *)
(*                                                                         *)
(* A row is its two sets of domains: an absent row reads as two empty ones *)
(* and profile_name is never anything but 'default' here.                  *)
(***************************************************************************)
EXTENDS Naturals

CONSTANTS
    Client,     \* identifiers rows are keyed by: IP addresses, device names
    Domain,     \* the domains users list
    Handler,    \* the request threads
    MaxRequest  \* bound: requests made

ASSUME RequestAssumption == MaxRequest \in Nat

ListName == {"allow", "deny"}
Lists    == [ListName -> SUBSET Domain]
Empty    == [l \in ListName |-> {}]
Request  == [client : Client, action : {"add", "remove"},
             list : ListName, domain : Domain]

VARIABLES
    table,    \* client_profiles
    pc,       \* "idle" or "write", per request thread
    req,      \* the request a thread serves
    row,      \* the row it read
    acked,    \* history: what the requests answered 'ok' amount to
    shared,   \* history: the clients that had two requests in progress at once
    requests  \* requests made so far

vars == <<table, pc, req, row, acked, shared, requests>>
-----------------------------------------------------------------------------
NoRequest == [action |-> "none"]

Init ==
    /\ table = [c \in Client |-> Empty] /\ acked = table
    /\ pc = [h \in Handler |-> "idle"]
    /\ req = [h \in Handler |-> NoRequest]
    /\ row = [h \in Handler |-> Empty]
    /\ shared = {} /\ requests = 0

\* the edited copy of a row
Edited(lists, r) ==
    [lists EXCEPT ![r.list] =
        IF r.action = "add" THEN @ \cup {r.domain} ELSE @ \ {r.domain}]

\* already_present, not_found: answered without a write
Needless(lists, r) == Edited(lists, r) = lists

\* fault: the thread goes on with the request it served before
StaleRequest(h, r) ==
    /\ pc[h] = "idle" /\ requests < MaxRequest
    /\ requests' = requests + 1
    /\ ~Needless(table[r.client], r)
    /\ pc'  = [pc EXCEPT ![h] = "write"]
    /\ row' = [row EXCEPT ![h] = table[r.client]]
    /\ UNCHANGED <<table, req, acked, shared>>

\* SELECT the row; edit it unless there is nothing to do
Receive(h, r) ==
    /\ pc[h] = "idle" /\ requests < MaxRequest
    /\ requests' = requests + 1
    /\ IF Needless(table[r.client], r)
       THEN UNCHANGED <<pc, req, row, shared>>
       ELSE /\ pc'  = [pc EXCEPT ![h] = "write"]
            /\ req' = [req EXCEPT ![h] = r]
            /\ row' = [row EXCEPT ![h] = table[r.client]]
            /\ shared' = IF \E g \in Handler : pc[g] = "write"
                                               /\ req[g].client = r.client
                         THEN shared \cup {r.client} ELSE shared
    /\ UNCHANGED <<table, acked>>

\* fault: only the edited list is passed to set_profile
OtherListLost(h) ==
    LET r == req[h] IN
    /\ pc[h] = "write"
    /\ table' = [table EXCEPT ![r.client] =
                   [Empty EXCEPT ![r.list] = Edited(row[h], r)[r.list]]]
    /\ acked' = [acked EXCEPT ![r.client] = Edited(@, r)]
    /\ pc' = [pc EXCEPT ![h] = "idle"]
    /\ UNCHANGED <<req, row, shared, requests>>

\* set_profile: INSERT OR REPLACE the whole row; the answer is 'ok'
SetProfile(h) ==
    LET r == req[h] IN
    /\ pc[h] = "write"
    /\ table' = [table EXCEPT ![r.client] = Edited(row[h], r)]
    /\ acked' = [acked EXCEPT ![r.client] = Edited(@, r)]
    /\ pc' = [pc EXCEPT ![h] = "idle"]
    /\ UNCHANGED <<req, row, shared, requests>>

Next == \E h \in Handler : SetProfile(h) \/ \E r \in Request : Receive(h, r)

Spec == Init /\ [][Next]_vars
-----------------------------------------------------------------------------
\* Rows and copies of rows are two sets of domains, and a thread about to
\* write has a request to write for.
TypeOK ==
    /\ table \in [Client -> Lists] /\ acked \in [Client -> Lists]
    /\ pc \in [Handler -> {"idle", "write"}]
    /\ req \in [Handler -> Request \cup {NoRequest}]
    /\ row \in [Handler -> Lists]
    /\ shared \subseteq Client /\ requests \in 0 .. MaxRequest
    /\ \A h \in Handler : pc[h] = "write" => req[h] \in Request

\* A client whose requests never overlapped has exactly the lists its answered
\* requests add up to, however requests for other clients interleave with them
\* and whichever threads served them: the whole-row REPLACE loses nothing.
SerialUpdatesKept ==
    \A c \in Client : c \notin shared => table[c] = acked[c]

\* The route's docstring without that restriction: an answered request has
\* added or removed its domain ("Add or remove a domain from this client's
\* allowlist or denylist", phase5/backend/app.py:141).
UpdatesKept == \A c \in Client : table[c] = acked[c]
=============================================================================
