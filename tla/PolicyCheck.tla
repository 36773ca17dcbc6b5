----------------------------- MODULE PolicyCheck -----------------------------
(***************************************************************************)
(* FilteringEngine.check (filtering.py) and the BlocklistManager.match it  *)
(* ends in (blocklist_manager.py), as the resolver threads of one process  *)
(* run them while the client's lists and the registry change under them.   *)
(*                                                                         *)
(* A domain is the sequence of its labels, most specific first, already    *)
(* lower-cased and without the final dot.  The merged index is transposed: *)
(* entries[l] is the set of domains that carry list l's bit.  The names    *)
(* of the matching lists stand as the set of those lists.                  *)
(***************************************************************************)
EXTENDS Naturals, Sequences

CONSTANTS
    Resolver,   \* the threads that answer queries
    Client,     \* the clients the database may have a row for
    NoClient,   \* check() called without a client_ip
    List,       \* the registered blocklists
    Name,       \* the domains asked about and listed
    Localhost,  \* self.allowlist, the engine's fixed one
    Denylist,   \* the answer's blocked_by for a per-client deny
    Row,        \* the rows the clients' edits leave in client_profiles
    Registry,   \* the registry states the process goes through
    MaxChange   \* bound: edits of client lists and registry changes

ASSUME NameAssumption  == Name \subseteq Seq(STRING) \ {<<>>}
ASSUME TokenAssumption == Denylist \notin List /\ NoClient \notin Client
ASSUME RowAssumption == Row \subseteq [allow : SUBSET Name, deny : SUBSET Name]
ASSUME RegistryAssumption ==
    Registry \subseteq [entries : [List -> SUBSET Name], enabled : SUBSET List]
ASSUME BoundAssumption == MaxChange \in Nat

Question   == [name : Name, client : Client \cup {NoClient}]
NoLists    == [allow |-> {}, deny |-> {}]
NoQuestion == [name |-> <<>>, client |-> NoClient]
Verdict    == [blocked : BOOLEAN, by : SUBSET (List \cup {Denylist})]

VARIABLES
    profiles, \* client_profiles, as get_profile returns its rows
    registry, \* self._index and self._enabled_mask
    lock,     \* the resolver threads inside match(), which takes the lock
    pc,       \* "idle", "profile", "match", "walk" or "answered"
    question, \* what each resolver thread was asked last
    i,        \* the label match() has reached
    verdict,  \* the last answer of each thread
    lawful,   \* history: the policy's answers since the question was put
    moved,    \* history: what changed under the question
    changes   \* changes so far

policy  == <<profiles, registry>>
thread  == <<pc, question, i, verdict>>
history == <<lawful, moved>>
vars    == <<policy, lock, thread, history, changes>>

Allowed    == [blocked |-> FALSE, by |-> {}]
Blocked(S) == [blocked |-> TRUE, by |-> S]
-----------------------------------------------------------------------------
(***************************************************************************)
(* The policy itself, as README.md:65-68 and the docstrings of check and   *)
(* match give it: per-client allow, then per-client deny, then the most    *)
(* specific parent domain that an enabled list has.                        *)
(***************************************************************************)
Suffix(name, k) == SubSeq(name, k, Len(name))

\* the enabled lists that have the parent domain of name from label k on
Hits(name, k) ==
    {l \in registry.enabled : Suffix(name, k) \in registry.entries[l]}

Covered(name) == {k \in 1 .. Len(name) : Hits(name, k) # {}}

Least(S) == CHOOSE k \in S : \A j \in S : k <= j

RegistryVerdict(name) ==
    IF Covered(name) = {} THEN Allowed ELSE Blocked(Hits(name, Least(Covered(name))))

ListsOf(c)   == IF c = NoClient THEN NoLists ELSE profiles[c]
Undecided(q) == q.name \notin ListsOf(q.client).allow
                              \cup ListsOf(q.client).deny \cup Localhost

\* what the lists of the client and the engine's own allowlist say
ProfileVerdict(q) ==
    IF q.name \notin ListsOf(q.client).allow /\ q.name \in ListsOf(q.client).deny
    THEN Blocked({Denylist}) ELSE Allowed

PolicyVerdict(q) ==
    IF Undecided(q) THEN RegistryVerdict(q.name) ELSE ProfileVerdict(q)
-----------------------------------------------------------------------------
Init ==
    /\ profiles = [c \in Client |-> NoLists]
    /\ registry \in Registry
    /\ lock = {}
    /\ pc = [r \in Resolver |-> "idle"]
    /\ question = [r \in Resolver |-> NoQuestion]
    /\ i = [r \in Resolver |-> 1]
    /\ verdict = [r \in Resolver |-> Allowed]
    /\ lawful = [r \in Resolver |-> {}] /\ moved = lawful
    /\ changes = 0

\* a transport calls check(); an identifier of a device counts as its client
Ask(r, q) ==
    /\ pc[r] \in {"idle", "answered"}
    /\ pc' = [pc EXCEPT ![r] = "profile"]
    /\ question' = [question EXCEPT ![r] = q]
    /\ lawful' = [lawful EXCEPT ![r] = {PolicyVerdict(q)}]
    /\ moved'  = [moved EXCEPT ![r] = {}]
    /\ UNCHANGED <<policy, lock, i, verdict, changes>>

Answer(r, v) ==
    /\ pc' = [pc EXCEPT ![r] = "answered"]
    /\ verdict' = [verdict EXCEPT ![r] = v]

\* get_profile, then every test of check() that precedes the registry
CheckProfile(r) ==
    LET q == question[r] lists == ListsOf(q.client) IN
    /\ pc[r] = "profile"
    /\ \/ q.name \in lists.allow /\ Answer(r, Allowed)
       \/ /\ q.name \in lists.deny \ lists.allow
          /\ Answer(r, Blocked({Denylist}))
       \/ /\ q.name \in Localhost \ (lists.allow \cup lists.deny)
          /\ Answer(r, Allowed)
       \/ /\ Undecided(q)
          /\ pc' = [pc EXCEPT ![r] = "match"] /\ UNCHANGED verdict
    /\ UNCHANGED <<policy, lock, question, i, history, changes>>

\* match(): `with self.lock`, and the walk starts at the whole name
BeginMatch(r) ==
    /\ pc[r] = "match" /\ lock = {}
    /\ lock' = {r}
    /\ pc' = [pc EXCEPT ![r] = "walk"] /\ i' = [i EXCEPT ![r] = 1]
    /\ UNCHANGED <<policy, question, verdict, history, changes>>

\* fault: the walk goes one label too far
PastTheEnd(r) ==
    LET name == question[r].name IN
    /\ pc[r] = "walk"
    /\ \/ /\ i[r] <= Len(name) /\ Hits(name, i[r]) # {}
          /\ Answer(r, Blocked(Hits(name, i[r])))
          /\ lock' = {} /\ UNCHANGED i
       \/ /\ i[r] > Len(name) /\ Answer(r, Allowed)
          /\ lock' = {} /\ UNCHANGED i
       \/ /\ i[r] <= Len(name) /\ Hits(name, i[r]) = {}
          /\ i' = [i EXCEPT ![r] = @ + 1] /\ UNCHANGED <<pc, verdict, lock>>
    /\ UNCHANGED <<policy, question, history, changes>>

\* one turn of match()'s loop
Walk(r) ==
    LET name == question[r].name hit == Hits(name, i[r]) IN
    /\ pc[r] = "walk"
    /\ \/ hit # {} /\ Answer(r, Blocked(hit)) /\ lock' = {} /\ UNCHANGED i
       \/ /\ hit = {} /\ i[r] = Len(name)
          /\ Answer(r, Allowed) /\ lock' = {} /\ UNCHANGED i
       \/ /\ hit = {} /\ i[r] < Len(name)
          /\ i' = [i EXCEPT ![r] = @ + 1] /\ UNCHANGED <<pc, verdict, lock>>
    /\ UNCHANGED <<policy, question, history, changes>>
-----------------------------------------------------------------------------
(***************************************************************************)
(* What changes under a question: a client's row, replaced as a whole by   *)
(* set_profile, and the registry, whose index and mask every path of the   *)
(* manager replaces together under the lock.                               *)
(***************************************************************************)
Asking(r) == pc[r] \in {"profile", "match", "walk"}

\* what changed, under the questions of which resolvers
Record(what, under) ==
    /\ lawful' = [r \in Resolver |->
                    IF Asking(r) THEN lawful[r] \cup {PolicyVerdict(question[r])'}
                    ELSE lawful[r]]
    /\ moved'  = [r \in Resolver |->
                    IF Asking(r) /\ r \in under THEN moved[r] \cup {what}
                    ELSE moved[r]]

EditProfile(c, lists) ==
    /\ changes < MaxChange /\ changes' = changes + 1
    /\ profiles' = [profiles EXCEPT ![c] = lists]
    /\ UNCHANGED <<registry, lock, thread>>
    /\ Record("profile", {r \in Resolver : question[r].client = c})

\* fault: the index is replaced without the lock
UnlockedInstall(new) ==
    /\ changes < MaxChange /\ changes' = changes + 1
    /\ registry' = new
    /\ UNCHANGED <<profiles, lock, thread>>
    /\ Record("registry", Resolver)

Install(new) ==
    /\ lock = {}
    /\ changes < MaxChange /\ changes' = changes + 1
    /\ registry' = new
    /\ UNCHANGED <<profiles, lock, thread>>
    /\ Record("registry", Resolver)

Next ==
    \/ \E r \in Resolver :
         \/ \E q \in Question : Ask(r, q)
         \/ CheckProfile(r) \/ BeginMatch(r) \/ Walk(r)
    \/ \E c \in Client, lists \in Row : EditProfile(c, lists)
    \/ \E new \in Registry : Install(new)

Spec == Init /\ [][Next]_vars
-----------------------------------------------------------------------------
\* The variables have the shape the code gives them; match() is inside the
\* lock and looks at labels the name has.
TypeOK ==
    /\ profiles \in [Client -> Row \cup {NoLists}] /\ registry \in Registry
    /\ lock \in {{}} \cup {{r} : r \in Resolver}
    /\ pc \in [Resolver -> {"idle", "profile", "match", "walk", "answered"}]
    /\ question \in [Resolver -> Question \cup {NoQuestion}]
    /\ i \in [Resolver -> Nat \ {0}] /\ verdict \in [Resolver -> Verdict]
    /\ lawful \in [Resolver -> SUBSET Verdict]
    /\ moved \in [Resolver -> SUBSET {"profile", "registry"}]
    /\ changes \in 0 .. MaxChange
    /\ \A r \in Resolver :
         /\ Asking(r) => question[r] \in Question
         /\ pc[r] = "walk" <=> r \in lock
         /\ pc[r] = "walk" => i[r] <= Len(question[r].name)

\* check() reads the client's lists and the registry at two moments and walks
\* the name label by label, yet as long as not both of them change meanwhile
\* its answer, blocked or not and by which lists, is what README.md:65-68
\* prescribes for some single moment of the query.
AnswerIsLawful ==
    \A r \in Resolver :
      pc[r] = "answered" /\ moved[r] # {"profile", "registry"}
        => verdict[r] \in lawful[r]
=============================================================================
