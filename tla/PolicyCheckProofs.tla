-------------------------- MODULE PolicyCheckProofs --------------------------
(***************************************************************************)
(* Proofs about PolicyCheck, for every set of domains, lists, clients and  *)
(* resolver threads.                                                       *)
(***************************************************************************)
EXTENDS PolicyCheck, TLAPS

(***************************************************************************)
(* The policy gives verdicts.                                              *)
(***************************************************************************)
\* A position no other of a set precedes is the least one.
LEMMA LeastIs ==
    ASSUME NEW S \in SUBSET Nat, NEW k \in S, \A j \in S : k <= j
    PROVE  Least(S) = k
<1>1. \A m \in S : (\A j \in S : m <= j) => m = k
    OBVIOUS
<1> QED BY <1>1 DEF Least

LEMMA NameLength == \A name \in Name : Len(name) \in Nat \ {0}
BY NameAssumption

\* a hit on no earlier label is the most specific one
LEMMA FirstHit ==
    ASSUME NEW name \in Name, NEW k \in 1 .. Len(name), Hits(name, k) # {},
           \A j \in 1 .. k - 1 : Hits(name, j) = {}
    PROVE  RegistryVerdict(name) = Blocked(Hits(name, k))
<1>1. k \in Covered(name) /\ Covered(name) \in SUBSET Nat
    BY DEF Covered
<1>2. \A j \in Covered(name) : k <= j
    BY NameLength DEF Covered
<1>3. Least(Covered(name)) = k
    BY <1>1, <1>2, LeastIs
<1> QED BY <1>1, <1>3 DEF RegistryVerdict

LEMMA RegistryVerdictType ==
    ASSUME NEW name \in Name, registry \in Registry
    PROVE  RegistryVerdict(name) \in Verdict
<1>1. registry.enabled \subseteq List
    BY RegistryAssumption
<1> QED BY <1>1 DEF RegistryVerdict, Hits, Allowed, Blocked, Verdict

LEMMA PolicyVerdictType ==
    registry \in Registry => \A q \in Question : PolicyVerdict(q) \in Verdict
<1> SUFFICES ASSUME registry \in Registry, NEW q \in Question
             PROVE  PolicyVerdict(q) \in Verdict
    OBVIOUS
<1>1. q.name \in Name
    BY DEF Question
<1>2. ProfileVerdict(q) \in Verdict
    BY DEF ProfileVerdict, Allowed, Blocked, Verdict
<1> QED BY <1>1, <1>2, RegistryVerdictType DEF PolicyVerdict

\* The policy answers of a state depend on nothing but profiles and registry.
LEMMA SameRegistry ==
    ASSUME NEW name, registry' = registry
    PROVE  RegistryVerdict(name)' = RegistryVerdict(name)
BY DEF RegistryVerdict, Covered, Hits

LEMMA SamePolicy ==
    ASSUME NEW q, UNCHANGED policy
    PROVE  /\ PolicyVerdict(q)' = PolicyVerdict(q)
           /\ Undecided(q)' = Undecided(q)
           /\ RegistryVerdict(q.name)' = RegistryVerdict(q.name)
<1>1. registry' = registry /\ profiles' = profiles
    BY DEF policy
<1>2. RegistryVerdict(q.name)' = RegistryVerdict(q.name)
    BY <1>1, SameRegistry
<1>3. Undecided(q)' = Undecided(q) /\ ProfileVerdict(q)' = ProfileVerdict(q)
    BY <1>1 DEF Undecided, ProfileVerdict, ListsOf
<1> QED BY <1>2, <1>3 DEF PolicyVerdict
-----------------------------------------------------------------------------
(***************************************************************************)
(* Type correctness.                                                       *)
(***************************************************************************)
LEMMA TypeInit == Init => TypeOK
<1> SUFFICES ASSUME Init PROVE TypeOK
    OBVIOUS
<1>1. Allowed \in Verdict
    BY DEF Allowed, Verdict
<1> QED BY <1>1, BoundAssumption DEF Init, TypeOK, Asking

\* a change records verdicts, and names of what changed
LEMMA RecordTyped ==
    ASSUME TypeOK, registry' \in Registry, question' = question,
           NEW what \in {"profile", "registry"}, NEW under, Record(what, under)
    PROVE  /\ lawful' \in [Resolver -> SUBSET Verdict]
           /\ moved' \in [Resolver -> SUBSET {"profile", "registry"}]
<1>1. ASSUME NEW r \in Resolver, Asking(r)
      PROVE  PolicyVerdict(question[r])' \in Verdict
  <2>1. question[r] \in Question
      BY <1>1 DEF TypeOK
  <2>2. (registry \in Registry =>
           \A q \in Question : PolicyVerdict(q) \in Verdict)'
      BY PolicyVerdictType, PTL
  <2>3. \A q \in Question : PolicyVerdict(q)' \in Verdict
      BY <2>2 DEF Question, Verdict
  <2> QED BY <2>1, <2>3
<1> QED BY <1>1 DEF Record, TypeOK

LEMMA TypeStep == TypeOK /\ [Next]_vars => TypeOK'
<1> SUFFICES ASSUME TypeOK, [Next]_vars PROVE TypeOK'
    OBVIOUS
<1> USE BoundAssumption
<1>1. CASE UNCHANGED vars
    BY <1>1 DEF TypeOK, Asking, vars, policy, thread, history
<1>2. ASSUME NEW r \in Resolver, NEW q \in Question, Ask(r, q)
      PROVE  TypeOK'
  <2>1. PolicyVerdict(q) \in Verdict
      BY PolicyVerdictType DEF TypeOK
  <2> QED BY <1>2, <2>1 DEF Ask, TypeOK, Asking, policy
<1>3. ASSUME NEW r \in Resolver, CheckProfile(r)
      PROVE  TypeOK'
  <2>1. Allowed \in Verdict /\ Blocked({Denylist}) \in Verdict
      BY DEF Allowed, Blocked, Verdict
  <2>2. verdict' \in [Resolver -> Verdict]
      BY <1>3, <2>1 DEF CheckProfile, Answer, TypeOK
  <2>3. PICK s \in {"match", "answered"} : pc' = [pc EXCEPT ![r] = s]
      BY <1>3 DEF CheckProfile, Answer
  <2>4. UNCHANGED <<policy, lock, question, i, history, changes>>
      BY <1>3 DEF CheckProfile
  <2>5. pc[r] = "profile" /\ r \notin lock
      BY <1>3 DEF CheckProfile, TypeOK
  <2> QED BY <2>2, <2>3, <2>4, <2>5 DEF TypeOK, Asking, policy, history
<1>4. ASSUME NEW r \in Resolver, BeginMatch(r)
      PROVE  TypeOK'
  <2>1. 1 <= Len(question[r].name)
      BY <1>4, NameLength DEF BeginMatch, TypeOK, Asking, Question
  <2> QED BY <1>4, <2>1 DEF BeginMatch, TypeOK, Asking, policy, history
<1>5. ASSUME NEW r \in Resolver, Walk(r)
      PROVE  TypeOK'
  <2>1. Allowed \in Verdict /\ Blocked(Hits(question[r].name, i[r])) \in Verdict
    <3>1. registry.enabled \subseteq List
        BY RegistryAssumption DEF TypeOK
    <3> QED BY <3>1 DEF Allowed, Blocked, Verdict, Hits
  <2>2. Len(question[r].name) \in Nat \ {0}
      BY <1>5, NameLength DEF Walk, TypeOK, Asking, Question
  <2>3. UNCHANGED <<policy, question, history, changes>> /\ lock = {r}
      BY <1>5 DEF Walk, TypeOK
  <2>4. \A s \in Resolver : pc[s] = "walk" <=> s = r
      BY <2>3 DEF TypeOK
  <2>5. CASE /\ pc' = pc /\ verdict' = verdict /\ lock' = lock
             /\ i' = [i EXCEPT ![r] = @ + 1] /\ i[r] < Len(question[r].name)
      BY <2>2, <2>3, <2>4, <2>5 DEF TypeOK, Asking, policy, history
  <2>6. CASE /\ pc' = [pc EXCEPT ![r] = "answered"] /\ lock' = {} /\ i' = i
             /\ verdict' \in [Resolver -> Verdict]
    <3>1. \A s \in Resolver : pc'[s] # "walk"
        BY <2>4, <2>6 DEF TypeOK
    <3>2. \A s \in Resolver : Asking(s)' => Asking(s)
        BY <2>6, <3>1 DEF TypeOK, Asking
    <3> QED BY <2>3, <2>6, <3>1, <3>2 DEF TypeOK, policy, history
  <2>7. CASE \E v \in Verdict : Answer(r, v) /\ lock' = {} /\ i' = i
      BY <2>6, <2>7 DEF Answer, TypeOK
  <2> QED BY <1>5, <2>1, <2>5, <2>7 DEF Walk
<1>6. ASSUME NEW c \in Client, NEW lists \in Row, EditProfile(c, lists)
      PROVE  TypeOK'
  <2>1. registry' \in Registry /\ question' = question
      BY <1>6 DEF EditProfile, TypeOK, thread
  <2>2. /\ lawful' \in [Resolver -> SUBSET Verdict]
        /\ moved' \in [Resolver -> SUBSET {"profile", "registry"}]
      BY <1>6, <2>1, RecordTyped DEF EditProfile
  <2> QED BY <1>6, <2>2 DEF EditProfile, TypeOK, Asking, thread
<1>7. ASSUME NEW new \in Registry, Install(new)
      PROVE  TypeOK'
  <2>1. registry' \in Registry /\ question' = question
      BY <1>7 DEF Install, thread
  <2>2. /\ lawful' \in [Resolver -> SUBSET Verdict]
        /\ moved' \in [Resolver -> SUBSET {"profile", "registry"}]
      BY <1>7, <2>1, RecordTyped DEF Install
  <2> QED BY <1>7, <2>2 DEF Install, TypeOK, Asking, thread
<1> QED BY <1>1, <1>2, <1>3, <1>4, <1>5, <1>6, <1>7 DEF Next

\* match() stays within the name and within the lock, for any names.
THEOREM TypeCorrect == Spec => []TypeOK
BY TypeInit, TypeStep, PTL DEF Spec
-----------------------------------------------------------------------------
(***************************************************************************)
(* The answer.  match() has passed no hit; and unless both the client's    *)
(* lists and the registry have changed under a question, what the registry *)
(* says now has been the whole policy's answer at some moment: the lists   *)
(* decided nothing when they were read and, if they are still the same,    *)
(* decide nothing now; else the registry is still the same.                *)
(***************************************************************************)
Both == {"profile", "registry"}

WalkInv ==
    \A r \in Resolver : pc[r] = "walk" =>
      \A j \in 1 .. i[r] - 1 : Hits(question[r].name, j) = {}

LawfulInv ==
    \A r \in Resolver :
      /\ Asking(r) => PolicyVerdict(question[r]) \in lawful[r]
      /\ pc[r] \in {"match", "walk"} =>
           /\ "profile" \notin moved[r] => Undecided(question[r])
           /\ moved[r] # Both => RegistryVerdict(question[r].name) \in lawful[r]

AnswerInv == TypeOK /\ WalkInv /\ LawfulInv /\ AnswerIsLawful

\* A question that a change meets keeps the lawful answers it had and gains
\* the policy's new one.
LEMMA RecordLawful ==
    ASSUME AnswerInv, NEW what \in Both, NEW under, Record(what, under),
           UNCHANGED thread,
           \A r \in Resolver : Asking(r) /\ r \notin under =>
              ListsOf(question[r].client)' = ListsOf(question[r].client),
           what = "registry" => UNCHANGED profiles /\ under = Resolver,
           what = "profile"  => UNCHANGED registry
    PROVE  LawfulInv' /\ AnswerIsLawful'
<1> USE DEF AnswerInv
<1>1. pc' = pc /\ question' = question /\ verdict' = verdict
    BY DEF thread
<1>2. AnswerIsLawful'
  <2> SUFFICES ASSUME NEW r \in Resolver, pc[r] = "answered", moved'[r] # Both
               PROVE  verdict[r] \in lawful'[r]
      BY <1>1 DEF AnswerIsLawful, Both
  <2>1. lawful'[r] = lawful[r] /\ moved'[r] = moved[r]
      BY DEF Record, Asking
  <2> QED BY <2>1 DEF AnswerIsLawful, Both
<1>3. ASSUME NEW r \in Resolver, Asking(r)
      PROVE  /\ PolicyVerdict(question[r])' \in lawful'[r]
             /\ lawful[r] \subseteq lawful'[r]
             /\ moved'[r] = IF r \in under THEN moved[r] \cup {what} ELSE moved[r]
    BY <1>3 DEF Record
<1>4. ASSUME NEW r \in Resolver, pc[r] \in {"match", "walk"}
      PROVE  /\ "profile" \notin moved'[r] => Undecided(question[r])'
             /\ moved'[r] # Both =>
                  RegistryVerdict(question[r].name)' \in lawful'[r]
  <2>1. Asking(r)
      BY <1>4 DEF Asking
  <2>2. /\ moved[r] \subseteq moved'[r] /\ moved'[r] \subseteq Both
        /\ r \in under => what \in moved'[r]
    <3>1. moved[r] \subseteq Both
        BY DEF TypeOK, Both
    <3> QED BY <1>3, <2>1, <3>1
  <2>3. ASSUME "profile" \notin moved'[r]
        PROVE  Undecided(question[r])'
    <3>1. ListsOf(question[r].client)' = ListsOf(question[r].client)
        BY <1>1, <2>1, <2>2, <2>3 DEF Both, ListsOf
    <3>2. Undecided(question[r])
        BY <1>4, <2>2, <2>3 DEF LawfulInv
    <3> QED BY <1>1, <3>1, <3>2 DEF Undecided
  <2>4. ASSUME moved'[r] # Both
        PROVE  RegistryVerdict(question[r].name)' \in lawful'[r]
    <3>1. CASE "profile" \notin moved'[r]
      <4>1. PolicyVerdict(question[r])' = RegistryVerdict(question[r].name)'
          BY <2>3, <3>1 DEF PolicyVerdict
      <4> QED BY <1>3, <2>1, <4>1
    <3>2. CASE what = "profile"
      <4>1. RegistryVerdict(question[r].name)' = RegistryVerdict(question[r].name)
          BY <1>1, <3>2, SameRegistry
      <4>2. moved[r] # Both
          BY <2>2, <2>4 DEF Both, TypeOK
      <4> QED BY <1>3, <1>4, <2>1, <4>1, <4>2 DEF LawfulInv
    <3>3. CASE what = "registry" /\ "profile" \in moved'[r]
      <4>1. moved'[r] = Both
          BY <2>2, <3>3 DEF Both, TypeOK
      <4> QED BY <4>1, <2>4
    <3> QED BY <3>1, <3>2, <3>3 DEF Both
  <2> QED BY <2>3, <2>4
<1>5. LawfulInv'
    BY <1>1, <1>3, <1>4 DEF LawfulInv, Asking
<1> QED BY <1>2, <1>5
-----------------------------------------------------------------------------
\* The walk leaves only suffixes behind that no enabled list has.
LEMMA WalkStep == TypeOK /\ WalkInv /\ [Next]_vars => WalkInv'
<1> SUFFICES ASSUME TypeOK, WalkInv, [Next]_vars,
                    NEW s \in Resolver, pc'[s] = "walk",
                    NEW j \in 1 .. i'[s] - 1
             PROVE  Hits(question[s].name, j)' = {}
    BY DEF WalkInv
<1>1. ASSUME UNCHANGED <<registry, question, pc, i>>
      PROVE  Hits(question[s].name, j)' = {}
    BY <1>1 DEF WalkInv, Hits
<1>2. CASE UNCHANGED vars
    BY <1>1, <1>2 DEF vars, policy, thread
<1>3. ASSUME NEW r \in Resolver, NEW q \in Question, Ask(r, q)
      PROVE  Hits(question[s].name, j)' = {}
  <2>1. s # r /\ pc[s] = "walk"
      BY <1>3 DEF Ask, TypeOK
  <2> QED BY <1>3, <2>1 DEF Ask, WalkInv, Hits, policy, TypeOK
<1>4. ASSUME NEW r \in Resolver, CheckProfile(r)
      PROVE  Hits(question[s].name, j)' = {}
  <2>1. s # r /\ pc[s] = "walk"
      BY <1>4 DEF CheckProfile, Answer, TypeOK
  <2> QED BY <1>4, <2>1 DEF CheckProfile, WalkInv, Hits, policy
<1>5. ASSUME NEW r \in Resolver, BeginMatch(r)
      PROVE  Hits(question[s].name, j)' = {}
  <2>1. s # r /\ pc[s] = "walk"
      BY <1>5 DEF BeginMatch, TypeOK
  <2> QED BY <1>5, <2>1 DEF BeginMatch, WalkInv, Hits, policy, TypeOK
<1>6. ASSUME NEW r \in Resolver, Walk(r)
      PROVE  Hits(question[s].name, j)' = {}
  <2>1. registry' = registry /\ question' = question /\ pc[s] = "walk"
      BY <1>6 DEF Walk, Answer, TypeOK, policy
  <2>2. s = r
      BY <1>6, <2>1 DEF Walk, TypeOK
  <2>3. i'[s] = i[s] + 1 /\ Hits(question[s].name, i[s]) = {}
      BY <1>6, <2>2 DEF Walk, Answer, TypeOK
  <2>4. i[s] \in Nat /\ (j \in 1 .. i[s] - 1 \/ j = i[s])
      BY <2>3 DEF TypeOK
  <2>5. Hits(question[s].name, j) = {}
      BY <2>1, <2>3, <2>4 DEF WalkInv, TypeOK
  <2> QED BY <2>1, <2>5 DEF Hits
<1>7. ASSUME NEW c \in Client, NEW lists \in Row, EditProfile(c, lists)
      PROVE  Hits(question[s].name, j)' = {}
    BY <1>1, <1>7 DEF EditProfile, thread
<1>8. ASSUME NEW new \in Registry, Install(new)
      PROVE  Hits(question[s].name, j)' = {}
    BY <1>8 DEF Install, thread, TypeOK
<1> QED BY <1>2, <1>3, <1>4, <1>5, <1>6, <1>7, <1>8 DEF Next

(***************************************************************************)
(* What AnswerInv says of one thread's question.                           *)
(***************************************************************************)
LawfulFor(r) ==
    /\ Asking(r) => PolicyVerdict(question[r]) \in lawful[r]
    /\ pc[r] \in {"match", "walk"} =>
         /\ "profile" \notin moved[r] => Undecided(question[r])
         /\ moved[r] # Both => RegistryVerdict(question[r].name) \in lawful[r]
    /\ pc[r] = "answered" /\ moved[r] # Both => verdict[r] \in lawful[r]

LEMMA LawfulForAll ==
    (LawfulInv /\ AnswerIsLawful) <=> \A r \in Resolver : LawfulFor(r)
BY DEF LawfulInv, AnswerIsLawful, LawfulFor, Both

\* A step that leaves the policy, and so every answer of the policy, alone
\* leaves a thread alone that does not take it.
LEMMA StillLawful ==
    ASSUME NEW r \in Resolver, LawfulFor(r), UNCHANGED policy,
           pc'[r] = pc[r], question'[r] = question[r],
           verdict'[r] = verdict[r], lawful'[r] = lawful[r], moved'[r] = moved[r]
    PROVE  LawfulFor(r)'
<1>1. \A q : /\ PolicyVerdict(q)' = PolicyVerdict(q)
             /\ Undecided(q)' = Undecided(q)
             /\ RegistryVerdict(q.name)' = RegistryVerdict(q.name)
    BY SamePolicy
<1> QED BY <1>1 DEF LawfulFor, Asking

\* the thread that checked the client's lists
LEMMA CheckProfileLawful ==
    ASSUME AnswerInv, NEW r \in Resolver, CheckProfile(r)
    PROVE  LawfulFor(r)'
<1> DEFINE q == question[r]
<1>1. /\ UNCHANGED <<policy, question, history>> /\ pc[r] = "profile"
      /\ PolicyVerdict(q) \in lawful[r]
    BY DEF CheckProfile, AnswerInv, LawfulInv, Asking
<1>2. /\ PolicyVerdict(q)' = PolicyVerdict(q) /\ Undecided(q)' = Undecided(q)
      /\ RegistryVerdict(q.name)' = RegistryVerdict(q.name)
    BY <1>1, SamePolicy
<1>3. CASE Undecided(q)
  <2>1. pc'[r] = "match"
      BY <1>3 DEF CheckProfile, Answer, Undecided, AnswerInv, TypeOK
  <2>2. PolicyVerdict(q) = RegistryVerdict(q.name)
      BY <1>3 DEF PolicyVerdict
  <2> QED BY <1>1, <1>2, <1>3, <2>1, <2>2 DEF LawfulFor, Asking, history
<1>4. CASE ~Undecided(q)
  <2>1. pc'[r] = "answered" /\ verdict'[r] = ProfileVerdict(q)
      BY <1>4 DEF CheckProfile, Answer, Undecided, ProfileVerdict, AnswerInv, TypeOK
  <2>2. PolicyVerdict(q) = ProfileVerdict(q)
      BY <1>4 DEF PolicyVerdict
  <2> QED BY <1>1, <2>1, <2>2 DEF LawfulFor, Asking, history
<1> QED BY <1>3, <1>4

\* the thread that walked
LEMMA WalkLawful ==
    ASSUME AnswerInv, NEW r \in Resolver, Walk(r)
    PROVE  LawfulFor(r)'
<1> DEFINE q == question[r]
<1>1. /\ UNCHANGED <<policy, question, history>> /\ pc[r] = "walk"
      /\ q.name \in Name /\ i[r] \in 1 .. Len(q.name)
    BY NameLength DEF Walk, AnswerInv, TypeOK, Asking, Question
<1>2. /\ PolicyVerdict(q)' = PolicyVerdict(q) /\ Undecided(q)' = Undecided(q)
      /\ RegistryVerdict(q.name)' = RegistryVerdict(q.name)
    BY <1>1, SamePolicy
<1>3. CASE pc'[r] = "walk"
    BY <1>1, <1>2, <1>3 DEF LawfulFor, Asking, AnswerInv, LawfulInv, history
<1>4. CASE pc'[r] # "walk"
  <2>1. \A j \in 1 .. i[r] - 1 : Hits(q.name, j) = {}
      BY <1>1 DEF AnswerInv, WalkInv
  <2>2. pc'[r] = "answered" /\ verdict'[r] = RegistryVerdict(q.name)
    <3>1. CASE Hits(q.name, i[r]) # {}
      <4>1. RegistryVerdict(q.name) = Blocked(Hits(q.name, i[r]))
          BY <1>1, <2>1, <3>1, FirstHit
      <4> QED BY <1>4, <3>1, <4>1 DEF Walk, Answer, AnswerInv, TypeOK
    <3>2. CASE Hits(q.name, i[r]) = {}
      <4>1. i[r] = Len(q.name) /\ pc'[r] = "answered" /\ verdict'[r] = Allowed
          BY <1>1, <1>4, <3>2 DEF Walk, Answer, AnswerInv, TypeOK
      <4>2. \A j \in 1 .. Len(q.name) : Hits(q.name, j) = {}
        <5>1. ASSUME NEW j \in 1 .. Len(q.name)
              PROVE  j = i[r] \/ j \in 1 .. i[r] - 1
            BY <1>1, <4>1, NameLength
        <5> QED BY <2>1, <3>2, <5>1
      <4> QED BY <4>1, <4>2 DEF RegistryVerdict, Covered
    <3> QED BY <3>1, <3>2
  <2>3. moved[r] # Both => RegistryVerdict(q.name) \in lawful[r]
      BY <1>1 DEF AnswerInv, LawfulInv
  <2> QED BY <1>1, <2>2, <2>3 DEF LawfulFor, Asking, history
<1> QED BY <1>3, <1>4

LEMMA AnswerStep == AnswerInv /\ [Next]_vars => AnswerInv'
<1> SUFFICES ASSUME AnswerInv, [Next]_vars PROVE AnswerInv'
    OBVIOUS
<1>1. TypeOK' /\ WalkInv'
    BY TypeStep, WalkStep DEF AnswerInv
<1>2. \A s \in Resolver : LawfulFor(s)
    BY LawfulForAll DEF AnswerInv
<1>3. ASSUME NEW s \in Resolver, UNCHANGED <<policy, history>>,
             pc'[s] = pc[s], question'[s] = question[s], verdict'[s] = verdict[s]
      PROVE  LawfulFor(s)'
    BY <1>2, <1>3, StillLawful DEF history
<1>4. (\A s \in Resolver : LawfulFor(s)') => AnswerInv'
  <2>1. (LawfulInv /\ AnswerIsLawful <=> \A r \in Resolver : LawfulFor(r))'
      BY LawfulForAll, PTL
  <2> QED BY <1>1, <2>1 DEF AnswerInv
<1>5. CASE UNCHANGED vars
    BY <1>3, <1>4, <1>5 DEF vars, thread
<1>6. ASSUME NEW r \in Resolver, NEW q \in Question, Ask(r, q)
      PROVE  AnswerInv'
  <2>1. ASSUME NEW s \in Resolver, s # r PROVE LawfulFor(s)'
    <3>1. /\ UNCHANGED policy /\ pc'[s] = pc[s] /\ question'[s] = question[s]
          /\ verdict'[s] = verdict[s] /\ lawful'[s] = lawful[s]
          /\ moved'[s] = moved[s]
        BY <1>6, <2>1 DEF Ask, AnswerInv, TypeOK
    <3> QED BY <1>2, <3>1, StillLawful
  <2>2. LawfulFor(r)'
    <3>1. /\ pc'[r] = "profile" /\ question'[r] = q /\ UNCHANGED policy
          /\ lawful'[r] = {PolicyVerdict(q)}
        BY <1>6 DEF Ask, AnswerInv, TypeOK
    <3>2. PolicyVerdict(q)' = PolicyVerdict(q)
        BY <3>1, SamePolicy
    <3> QED BY <3>1, <3>2 DEF LawfulFor, Asking
  <2> QED BY <1>4, <2>1, <2>2
<1>7. ASSUME NEW r \in Resolver, CheckProfile(r)
      PROVE  AnswerInv'
  <2>1. ASSUME NEW s \in Resolver, s # r PROVE LawfulFor(s)'
    <3>1. pc'[s] = pc[s] /\ verdict'[s] = verdict[s]
        BY <1>7, <2>1 DEF CheckProfile, Answer, AnswerInv, TypeOK
    <3> QED BY <1>3, <1>7, <3>1 DEF CheckProfile
  <2>2. LawfulFor(r)'
      BY <1>7, CheckProfileLawful
  <2> QED BY <1>4, <2>1, <2>2
<1>8. ASSUME NEW r \in Resolver, BeginMatch(r)
      PROVE  AnswerInv'
  <2>1. ASSUME NEW s \in Resolver, s # r PROVE LawfulFor(s)'
    <3>1. pc'[s] = pc[s]
        BY <1>8, <2>1 DEF BeginMatch, AnswerInv, TypeOK
    <3> QED BY <1>3, <1>8, <3>1 DEF BeginMatch
  <2>2. LawfulFor(r)'
    <3>1. /\ pc[r] = "match" /\ pc'[r] = "walk"
          /\ UNCHANGED <<policy, question, history>>
        BY <1>8 DEF BeginMatch, AnswerInv, TypeOK
    <3>2. \A q : /\ PolicyVerdict(q)' = PolicyVerdict(q)
                 /\ Undecided(q)' = Undecided(q)
                 /\ RegistryVerdict(q.name)' = RegistryVerdict(q.name)
        BY <3>1, SamePolicy
    <3> QED BY <1>2, <3>1, <3>2 DEF LawfulFor, Asking, history
  <2> QED BY <1>4, <2>1, <2>2
<1>9. ASSUME NEW r \in Resolver, Walk(r)
      PROVE  AnswerInv'
  <2>1. ASSUME NEW s \in Resolver, s # r PROVE LawfulFor(s)'
    <3>1. pc'[s] = pc[s] /\ verdict'[s] = verdict[s]
        BY <1>9, <2>1 DEF Walk, Answer, AnswerInv, TypeOK
    <3> QED BY <1>3, <1>9, <3>1 DEF Walk
  <2>2. LawfulFor(r)'
      BY <1>9, WalkLawful
  <2> QED BY <1>4, <2>1, <2>2
<1>10. ASSUME NEW c \in Client, NEW lists \in Row, EditProfile(c, lists)
       PROVE  AnswerInv'
  <2> DEFINE under == {r \in Resolver : question[r].client = c}
  <2>1. /\ Record("profile", under) /\ UNCHANGED thread /\ UNCHANGED registry
        /\ profiles' = [profiles EXCEPT ![c] = lists]
      BY <1>10 DEF EditProfile
  <2>2. ASSUME NEW r \in Resolver, Asking(r), r \notin under
        PROVE  ListsOf(question[r].client)' = ListsOf(question[r].client)
    <3>1. question[r].client \in Client \cup {NoClient} /\ question' = question
        BY <2>1, <2>2 DEF AnswerInv, TypeOK, Question, thread
    <3> QED BY <2>1, <2>2, <3>1 DEF ListsOf, AnswerInv, TypeOK
  <2> HIDE DEF under
  <2>3. LawfulInv' /\ AnswerIsLawful'
      BY <2>1, <2>2, RecordLawful DEF Both
  <2> QED BY <1>1, <2>3 DEF AnswerInv
<1>11. ASSUME NEW new \in Registry, Install(new)
       PROVE  AnswerInv'
  <2>1. /\ Record("registry", Resolver) /\ UNCHANGED thread
        /\ UNCHANGED profiles
      BY <1>11 DEF Install
  <2>2. LawfulInv' /\ AnswerIsLawful'
      BY <2>1, RecordLawful DEF Both
  <2> QED BY <1>1, <2>2 DEF AnswerInv
<1> QED BY <1>5, <1>6, <1>7, <1>8, <1>9, <1>10, <1>11 DEF Next

\* Every answer check() gives is one the policy prescribed at some moment of
\* the query, unless the client's lists and the registry both changed under it.
THEOREM AnswersAreLawful == Spec => []AnswerIsLawful
<1>1. Init => AnswerInv
  <2> SUFFICES ASSUME Init PROVE WalkInv /\ LawfulInv /\ AnswerIsLawful
      BY TypeInit DEF AnswerInv
  <2> QED BY DEF Init, WalkInv, LawfulInv, AnswerIsLawful, Asking
<1>2. AnswerInv => AnswerIsLawful
    BY DEF AnswerInv
<1> QED BY <1>1, AnswerStep, <1>2, PTL DEF Spec
=============================================================================
