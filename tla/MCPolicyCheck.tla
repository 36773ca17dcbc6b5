---------------------------- MODULE MCPolicyCheck ----------------------------
(***************************************************************************)
(* Instances of PolicyCheck for TLC.                                       *)
(***************************************************************************)
EXTENDS PolicyCheck, TLC

CONSTANTS r1, r2, c1, l1, l2

MCName == {<<"com">>, <<"x", "ads", "com">>, <<"localhost">>}
MCLocalhost == {<<"localhost">>}

MCRow == {NoLists,
          [allow |-> {}, deny |-> {<<"x", "ads", "com">>}],
          [allow |-> {<<"x", "ads", "com">>},
           deny |-> {<<"x", "ads", "com">>, <<"localhost">>}]}

\* l1 has a parent domain, l2 has names themselves until it loses them
MCRegistry ==
    {[entries |-> (l1 :> {<<"com">>, <<"localhost">>} @@ l2 :> names), enabled |-> on] :
        names \in {{}, {<<"x", "ads", "com">>, <<"com">>}}, on \in {{}, {l1}, {l1, l2}}}

Interchangeable == Permutations({r1, r2})
=============================================================================
