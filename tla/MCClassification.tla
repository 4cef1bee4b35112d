-------------------------- MODULE MCClassification --------------------------
(* Message both names a JIRA ticket that says nothing and two GitHub issues, *)
(* of which the second has a label; fix names that one; page names the other *)
(* and a page of a source of the third kind; plain names nothing.            *)
EXTENDS Classification, TLC
CONSTANTS both, fix, page, plain, c1, c2, c3, c4, c5, jira, hush, label, doc, bug, chore
MCKind == <<"jira", "github", "other">>
MCRefs == (both :> <<<<jira>>, <<hush, label>>, <<>>>>)
       @@ (fix :> <<<<>>, <<label>>, <<>>>>)
       @@ (plain :> <<<<>>, <<>>, <<>>>>)
       @@ (page :> <<<<jira>>, <<hush>>, <<doc>>>>)
MCSignal == (jira :> None) @@ (hush :> None) @@ (label :> bug) @@ (doc :> chore)
MCMessage == (c1 :> both) @@ (c2 :> fix) @@ (c3 :> page) @@ (c4 :> page)
          @@ (c5 :> plain)
MCBackoff == [n \in 0..MaxRetries |-> 1]
=============================================================================
