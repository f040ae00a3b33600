--------------------------- MODULE MCRowMutation ---------------------------
EXTENDS RowMutation

Set(fam, ts, auto, n) ==
    [op |-> "set", fam |-> fam, col |-> "c", ts |-> ts, auto |-> auto, val |-> <<"int", n>>]
Del(fam, from, to) == [op |-> "delCol", fam |-> fam, col |-> "c", from |-> from, to |-> to]
Add(fam, ts, val) ==
    [op |-> "add", fam |-> fam, col |-> "c", ts |-> ts, auto |-> FALSE, val |-> val]
Incr(n) == [op |-> "increment", fam |-> "f", col |-> "c", n |-> n]

MCFamOrder == <<"f", "a">>
MCKinds == [f |-> "none", a |-> "sum"]
Versions(n) == [kind |-> "versions", n |-> n]
Age == [kind |-> "age", n |-> 2]
Old == [kind |-> "intersection", subs |-> {Versions(1), Age}]
MCRules == {NoRule, [kind |-> "union", subs |-> {Versions(2), Old}]}
MCNested == {Versions(1), Versions(2), Age, Old}
MCDepth == [r \in MCRules \cup MCNested |-> CASE r.kind = "union" -> 2 [] r = Old -> 1 [] OTHER -> 0]
MCMutationLists ==
    {<<Set("f", -1, FALSE, 1)>>, <<Set("f", 1, TRUE, 1)>>,
     <<Del("f", 2, 4), Set("f", 0, FALSE, 1)>>, <<Add("a", 0, <<"int", 1>>)>>,
     <<[op |-> "delFam", fam |-> "f"]>>,
     <<Set("f", 0, FALSE, 1), Set("a", 0, FALSE, 1)>>}
MCBatches ==
    {<<ms1, ms2>> : ms1 \in {<<Set("f", -1, FALSE, 1)>>, <<[op |-> "delRow"]>>},
                    ms2 \in {<<Set("f", 1, FALSE, 0)>>, <<Add("a", 0, <<"int", 1>>)>>}}
MCRuleLists ==
    {<<Incr(1), Incr(1)>>,
     <<[op |-> "append", fam |-> "f", col |-> "c", n |-> 0]>>}
=============================================================================
