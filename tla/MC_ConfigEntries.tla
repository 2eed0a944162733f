--------------------------- MODULE MC_ConfigEntries ---------------------------
(* An instance of ConfigEntries: two hooks, one of which may render the    *)
(* same entry as the other, and a server the user may define as well.      *)
EXTENDS ConfigEntries

CONSTANTS g, h, s, e1, e2, u, x, y, w

Is(n, es) == [name |-> n, entries |-> es]
Conf(hs, v, failed) ==
    [managed |-> TRUE, hooks |-> hs, servers |-> [n \in {s} |-> v], scanFailed |-> failed]

AllConfigs == {Conf(<<Is(g, <<e1>>), Is(h, <<e2>>)>>, x, FALSE),
               Conf(<<Is(h, <<e2>>), Is(g, <<e1>>)>>, y, FALSE),
               Conf(<<Is(g, <<e1, e2>>), Is(h, <<e1>>)>>, None, FALSE),
               Conf(<<Is(g, None)>>, None, TRUE)}
AllWithheld == {{}, {g}}
==============================================================================
