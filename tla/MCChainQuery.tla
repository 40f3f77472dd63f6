---------------------------- MODULE MCChainQuery ----------------------------
(* ChainQuery over small link graphs: a cycle, a diamond, a line longer than *)
(* the depth limit and a star wider than the size limit.  Event 1 is the     *)
(* newest but one; 4 is a change, 3 a deployment.                            *)
EXTENDS ChainQuery

Event(links, chain, time, kind, commit) ==
    [links |-> links, chain |-> chain, time |-> time, kind |-> kind,
     commit |-> commit]

Cycle == << Event(<<2>>, "c", 3, "other", FALSE),
            Event(<<3>>, NoChain, 4, "deployment", TRUE),
            Event(<<1>>, "c", 2, "change", TRUE),
            Event(<<>>, "c", 1, "change", TRUE) >>

Diamond == << Event(<<2, 3>>, NoChain, 4, "other", FALSE),
              Event(<<4>>, NoChain, 2, "deployment", TRUE),
              Event(<<4, 1>>, NoChain, 3, "deployment", TRUE),
              Event(<<4>>, NoChain, 2, "change", FALSE) >>

Line == << Event(<<2>>, NoChain, 4, "other", FALSE),
           Event(<<3>>, "c", 3, "deployment", TRUE),
           Event(<<4>>, "d", 2, "change", TRUE),
           Event(<<>>, "c", 1, "change", TRUE) >>

Star == << Event(<<2, 3, 4>>, "c", 4, "deployment", TRUE),
           Event(<<2>>, "c", 1, "change", TRUE),
           Event(<<1>>, "c", 1, "change", TRUE),
           Event(<<3, 2>>, "c", 3, "deployment", TRUE) >>

Graphs == {Cycle, Diamond, Line, Star}
=============================================================================
