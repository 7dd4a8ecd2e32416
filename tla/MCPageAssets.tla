---------------------------- MODULE MCPageAssets ----------------------------
(* Two builds that differ in their script and one that keeps it.           *)
EXTENDS PageAssets
MCBuilds == {[page |-> "page1", script |-> "script1"],
             [page |-> "page2", script |-> "script2"],
             [page |-> "page3", script |-> "script2"]}
=============================================================================
