--------------------------- MODULE MCOverlayCache ---------------------------
(***************************************************************************)
(* Small instances of OverlayCache: two cells on two pages.  DLL "whole"   *)
(* holds one function over both cells; DLL "parts" holds another variant   *)
(* of its entry and a function of the second cell, so that the two share   *)
(* entries, interior PCs and pages, and differ in content.                 *)
(***************************************************************************)
EXTENDS OverlayCache, TLC

MCPageOf == [a \in 0..1 |-> a]
MCEntry  == [f \in 1..3 |-> IF f = 3 THEN 1 ELSE 0]
MCRanges == (1 :> {{0}, {0, 1}}) @@ (2 :> {{0}}) @@ (3 :> {{1}})
MCCode   == (1 :> [a \in {0, 1} |-> 1]) @@ (2 :> [a \in {0} |-> 0])
                                       @@ (3 :> [a \in {1} |-> 1])
MCDllOf  == [f \in 1..3 |-> IF f = 1 THEN "whole" ELSE "parts"]
MCRegion == [d \in {"whole", "parts"} |-> 0]

(* One cell, in boot text (its page is in the overlay window only while    *)
(* dirty), and three files for it: two variants of the function there and  *)
(* "stale", which the ABI gate rejects.                                    *)
OnePageOf == [a \in {0} |-> 0]
OneEntry  == [f \in 1..3 |-> 0]
OneRanges == [f \in 1..3 |-> {{0}}]
OneCode   == [f \in 1..3 |-> [a \in {0} |-> IF f = 1 THEN 0 ELSE 1]]
OneDllOf  == (1 :> "old") @@ (2 :> "new") @@ (3 :> "stale")
OneRegion == [d \in {"old", "new", "stale"} |-> 0]
=============================================================================
