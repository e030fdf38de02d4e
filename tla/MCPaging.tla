------------------------------ MODULE MCPaging ------------------------------
(* Small instances of Paging: pages of 4 and 3 objects for 100 and 50 (1000 and 500). *)
EXTENDS Paging

MCMaxima == {1, 3, 4, 5, 6, Infinity}
MCRejections == {a..(a + n) : a \in {1, 2, 4}, n \in {0, 3}} \cup {{x \in Ids : x % 2 = 0}}
MCCachings == {Ids, {}}
AllCached == {Ids}
AnyMaximum == {Infinity}
NoRejection == {{}}
=============================================================================
