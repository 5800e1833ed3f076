------------------------------- MODULE MCLogin -------------------------------
(* One GrowID and a second bot of any kind, with a bypass pool of two and a  *)
(* game exit each; or two GrowIDs that log in by the bypass pool.            *)
EXTENDS Login
CONSTANTS ann, bob, e1, e2, g1, g2
MCPool == <<e1, e2>>
How(kind, rotating, proxy) == [kind |-> kind, rotating |-> rotating, proxy |-> proxy]
Pooled == How("legacy", TRUE, g1)
Pair(a, b) == [x \in {ann, bob} |-> IF x = ann THEN a ELSE b]
Mixed == {Pair(Pooled, h) : h \in {How("legacy", FALSE, g2), How("provider", TRUE, g2), How("google", TRUE, NoExit)}}
GrowIds == {Pair(Pooled, Pooled)}
TwoAndOne == [x \in {ann, bob} |-> IF x = ann THEN 2 ELSE 1]
Two == [x \in {ann, bob} |-> 2]
=============================================================================
