---------------------------- MODULE MCDocuments ----------------------------
(* An instance of Documents for TLC: any single attachment, and pairs whose  *)
(* contents have to be told apart by their lengths and kinds.                *)
EXTENDS Documents

Offered ==
    {a \in Attachments : a.size \in {0, a.len} /\ ~a.buffered /\ a.open}

Plain == {a \in Offered : ~a.broken /\ a.size = 0}
Broken == {a \in Offered : a.broken /\ a.len = MaxLen}

One(a) == [n \in {1} |-> a]
Two(a, b) == [n \in {1, 2} |-> IF n = 1 THEN a ELSE b]

MCOffers ==
    {<< >>} \cup {One(a) : a \in Plain \cup Broken}
    \cup {Two(a, b) : a \in Plain, b \in {c \in Plain : ~c.lener /\ c.len = MaxLen}}
    \cup {Two(a, b) : a \in {c \in Plain : c.lener /\ c.len = MaxLen}, b \in Broken}
=============================================================================
