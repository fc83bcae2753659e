--------------------------- MODULE DocumentStore ---------------------------
(***************************************************************************)
(* What the server holds of one document, shared by MultipartPut, which    *)
(* writes it, and DocumentGet, which reads it.  A document is the order of *)
(* its members, one of which is _attachments; an attachment is the content *)
(* that was stored under its name, so many bytes of the content the caller *)
(* gave for a name, and the length its stub declares.                      *)
(***************************************************************************)
EXTENDS Integers, SequencesExt

CONSTANTS Names,   \* file names: numbers, for their order
          Fields,  \* members of a document besides _attachments
          Quoted,  \* those whose names have characters that JSON escapes
          MaxLen,  \* bound: bytes of an attachment
          None

ASSUME NamesAssumption ==
    /\ Names \subseteq Nat /\ Fields \in Nat /\ MaxLen \in Nat
    /\ Quoted \subseteq 1 .. Fields
ASSUME NoneAssumption == None \notin Nat

Lengths == 0 .. MaxLen

\* The key _attachments among the members of a document, the others are 1 .. Fields.
Atts == 0

\* A member whose name was printed as it reads, without escapes: one of another
\* name, or no JSON.
Other   == Fields + 1
Invalid == Fields + 2

\* The orders of the members: where _attachments stands.
Orders ==
    {[i \in 1 .. Fields + 1 |-> IF i < k THEN i ELSE IF i = k THEN Atts ELSE i - 1] :
        k \in 1 .. Fields + 1}

\* The names in the order of encoding/json and of sort.Strings: the i-th is the one
\* with i names up to it.
Place(n, names) == Cardinality({m \in names : m <= n})
Sorted(names) ==
    [i \in 1 .. Cardinality(names) |-> CHOOSE n \in names : Place(n, names) = i]

VARIABLE stored  \* None, or what the server holds

\* Content: bytes of the content the caller has under the name "of".
Contents == [of : Names, len : Lengths]

StoredOK ==
    \/ stored = None
    \/ /\ stored.members \in [1 .. Fields + 1 -> 0 .. Other]
       /\ DOMAIN stored.files \subseteq Names
       /\ stored.files \in [DOMAIN stored.files -> Contents]
       /\ stored.length \in [DOMAIN stored.files -> Lengths]
=============================================================================
