----------------------------- MODULE Documents -----------------------------
(***************************************************************************)
(* A caller that puts a document with attachments, again when that fails,  *)
(* and reads what the server has.  MultipartPut and DocumentGet meet in    *)
(* what is stored alone, which changes in one step, so the Get waits until *)
(* no Put is under way.  A goroutine that a Put left behind goes on.       *)
(***************************************************************************)
EXTENDS MultipartPut, DocumentGet

VARIABLE original  \* history: the attachments the caller began with

vars == <<putVars, getVars, stored, original>>

TypeOK == PutTypeOK /\ GetTypeOK /\ original \in AttMaps

Init == stored = None /\ PutInit /\ GetInit /\ original = callers

Putting == PutNext /\ (puts' # puts => get = "idle") /\ UNCHANGED <<getVars, original>>
Getting == GetNext /\ put = "idle" /\ UNCHANGED <<putVars, stored, original>>

Next == Putting \/ Getting

Spec == Init /\ [][Next]_vars /\ PutFairness

\* A Put that reports success has stored the whole of each content, under its name,
\* with a stub that declares its length, in the document that was given: the stubs
\* and the parts have the same order (createMultipart sorts because json.Marshal
\* does), measuring a content does not lose it, and the copy of the document loses
\* nothing behind its stubs, and no member in front of them, whose name may change
\* (CopyOf).  The contents are all those of the caller, but in the first Put only:
\* extractAttachments took them out of the document, so a Put that is tried again
\* succeeds without any.
StoredAsGiven ==
    result = "ok" =>
        /\ given = IF puts = 1 THEN original ELSE << >>
        /\ stored.files = Whole(given) /\ stored.length = LengthsOf(given)
        /\ CopyOf(stored.members, members)

\* An attachment that Next returns is the whole content the caller once gave under
\* its name, with its size: also when the answer of the Put was lost, when other Puts
\* failed, and when the response does not have all attachments.
RoundTrip ==
    \A i \in DOMAIN files :
        /\ files[i].name \in DOMAIN original
        /\ files[i].content = Whole(original)[files[i].name]
        /\ files[i].size = files[i].content.len
=============================================================================
