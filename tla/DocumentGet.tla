---------------------------- MODULE DocumentGet ----------------------------
(***************************************************************************)
(* db.go, attachments.go, chttp/chttp.go: what becomes of the response to  *)
(* Get, GetRev, GetAttachment and GetAttachmentMeta.  A response body is a *)
(* sequence of units: of a JSON document its _rev and its members, of a    *)
(* multipart/related one the document and a part for each attachment.  It  *)
(* may break off after any unit.  Where ETag is missing the revision is    *)
(* looked for in the body, which the caller must find as it was.           *)
(***************************************************************************)
EXTENDS DocumentStore

Ops == {"Get", "GetRev", "GetAttachment", "GetAttachmentMeta"}
Heads == {"GetRev", "GetAttachmentMeta"}

VARIABLES
    get,       \* idle, wait, status, type, rev, related, decode, held, done
    op,        \* the operation
    reply,     \* the header of the response, or None
    unread,    \* units of the body not yet read
    whole,     \* the body did not break off
    body,      \* none, open, closed: the Body of the response
    rev,       \* None, or where the revision came from: etag or body
    buffer,    \* units extractRev has read
    manifest,  \* stubs of a multipart document that say a part follows: name -> length
    doc,       \* units of the document the caller has
    files,     \* attachments the caller has, in the order of their parts
    outcome,   \* None, or how the operation ended for the caller
    served     \* history: the body the server began to send

handVars == <<rev, buffer, manifest, doc, files>>
getVars  == <<get, op, reply, unread, whole, body, handVars, outcome, served>>

\* What the driver looks at in a header; named says that the parts of a multipart
\* body have headers with the names of the stubs.
Headers ==
    [status : {"error"}] \cup
    [status : {"ok"}, ctype : {"json", "other", "none"}, etag : BOOLEAN] \cup
    [status : {"ok"}, ctype : {"related"}, etag : BOOLEAN, boundary : BOOLEAN, named : BOOLEAN]

\* How an operation may end for the caller.
Outcomes == {"ok", "status", "network", "unusable", "closed"}

ASSUME NoneIsNoReply == None \notin Headers \cup Outcomes

Units ==
    [unit : {"rev"}] \cup [unit : {"member"}, member : 0 .. Other]
    \cup [unit : {"doc"}, stubs : UNION {[ns -> Lengths] : ns \in SUBSET Names}]
    \cup [unit : {"file"}, name : Names, content : Contents]

\* An attachment as Next returns it.
Delivered == [name : Names, size : Lengths, content : Contents]

GetTypeOK ==
    /\ get \in {"idle", "wait", "status", "type", "rev", "related", "decode", "held", "done"}
    /\ op \in Ops \cup {None}
    /\ reply \in Headers \cup {None}
    /\ unread \in Seq(Units) /\ served \in Seq(Units) /\ whole \in BOOLEAN
    /\ body \in {"none", "open", "closed"}
    /\ body = "none" <=> get \in {"idle", "wait"} \/ (reply = None /\ get = "done")
    /\ rev \in {None, "etag", "body"}
    /\ buffer \in Seq(Units) /\ doc \in Seq(Units) /\ files \in Seq(Delivered)
    /\ \A n \in DOMAIN manifest : n \in Names /\ manifest[n] \in Lengths
    /\ outcome \in Outcomes \cup {None}
    /\ outcome = None <=> get # "done"

GetInit ==
    /\ get = "idle" /\ op = None /\ reply = None
    /\ unread = << >> /\ whole = TRUE /\ body = "none"
    /\ rev = None /\ buffer = << >> /\ manifest = << >>
    /\ doc = << >> /\ files = << >> /\ outcome = None /\ served = << >>

-----------------------------------------------------------------------------
(* The server.                                                              *)

JSONBody ==
    <<[unit |-> "rev"]>>
    \o [i \in DOMAIN stored.members |-> [unit |-> "member", member |-> stored.members[i]]]

File(n) == [unit |-> "file", name |-> n, content |-> stored.files[n]]

\* The parts that follow may be some of the attachments (atts_since).
RelatedBody(follow) ==
    LET order == Sorted(follow)
    IN  <<[unit |-> "doc", stubs |-> [n \in follow |-> stored.length[n]]]>>
        \o [i \in DOMAIN order |-> File(order[i])]

\* The bodies an answer may have, in full; a HEAD has none.
Bodies(header) ==
    IF op \in Heads \/ header.status = "error" THEN {<< >>}
    ELSE IF op = "GetAttachment" THEN {<<File(n)>> : n \in DOMAIN stored.files}
    ELSE IF header.ctype = "related"
         THEN {RelatedBody(follow) : follow \in SUBSET DOMAIN stored.files}
    ELSE {JSONBody}

\* Call: any of the operations sends its request.
Call(o) ==
    /\ get = "idle" /\ stored # None
    /\ get' = "wait" /\ op' = o
    /\ UNCHANGED <<reply, unread, whole, body, handVars, outcome, served>>

\* The answer begins to arrive; how much of its body will is settled here.
Serve(header) ==
    /\ get = "wait"
    /\ get' = "status" /\ reply' = header /\ body' = "open"
    /\ served' \in Bodies(header)
    /\ \E n \in 0 .. Len(served') :
          unread' = SubSeq(served', 1, n) /\ whole' = (n = Len(served'))
    /\ UNCHANGED <<op, handVars, outcome>>

NoAnswer ==
    /\ get = "wait"
    /\ get' = "done" /\ outcome' = "network"
    /\ UNCHANGED <<op, reply, unread, whole, body, handVars, served>>

-----------------------------------------------------------------------------
(* The driver.                                                              *)

Proceed(place) ==
    /\ get' = place
    /\ UNCHANGED <<op, reply, unread, whole, body, handVars, outcome, served>>

End(why, b) ==
    /\ get' = "done" /\ outcome' = why /\ body' = b
    /\ UNCHANGED <<op, reply, whole, rev, manifest, files, served>>

Fail(why, b) == End(why, b) /\ UNCHANGED <<unread, buffer, doc>>

\* A possible bug: the error is returned, the body stays open.
StatusErrorOpen ==
    /\ get = "status" /\ reply.status = "error"
    /\ Fail("status", "open")

\* ResponseError closes the body of an answer that is an error.
StatusError ==
    /\ get = "status" /\ reply.status = "error"
    /\ Fail("status", "closed")

StatusOK ==
    /\ get = "status" /\ reply.status = "ok"
    /\ Proceed(CASE op = "Get" -> "type" [] op = "GetRev" -> "rev" [] OTHER -> "decode")

\* The content type of a document; a body that is not used is left open.
TypeUsable == reply.ctype = "json" \/ (reply.ctype = "related" /\ reply.boundary)

TypeKnown ==
    /\ get = "type" /\ TypeUsable
    /\ Proceed(IF reply.ctype = "json" THEN "rev" ELSE "related")

TypeUnusable == get = "type" /\ ~TypeUsable /\ Fail("unusable", "open")

\* GetRev closes the body of its HEAD; Get hands its body to the caller.
RevFromETag ==
    /\ get = "rev" /\ reply.etag
    /\ rev' = "etag"
    /\ IF op = "GetRev"
       THEN get' = "done" /\ outcome' = "ok" /\ body' = "closed"
       ELSE get' = "held" /\ UNCHANGED <<outcome, body>>
    /\ UNCHANGED <<op, reply, unread, whole, buffer, manifest, doc, files, served>>

\* readRev reads through a TeeReader, its decoder as far ahead as it likes;
\* CouchDB sends _rev among the first members.  Then the reader is put together again.
RevFromBody ==
    /\ get = "rev" /\ ~reply.etag /\ op \notin Heads
    /\ \E k \in 1 .. Len(unread) :
          buffer' = SubSeq(unread, 1, k) /\ unread' = SubSeq(unread, k + 1, Len(unread))
    /\ rev' = "body" /\ get' = "held"
    /\ UNCHANGED <<op, reply, whole, body, manifest, doc, files, outcome, served>>

RevUnknown ==
    /\ get = "rev" /\ ~reply.etag /\ (op \in Heads \/ unread = << >>)
    /\ Fail("unusable", "open")

\* The first part is read as a whole; its stubs are the manifest.
Related ==
    /\ get = "related" /\ unread # << >>
    /\ get' = "held" /\ rev' = IF reply.etag THEN "etag" ELSE None
    /\ doc' = <<Head(unread)>> /\ manifest' = Head(unread).stubs
    /\ unread' = Tail(unread)
    /\ UNCHANGED <<op, reply, whole, body, buffer, files, outcome, served>>

RelatedBroken == get = "related" /\ unread = << >> /\ Fail("unusable", "open")

\* decodeAttachment wants a Content-Type and an ETag.
Decodable == reply.ctype # "none" /\ reply.etag

Decode == get = "decode" /\ Decodable /\ Proceed("held")

DecodeFails == get = "decode" /\ ~Decodable /\ Fail("unusable", "open")

-----------------------------------------------------------------------------
(* The caller, with what it was given.                                      *)

Multipart == op = "Get" /\ reply.ctype = "related"

\* A possible bug: what was read for the revision is gone.
RestoredNot == unread

\* The reader that extractRev leaves in resp.Body.
Restored == buffer \o unread

\* The body is read to its end, io.EOF or the error of a broken one, and closed.
ReadBody ==
    /\ get = "held" /\ ~Multipart
    /\ doc' = Restored /\ unread' = << >> /\ buffer' = << >>
    /\ End(IF whole THEN "ok" ELSE "network", "closed")

\* multipartAttachments.Next: the next part, by the name in its header.
NextPart ==
    /\ get = "held" /\ Multipart /\ unread # << >> /\ reply.named
    /\ LET part == Head(unread)
       IN  files' = Append(files, [name |-> part.name, size |-> manifest[part.name],
                                   content |-> part.content])
    /\ unread' = Tail(unread)
    /\ UNCHANGED <<get, op, reply, whole, body, rev, buffer, manifest, doc, outcome, served>>

\* Its errors, after which the caller closes what it has.
NextPartFails ==
    /\ get = "held" /\ Multipart /\ unread # << >> /\ ~reply.named
    /\ Fail("unusable", "closed")

\* The last boundary has been read, or the body breaks off before it.
NextPartEnds ==
    /\ get = "held" /\ Multipart /\ unread = << >>
    /\ Fail(IF whole THEN "ok" ELSE "network", "closed")

\* The caller closes before the end.
CloseEarly == get = "held" /\ Fail("closed", "closed")

GetNext ==
    \/ \E o \in Ops : Call(o)
    \/ \E header \in Headers : Serve(header)
    \/ NoAnswer \/ StatusError \/ StatusOK \/ TypeKnown \/ TypeUnusable
    \/ RevFromETag \/ RevFromBody \/ RevUnknown \/ Related \/ RelatedBroken
    \/ Decode \/ DecodeFails
    \/ ReadBody \/ NextPart \/ NextPartFails \/ NextPartEnds \/ CloseEarly

-----------------------------------------------------------------------------
(* Properties.                                                              *)

\* A caller that comes to the end of what it was given, without an error, has the
\* whole body the server sent, from its first unit: whatever was read of it to find
\* the revision, and wherever it might have broken off.  Of a multipart body that is
\* the document and a file for every part, with the size its stub declares.
GotAsServed ==
    outcome = "ok" /\ op \notin Heads =>
        IF Multipart
        THEN /\ doc = <<served[1]>>
             /\ files = [i \in 1 .. Len(served) - 1 |->
                           [name    |-> served[i + 1].name,
                            size    |-> served[1].stubs[served[i + 1].name],
                            content |-> served[i + 1].content]]
        ELSE doc = served

\* The body of a response is closed when the operation is over for the caller, and
\* not while the caller reads it.  A response of a good status that the driver cannot
\* use is excepted: Get, GetRev and decodeAttachment return without closing it.
BodyOwned ==
    /\ get = "held" => body = "open"
    /\ get = "done" /\ body = "open" => outcome = "unusable"
=============================================================================
