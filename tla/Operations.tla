----------------------------- MODULE Operations -----------------------------
(***************************************************************************)
(* The operations that are one request and one answer, by what they have   *)
(* in common: how net/http may treat the request, and what becomes of the  *)
(* answer.  Operations that agree in all of it are one record.             *)
(***************************************************************************)

\* safe:    GET or HEAD
\* body:    "none", Body, GetBody (BodyEncoder), which makes it again, or Content:
\*          a Body that is a reader and not an encoder
\* marked:  the header X-Idempotency-Key, never sent, tells net/http that the
\*          request may be sent again
\* repeats: processed twice it has the effect of once, and the second answer does
\*          not say that it failed; judged from what CouchDB does, not from the mark
\* checks:  arguments, options or the path may be refused before anything is sent
\* ctx:     the request has the caller's context
\* end:     DoJSON, DoError, GetRev, or how the operation ends by itself
Operation ==
    [safe : BOOLEAN, body : {"none", "Body", "GetBody", "Content"}, marked : BOOLEAN,
     repeats : BOOLEAN, checks : BOOLEAN, ctx : BOOLEAN,
     end : {"json", "error", "rev", "rows", "bulk", "exists", "ping"}]

Keyed == TRUE
Plain == FALSE

Again == TRUE
Once  == FALSE

Read(end, checks) ==
    [safe |-> TRUE, body |-> "none", marked |-> Plain, repeats |-> Again,
     checks |-> checks, ctx |-> TRUE, end |-> end]

\* Another method: what the code says of it, and what may be done with it.
Change(body, marked, repeats, end, checks) ==
    [safe |-> FALSE, body |-> body, marked |-> marked, repeats |-> repeats,
     checks |-> checks, ctx |-> TRUE, end |-> end]

-----------------------------------------------------------------------------
\* A second PUT or DELETE of a database is answered 412 or 404.
ClientOps ==
    { Read("json", TRUE),                              \* AllDBs
      Read("exists", TRUE),                            \* DBExists
      Change("none", Plain, Once, "error", TRUE),      \* CreateDB, DestroyDB
      Read("rows", FALSE),                             \* DBUpdates
      Read("ping", FALSE) }                            \* Ping

ClusterOps ==
    { Read("json", TRUE),                              \* ClusterStatus
      Change("Body", Plain, Once, "error", FALSE),     \* ClusterSetup
      Read("json", FALSE) }                            \* Membership

\* The answer to a PUT is the old value.
ConfigOps ==
    { Read("json", TRUE),                              \* Config, ConfigSection, ConfigValue
      Change("Content", Plain, Once, "json", TRUE),    \* SetConfigValue
      Change("none", Plain, Once, "json", TRUE) }      \* DeleteConfigKey

Session == Read("json", FALSE)
Version == Read("json", FALSE)

Stats          == Read("json", FALSE)
PartitionStats == Read("json", FALSE)

\* A query; it leaves the caller's context aside.
DBsStats == [Change("GetBody", Keyed, Again, "json", FALSE) EXCEPT !.ctx = FALSE]

IndexOps ==
    { Change("Body", Plain, Once, "error", TRUE),      \* CreateIndex
      Read("json", FALSE),                             \* GetIndexes
      Change("none", Plain, Once, "error", TRUE) }     \* DeleteIndex

\* Queries.
Find    == Change("GetBody", Keyed, Again, "rows", FALSE)
Explain == Change("GetBody", Keyed, Again, "json", FALSE)

\* A possible bug: the request is marked, as its body can be made again.
BulkDocsKeyed == Change("GetBody", Keyed, Once, "bulk", TRUE)

\* Documents are written: the second time as conflicts, or as other documents.
BulkDocs == Change("GetBody", Plain, Once, "bulk", TRUE)
BulkGet  == Change("GetBody", Keyed, Again, "rows", TRUE)
Changes  == Read("rows", TRUE)

\* AllDocs, DesignDocs, LocalDocs, Query: POST when there are keys or queries.
RowsQueries == { Read("rows", TRUE), Change("GetBody", Keyed, Again, "rows", TRUE) }

\* A document or a revision more each time.
CreateDoc == Change("Body", Plain, Once, "json", TRUE)

\* With attachments the body is a file.
Put == { Change(body, Plain, Once, "json", TRUE) : body \in {"Body", "Content"} }

DocumentOps ==
    { Change("none", Plain, Once, "rev", TRUE),        \* Delete, Copy
      Change("none", Keyed, Again, "error", FALSE),    \* Flush, Compact, ViewCleanup
      Change("none", Keyed, Again, "error", TRUE),     \* CompactView
      Read("json", FALSE),                             \* Security
      Change("GetBody", Keyed, Again, "error", FALSE), \* SetSecurity
      Change("GetBody", Keyed, Again, "json", FALSE),  \* Purge
      Change("GetBody", Keyed, Again, "rows", FALSE) } \* RevsDiff

\* The body is the caller's content.
PutAttachment    == Change("Content", Plain, Once, "json", TRUE)
DeleteAttachment == Change("none", Plain, Once, "json", TRUE)

GetReplications == Read("json", TRUE)
PostReplication == Change("Body", Plain, Once, "json", FALSE)

Operations ==
    UNION { ClientOps, ClusterOps, ConfigOps, IndexOps, RowsQueries, Put, DocumentOps,
            { Session, Version, Stats, PartitionStats, DBsStats, Find, Explain,
              BulkDocs, BulkGet, Changes, CreateDoc, PutAttachment,
              DeleteAttachment, GetReplications, PostReplication } }

\* net/http: a request whose answer was lost is sent again when the method is
\* safe or the request is marked, and there is a body to send.
Replayable(op) ==
    /\ op.body \in {"none", "GetBody"}
    /\ op.safe \/ op.marked
=============================================================================
