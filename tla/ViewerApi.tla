----------------------------- MODULE ViewerApi ------------------------------
(* The Job-scoped data requests of the CGI server (db/data-viewer.js): every *)
(* one names a Job together with the server, table and columns the client    *)
(* believes the Job writes to, and is refused when the stored Job says       *)
(* otherwise.  A caller walks the rows of some Tags page by page with the    *)
(* cursors the answers carry, and lists the Tags of the Job.                 *)
(*                                                                           *)
(* Other processes edit the Job and its server, and the collector stores     *)
(* rows, between any two requests and between the check of a request and    *)
(* its query.  A Tag's rows are stored in the order of their time, so a      *)
(* table is the number of rows of each Tag and a row's time is its number.   *)
(* Paging by window and time cursor is in DataViewer.                        *)
EXTENDS Integers, Sequences, FiniteSets, SequencesExt

CONSTANTS Products,    \* "ls", "generic"
          Documents,   \* Job documents: [server, table, value, text, selections, whole]
          Servers,     \* records of the Job's server: [table, value, text]
          Normal,      \* spelling |-> its upper-case name; "" is no name
          Catalogs,    \* table |-> [type, keys, numbers, strings, hierarchy]
          NameLists,   \* the Tags a walk asks for, as sequences
          Sizes,       \* rowsPerTag
          Windows,     \* [lo, hi], bounds of the time
          Limits,      \* limit of a list of Tags; 0 is a request without one
          MaxAt,      \* time of the last row of a Tag
          MaxEdits     \* bound on the edits of Job and server, and the lists asked for

VARIABLES product, shapes,   \* fixed: the product and the tables
          job, server,       \* the stored Job and server, or Nothing
          stored,            \* table |-> Tag |-> number of rows
          walk, listing, edits
vars == <<product, shapes, job, server, stored, walk, listing, edits>>
fixed == <<product, shapes>>

Nothing == [is |-> "nothing"]
Tables == {Normal[s] : s \in DOMAIN Normal} \ {""}
Distinct(names) ==
    FoldLeft(LAMBDA kept, name : IF Contains(kept, name) THEN kept ELSE Append(kept, name), <<>>, names)
Tags == UNION {ToSet(names) : names \in NameLists}
-----------------------------------------------------------------------------
(* jobDataRequest: where the Job's rows are, and whether the client knows.   *)

\* An LS Job is stored where its server's profile says now.
Effective(doc) ==
    IF product # "ls" THEN doc
    ELSE [doc EXCEPT !.table = IF server.table = "" THEN @ ELSE server.table,
                     !.value = IF server.value = "" THEN @ ELSE server.value,
                     !.text = server.text]

\* Mutant: the client's table is not compared.
Differs_AnyTable(ask, source) == ask.server # source.server

Differs(ask, source) ==
    \/ ask.server # source.server
    \/ Normal[ask.table] # Normal[source.table]
    \/ Normal[ask.value] # Normal[source.value]
    \/ Normal[ask.text] # Normal[source.text]

Refusal(ask) ==
    IF job = Nothing THEN "JOB_NOT_FOUND"
    ELSE IF \/ ~job.whole
            \/ product = "ls" /\ server = Nothing
            \/ Normal[Effective(job).table] = ""
            \/ Normal[Effective(job).value] = "" THEN "JOB_INVALID_CONFIG"
    ELSE IF Differs(ask, Effective(job)) THEN "JOB_DATA_SOURCE_MISMATCH" ELSE "none"

Source(doc) == [table |-> Normal[Effective(doc).table], value |-> Normal[Effective(doc).value],
                text |-> Normal[Effective(doc).text]]

\* Each Tag of the Job once, in the order of its first selection.
TagEntries(doc) == Distinct(FlattenSeq(doc.selections))
-----------------------------------------------------------------------------
(* The query: metadata, roleColumn and column decide whether it can be made. *)

\* The one column of a role, and a value column of the right type.
QueryRefusal(source) ==
    LET shape == shapes[source.table]
    IN  IF server = Nothing THEN "DB_SERVER_NOT_FOUND"
        ELSE IF shape.type = "none" THEN "DB_TABLE_NOT_FOUND"
        ELSE IF \/ shape.type # "tag"
                \/ shape.keys # 1
                \/ source.value \notin shape.numbers
                \/ source.text # "" /\ source.text \notin shape.strings THEN "DB_REQUEST_INVALID"
        ELSE "none"

Row(tag, at) == [tag |-> tag, at |-> at]
Within(tag, counts) == {at \in 1..counts[tag] : walk.lo <= at /\ at <= walk.hi}

\* How many rows of a Tag's window come before one, in the order of the walk.
Oldest == IF walk.lo > 1 THEN walk.lo ELSE 1
Newest(tag, counts) == IF walk.hi < counts[tag] THEN walk.hi ELSE counts[tag]
Place(tag, at, counts) == IF walk.latest THEN Newest(tag, counts) - at ELSE at - Oldest

\* LIMIT offset, rowsPerTag + 1: the row too many tells that there is more.
Offset == walk.page * walk.size
Fetched(tag, counts) == {at \in Within(tag, counts) : Place(tag, at, counts) \in Offset..Offset + walk.size}

PageRows(counts) ==
    UNION {{Row(tag, at) : at \in {a \in Fetched(tag, counts) : Place(tag, a, counts) # Offset + walk.size}}
             : tag \in walk.names}

HasMore(counts) ==
    \E tag \in walk.names : \E at \in Fetched(tag, counts) : Place(tag, at, counts) = Offset + walk.size
-----------------------------------------------------------------------------
(* The walk of a caller: data() with the cursor of the answer before.        *)

Idle == [is |-> "idle"]

\* A walk opens with the configuration of the Job as its detail showed it.
\* A chart is one answer with all rows, a SQL text the browser runs itself.
Open(names, kind, latest, size, window) ==
    /\ walk.is \in {"idle", "refused"} /\ job # Nothing
    /\ kind = "chart" => ~latest
    /\ walk' = [is |-> "asked", kind |-> kind, ask |-> job, names |-> ToSet(names), latest |-> latest,
                size |-> size, lo |-> window.lo, hi |-> window.hi, page |-> 0,
                source |-> Nothing, pages |-> <<>>, more |-> FALSE,
                before |-> stored, quiet |-> TRUE]
    /\ UNCHANGED <<fixed, job, server, stored, listing, edits>>

Refuse(why) == walk' = [is |-> "refused", why |-> why]

Check ==
    /\ walk.is = "asked"
    /\ LET why == Refusal(walk.ask)
       IN  IF why # "none" THEN Refuse(why)
           ELSE walk' = [walk EXCEPT !.is = "checked", !.source = Source(job)]
    /\ UNCHANGED <<fixed, job, server, stored, listing, edits>>

\* An answer replaces what later pages showed.
Answer ==
    /\ walk.is = "checked" /\ walk.kind = "page"
    /\ LET why == QueryRefusal(walk.source)
           counts == stored[walk.source.table]
       IN  IF why # "none" THEN Refuse(why)
           ELSE walk' = [walk EXCEPT !.is = "shown", !.more = HasMore(counts),
                           !.pages = Append(SubSeq(@, 1, walk.page),
                                            [table |-> walk.source.table, rows |-> PageRows(counts)])]
    /\ UNCHANGED <<fixed, job, server, stored, listing, edits>>

\* chart() makes the text from the Job's table; Neo Web runs it, and knows no Job.
ChartQuery ==
    /\ walk.is = "checked" /\ walk.kind = "chart"
    /\ LET why == QueryRefusal(walk.source)
       IN  IF why # "none" THEN Refuse(why) ELSE walk' = [walk EXCEPT !.is = "query"]
    /\ UNCHANGED <<fixed, job, server, stored, listing, edits>>

RunQuery ==
    /\ walk.is = "query"
    /\ walk' = [walk EXCEPT !.is = "shown",
                  !.pages = <<[table |-> walk.source.table,
                               rows |-> UNION {{Row(tag, at) : at \in Within(tag, stored[walk.source.table])}
                                                : tag \in walk.names}]>>]
    /\ UNCHANGED <<fixed, job, server, stored, listing, edits>>

Unavailable ==
    /\ walk.is \in {"checked", "query"}
    /\ Refuse("DB_UNAVAILABLE")
    /\ UNCHANGED <<fixed, job, server, stored, listing, edits>>

\* cursor.next and cursor.previous.
Turn(page) ==
    /\ walk.is = "shown"
    /\ \/ page = walk.page + 1 /\ walk.more
       \/ walk.page > 0 /\ page = walk.page - 1
    /\ walk' = [walk EXCEPT !.is = "asked", !.page = page]
    /\ UNCHANGED <<fixed, job, server, stored, listing, edits>>

Leave ==
    /\ walk.is = "shown" /\ walk' = Idle
    /\ UNCHANGED <<fixed, job, server, stored, listing, edits>>
-----------------------------------------------------------------------------
(* tags(): an LS Job's own Tags, or the Tags of the table's metadata with    *)
(* the reserved row of the asset hierarchy, which sorts before them (0).     *)

Hierarchy == 0
MetaRows(table) ==
    LET real == {tag \in Tags : stored[table][tag] > 0}
    IN  SetToSortSeq(real \cup (IF shapes[table].hierarchy = "none" THEN {} ELSE {Hierarchy}), <)

First(rows, n) == SubSeq(rows, 1, IF n > Len(rows) THEN Len(rows) ELSE n)

QueryLimit(table, limit) == limit + (IF shapes[table].hierarchy = "asset" THEN 2 ELSE 1)

\* The answer, and (ghost) the Tags there are.
Listed(rows, limit, real) ==
    [tags |-> First(rows, limit), limited |-> Len(rows) > limit, limit |-> limit, real |-> real]

ListTags(limit) ==
    LET source  == Source(job)
        entries == TagEntries(job)
    IN  /\ edits < MaxEdits /\ edits' = edits + 1
        /\ job # Nothing /\ Refusal(job) = "none"
        /\ IF product = "ls"
           THEN LET n == IF limit = 0 THEN Len(entries) ELSE limit
                IN  /\ limit <= Len(entries)
                    /\ listing' = Listed(entries, n, ToSet(entries))
           ELSE /\ limit > 0 /\ QueryRefusal(source) = "none"
                /\ listing' = Listed(SelectSeq(First(MetaRows(source.table),
                                                     QueryLimit(source.table, limit)),
                                               LAMBDA tag : tag # Hierarchy),
                                     limit, ToSet(MetaRows(source.table)) \ {Hierarchy})
        /\ UNCHANGED <<fixed, job, server, stored, walk>>
-----------------------------------------------------------------------------
(* What other processes do meanwhile. *)

\* The collector stores the next row of a Tag of the Job.
Store(tag) ==
    /\ job # Nothing /\ job.whole /\ server # Nothing
    /\ Contains(TagEntries(job), tag)
    /\ LET table == Normal[Effective(job).table]
       IN  /\ table # "" /\ shapes[table].type = "tag" /\ stored[table][tag] < MaxAt
           /\ stored' = [stored EXCEPT ![table][tag] = @ + 1]
    /\ walk' = IF walk.is \in {"idle", "refused"} THEN walk ELSE [walk EXCEPT !.quiet = FALSE]
    /\ UNCHANGED <<fixed, job, server, listing, edits>>

EditJob(doc) ==
    /\ edits < MaxEdits /\ edits' = edits + 1
    /\ doc # job /\ job' = doc
    /\ UNCHANGED <<fixed, server, stored, walk, listing>>

EditServer(record) ==
    /\ edits < MaxEdits /\ edits' = edits + 1
    /\ record # server /\ server' = record
    /\ UNCHANGED <<fixed, job, stored, walk, listing>>
-----------------------------------------------------------------------------
(* What stored Jobs, servers and requests look like.                         *)

\* validateDatabase, positiveInteger, optionalDate
ConstantsFit ==
    /\ \A doc \in Documents :
         doc \in [server : {doc.server}, table : DOMAIN Normal, value : DOMAIN Normal, text : DOMAIN Normal,
                  selections : {doc.selections}, whole : BOOLEAN]
    /\ Servers \subseteq [table : DOMAIN Normal, value : DOMAIN Normal, text : DOMAIN Normal]
    /\ Sizes \subseteq Nat \ {0}
    /\ \A window \in Windows : window.lo \in Int /\ window.hi \in Int
-----------------------------------------------------------------------------
Init ==
    /\ product \in Products
    /\ shapes \in Catalogs
    /\ job \in Documents /\ server \in Servers
    /\ stored = [table \in Tables |-> [tag \in Tags |-> 0]]
    /\ walk = Idle /\ listing = Nothing /\ edits = 0

Next ==
    \/ \E names \in NameLists, kind \in {"page", "chart"}, latest \in BOOLEAN,
          size \in Sizes, window \in Windows : Open(names, kind, latest, size, window)
    \/ Check \/ Answer \/ ChartQuery \/ RunQuery \/ Unavailable \/ Leave
    \/ walk.is = "shown" /\ \E page \in {walk.page + 1, walk.page - 1} : Turn(page)
    \/ \E limit \in Limits : ListTags(limit)
    \/ \E tag \in Tags : Store(tag)
    \/ \E doc \in Documents \cup {Nothing} : EditJob(doc)
    \/ \E record \in Servers \cup {Nothing} : EditServer(record)

Spec == Init /\ [][Next]_vars
-----------------------------------------------------------------------------
Shown == walk.is = "shown"
RowsOf(counts) == {Row(tag, at) : tag \in walk.names, at \in walk.lo..walk.hi}
                    \cap UNION {{Row(tag, at) : at \in 1..counts[tag]} : tag \in Tags}

\* A walk whose last answer says that nothing is left has shown every row
\* that was there when it began, whatever was stored and edited meanwhile; and
\* no row twice when it goes up in time, or when nothing was stored
\* (data-viewer.js: the offset of a page is its number times rowsPerTag).
WalkIsWhole ==
    Shown /\ ~walk.more =>
      /\ RowsOf(walk.before[walk.source.table]) \subseteq UNION {p.rows : p \in ToSet(walk.pages)}
      /\ (walk.quiet \/ ~walk.latest) =>
           \A i, j \in DOMAIN walk.pages : i # j => walk.pages[i].rows \cap walk.pages[j].rows = {}

\* The pages of one walk come from one table, the one the client asked for,
\* however often the Job and its server's profile change on the way.
OneSource ==
    Shown => \A p \in ToSet(walk.pages) : p.table = Normal[walk.ask.table]

\* "limited" is said exactly when there are real Tags the list leaves out, and
\* only Tags are listed.  A reserved row which holds no asset hierarchy is left
\* out of this: the code drops it too, and fetches no row in its place.
LimitedTellsTruth ==
    listing # Nothing /\ (product = "ls" \/ \A t \in Tables : shapes[t].hierarchy # "other") =>
      /\ ToSet(listing.tags) \subseteq listing.real /\ Len(listing.tags) <= listing.limit
      /\ listing.limited <=> listing.real # ToSet(listing.tags)
=============================================================================
