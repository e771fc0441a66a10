---------------------------- MODULE ReadRequests ----------------------------
(***************************************************************************)
(* Scan, Query, BatchGetItem, TransactGetItems and PartiQL SELECT          *)
(* (src/api/handlers.cpp), served page by page while others write, over    *)
(* both storage engines: the maps of MemoryEngine and the layers that      *)
(* LsmEngine merges.  Each engine receives the same calls.                 *)
(*                                                                         *)
(* A row is an item or an index entry: its partition key pk, sort key sk   *)
(* and indexed attribute ix, whether the request's FilterExpression        *)
(* accepts it (hit), whether its time to live has passed (dead) and its    *)
(* size in bytes.  What filters compute is the subject of module           *)
(* ConditionExpressions.                                                   *)
(***************************************************************************)
EXTENDS KeyCodec, FiniteSetsExt, Functions, TLC

CONSTANTS
    Rows,                \* the rows writers may store
    ReadRequestSet,      \* the requests a client may send
    kMaxReadPageBytes,   \* bytes of one page
    kMaxReadPageItems,   \* items of one page
    MaxWrites,           \* bound: storage writes in a behaviour
    MaxLayers,           \* bound: layers of the LSM engine
    None,                \* no row, no start key, no condition
    Tombstone            \* a deleted key in an LSM layer

VARIABLES
    data,       \* MemoryEngine::data_, by storage table and key
    layers,     \* LSM sources, newest first, by internal key
    reader,     \* the progress of the client's read
    writes,     \* storage writes so far
    before,     \* history: the rows when the read began
    touched     \* history: keys written since then

readVars == <<data, layers, reader, writes, before, touched>>

-----------------------------------------------------------------------------
(* Storage tables: the base table and its index.                           *)

Namespaces == {"base", "index"}

\* index_storage_table: the base name, a separator and the index name.
StorageTable(ns) == IF ns = "base" THEN <<84>> ELSE <<84, 29, 105>>

table_prefix(ns) == StorageTable(ns) \o <<0>>
internal_key(ns, key) == table_prefix(ns) \o key
UserKey(ns, key) == SubSeq(key, Len(table_prefix(ns)) + 1, Len(key))

encode_index_storage_key(row) == encode_primary_key(<<row.ix, row.pk, row.sk>>)

\* Where a row is stored, and what a LastEvaluatedKey of it encodes to.
StorageKey(ns, row) ==
    IF ns = "base" THEN encode_primary_key(<<row.pk, row.sk>>)
    ELSE encode_index_storage_key(row)

\* An ordered map is a sequence of entries with increasing keys.
Entry(key, row) == [key |-> key, row |-> row]

WithoutKey(map, key) == SelectSeq(map, LAMBDA e : e.key # key)

WithEntry(map, key, row) ==
    SelectSeq(map, LAMBDA e : Less(e.key, key)) \o <<Entry(key, row)>>
    \o SelectSeq(map, LAMBDA e : Less(key, e.key))

Lookup(map, key) ==
    LET found == SelectSeq(map, LAMBDA e : e.key = key)
    IN  IF found = <<>> THEN None ELSE found[1].row

-----------------------------------------------------------------------------
(* One page: rows are taken until the next one exceeds the limit or the    *)
(* bytes of a page; the first row always fits.                             *)

BytesOf(rows, n) == FoldLeft(LAMBDA sum, e : sum + e.row.size, 0, SubSeq(rows, 1, n))

Fits(rows, n, limit) ==
    \/ n = 1
    \/ /\ limit = 0 \/ n - 1 < limit
       /\ rows[n].row.size <= kMaxReadPageBytes - Min({BytesOf(rows, n - 1), kMaxReadPageBytes})

\* Mutation: the page ends with the row that did not fit.
PageEndsTooLate(rows, limit) ==
    LET full == {n \in DOMAIN rows : ~Fits(rows, n, limit)}
    IN  IF full = {} THEN [items |-> rows, last |-> <<>>]
        ELSE [items |-> SubSeq(rows, 1, Min(full) - 1), last |-> <<rows[Min(full)]>>]

\* last holds the row a LastEvaluatedKey is made of, if rows remain.
PageOf(rows, limit) ==
    LET full == {n \in DOMAIN rows : ~Fits(rows, n, limit)}
    IN  IF full = {} THEN [items |-> rows, last |-> <<>>]
        ELSE [items |-> SubSeq(rows, 1, Min(full) - 1), last |-> <<rows[Min(full) - 1]>>]

\* The leading entries that have the prefix: both engines stop at the first
\* one that has not.
WhilePrefixed(entries, prefix) ==
    LET out == {i \in DOMAIN entries : ~HasPrefix(entries[i].key, prefix)}
    IN  IF out = {} THEN entries ELSE SubSeq(entries, 1, Min(out) - 1)

Directed(entries, forward) == IF forward THEN entries ELSE Reverse(entries)

-----------------------------------------------------------------------------
(* MemoryEngine.                                                           *)

MemoryPut(table, key, row) == WithEntry(table, key, row)
MemoryRemove(table, key) == WithoutKey(table, key)
MemoryGet(table, key) == Lookup(table, key)

MemoryScan(table, start, limit) ==
    PageOf(SelectSeq(table, LAMBDA e : start = None \/ Less(start, e.key)), limit)

\* attribute_equals of memory_engine.cpp
MemoryMatches(row, condition) == row[condition.attr] = condition.value

MemoryQuery(table, condition, start, limit, prefix, forward) ==
    LET upper == prefix_successor(prefix)
        Ahead(e) == IF start # None
                    THEN IF forward THEN Less(start, e.key) ELSE Less(e.key, start)
                    ELSE IF forward THEN ~Less(e.key, prefix)
                         ELSE upper = <<>> \/ Less(e.key, upper)
        entries == WhilePrefixed(Directed(SelectSeq(table, Ahead), forward), prefix)
    IN  PageOf(SelectSeq(entries, LAMBDA e : MemoryMatches(e.row, condition)), limit)

-----------------------------------------------------------------------------
(* LsmEngine: the MergedReader over its layers.                            *)

\* Mutation: the start key is read again.
WalkIncludesStart(layer, prefix, start, forward) ==
    LET upper == prefix_successor(prefix)
        Ahead(e) == IF forward
                    THEN ~Less(e.key, IF start # None THEN start ELSE prefix)
                    ELSE IF start # None THEN ~Less(start, e.key)
                         ELSE upper = <<>> \/ Less(e.key, upper)
    IN  WhilePrefixed(Directed(SelectSeq(layer, Ahead), forward), prefix)

\* The entries one source contributes: from its starting position on, until the
\* first key that is out of range.
Walk(layer, prefix, start, forward) ==
    LET upper == prefix_successor(prefix)
        Ahead(e) == IF forward
                    THEN IF start # None THEN Less(start, e.key) ELSE ~Less(e.key, prefix)
                    ELSE IF start # None THEN Less(e.key, start)
                         ELSE upper = <<>> \/ Less(e.key, upper)
    IN  WhilePrefixed(Directed(SelectSeq(layer, Ahead), forward), prefix)

\* Mutation: of equal keys the oldest source's entry is returned.
Oldest(i) ==
    SelectSeq(layers[i], LAMBDA e :
        \A j \in i + 1 .. Len(layers) : Lookup(layers[j], e.key) = None)

\* MergedReader: of the entries with one key it returns the newest source's.
Newest(i) ==
    SelectSeq(layers[i], LAMBDA e : \A j \in 1 .. i - 1 : Lookup(layers[j], e.key) = None)

Merged(prefix, start, forward) ==
    SortSeq(FlattenSeq([i \in DOMAIN layers |-> Walk(Newest(i), prefix, start, forward)]),
            LAMBDA m, n : IF forward THEN Less(m.key, n.key) ELSE Less(n.key, m.key))

\* MergedReader::next skips a key whose newest entry is a tombstone.
MergedRows(prefix, start, forward) ==
    SelectSeq(Merged(prefix, start, forward), LAMBDA e : e.row # Tombstone)

\* Start keys and prefixes are internal keys here.
InternalStart(ns, start) == IF start = None THEN None ELSE internal_key(ns, start)

LsmScan(ns, start, limit) ==
    PageOf(MergedRows(table_prefix(ns), InternalStart(ns, start), TRUE), limit)

\* attribute_equals of lsm_engine.cpp: it has no case for binary values.
LsmMatches(row, condition) ==
    condition.value.type # "B" /\ row[condition.attr] = condition.value

LsmQuery(ns, condition, start, limit, prefix, forward) ==
    LET rows == MergedRows(internal_key(ns, prefix), InternalStart(ns, start), forward)
    IN  PageOf(SelectSeq(rows, LAMBDA e : LsmMatches(e.row, condition)), limit)

\* LsmEngine::get, layer by layer.
LsmGet(ns, key) ==
    LET found == SelectSeq(FlattenSeq(layers), LAMBDA e : e.key = internal_key(ns, key))
    IN  IF found = <<>> \/ found[1].row = Tombstone THEN None ELSE found[1].row

-----------------------------------------------------------------------------
(* Handlers.                                                               *)

bounded_read_limit(limit) ==
    IF limit = 0 THEN kMaxReadPageItems ELSE Min({limit, kMaxReadPageItems})

\* A stable hash of the storage key; segments only need it to be a function.
fnv1a(key) == FoldLeft(+, 0, key)

InSegment(req, key) ==
    req.total = 0 \/ fnv1a(UserKey(req.ns, key)) % req.total = req.segment

Compare(a, b, op) ==
    LET less == IF a.type = "N" THEN a.v < b.v ELSE Less(a.v, b.v)
    IN  /\ a.type = b.type
        /\ CASE op = "=" -> a.v = b.v
             [] op = "<" -> less
             [] op = "<=" -> less \/ a.v = b.v
             [] op = ">" -> ~less /\ a.v # b.v
             [] op = ">=" -> ~less

sort_matches(value, sort) ==
    CASE sort = None -> TRUE
      [] sort # None /\ sort.op = "begins_with" ->
            value.type = "S" /\ sort.v1.type = "S" /\ HasPrefix(value.v, sort.v1.v)
      [] sort # None /\ sort.op = "BETWEEN" ->
            Compare(value, sort.v1, ">=") /\ Compare(value, sort.v2, "<=")
      [] OTHER -> Compare(value, sort.v1, sort.op)

\* The attributes of the hash key, and of the sort key of a query.
HashAttr(ns) == IF ns = "base" THEN "pk" ELSE "ix"
SortAttr(ns) == IF ns = "base" THEN "sk" ELSE "pk"

\* Time to live hides items of the base table only.
Hidden(ns, row) == ns = "base" /\ row.dead

\* handle_scan: what a page's rows become.
ScanOutput(req, rows) ==
    SelectSeq(rows, LAMBDA r : /\ InSegment(req, r.key)
                               /\ ~Hidden(req.ns, r.row)
                               /\ req.filter => r.row.hit)

\* handle_query and handle_index_query: what a page's rows become.
QueryOutput(req, rows) ==
    SelectSeq(rows, LAMBDA r : /\ ~Hidden(req.ns, r.row)
                               /\ sort_matches(r.row[SortAttr(req.ns)], req.sort)
                               /\ req.filter => r.row.hit)

\* PartiQL SELECT: one page, and its WHERE clause over every row.
SelectOutput(req, rows) ==
    SelectSeq(rows, LAMBDA r : ~Hidden("base", r.row) /\ (req.filter => r.row.hit))

HashCondition(req) == [attr |-> HashAttr(req.ns), value |-> req.hash]

\* The storage call of a page.
LsmPage(req, prefix, start) ==
    CASE req.op = "Scan" -> LsmScan(req.ns, start, bounded_read_limit(req.limit))
      [] req.op = "Select" -> LsmScan("base", None, 0)
      [] req.op = "Query" ->
            LsmQuery(req.ns, HashCondition(req), start, bounded_read_limit(req.limit),
                     prefix, req.forward)

MemoryPage(req, prefix, start) ==
    CASE req.op = "Scan" -> MemoryScan(data[req.ns], start, bounded_read_limit(req.limit))
      [] req.op = "Select" -> MemoryScan(data["base"], None, 0)
      [] req.op = "Query" ->
            MemoryQuery(data[req.ns], HashCondition(req), start, bounded_read_limit(req.limit),
                        prefix, req.forward)

Output(req, rows) ==
    CASE req.op = "Scan" -> ScanOutput(req, rows)
      [] req.op = "Query" -> QueryOutput(req, rows)
      [] req.op = "Select" -> SelectOutput(req, rows)

Paged == {"Scan", "Query", "Select"}

-----------------------------------------------------------------------------
(* Storage writes by other requests, and a memtable that is rotated out.   *)

Logged(ns, key, row) == [layers EXCEPT ![1] = WithEntry(@, internal_key(ns, key), row)]

Touch(ns, key) ==
    /\ writes' = writes + 1
    /\ touched' = IF reader.phase = "reading" /\ ns = reader.req.ns
                  THEN touched \cup {key} ELSE touched
    /\ UNCHANGED <<reader, before>>

PutRow(ns, key, row) ==
    /\ writes < MaxWrites
    /\ data' = [data EXCEPT ![ns] = MemoryPut(@, key, row)]
    /\ layers' = Logged(ns, key, row)
    /\ Touch(ns, key)

\* Removing an absent key leaves a tombstone as well.
RemoveRow(ns, key) ==
    /\ writes < MaxWrites
    /\ data' = [data EXCEPT ![ns] = MemoryRemove(@, key)]
    /\ layers' = Logged(ns, key, Tombstone)
    /\ Touch(ns, key)

Rotate ==
    /\ Len(layers) < MaxLayers
    /\ layers[1] # <<>>
    /\ layers' = <<<<>>>> \o layers
    /\ UNCHANGED <<data, reader, writes, before, touched>>

-----------------------------------------------------------------------------
(* The read.                                                               *)

NotReading == [phase |-> "idle", req |-> None, prefix |-> <<>>, start |-> None, left |-> <<>>,
               got |-> <<>>, cut |-> FALSE]

Begin ==
    /\ reader.phase = "idle"
    /\ \E req \in ReadRequestSet :
        /\ reader' = [NotReading EXCEPT !.phase = "reading", !.req = req, !.left = req.keys,
            !.prefix = IF req.op = "Query" THEN encode_key_component(req.hash) ELSE <<>>]
        /\ before' = data[req.ns]
    /\ touched' = {}
    /\ UNCHANGED <<data, layers, writes>>

\* One page.  The client sends the LastEvaluatedKey back as the next start
\* key; PartiQL SELECT drops it.
NextPage ==
    /\ reader.phase = "reading" /\ reader.req.op \in Paged
    /\ \E page \in {LsmPage(reader.req, reader.prefix, reader.start)} :
       LET req == reader.req
           more == page.last # <<>> /\ req.op # "Select"
       IN  reader' = [reader EXCEPT
                !.got = @ \o Output(req, page.items),
                !.start = IF more THEN StorageKey(req.ns, page.last[1].row) ELSE None,
                !.cut = page.last # <<>> /\ req.op = "Select",
                !.phase = IF more THEN "reading" ELSE "done"]
    /\ UNCHANGED <<data, layers, writes, before, touched>>

\* BatchGetItem and TransactGetItems: one storage.get after the other.
NextGet ==
    /\ reader.phase = "reading" /\ reader.req.op \notin Paged
    /\ LET row == LsmGet("base", StorageKey("base", Head(reader.left)))
       IN  reader' = [reader EXCEPT
                !.got = IF row # None /\ ~row.dead THEN Append(@, Entry(internal_key("base", StorageKey("base", row)), row)) ELSE @,
                !.left = Tail(@),
                !.phase = IF Tail(reader.left) = <<>> THEN "done" ELSE "reading"]
    /\ UNCHANGED <<data, layers, writes, before, touched>>

-----------------------------------------------------------------------------

CONSTANT InitialTable   \* the base table and the index at first, ordered maps

\* The memtable is empty: the initial rows are in an older layer.
ReadInit ==
    /\ data = InitialTable
    /\ layers = <<<<>>, FlattenSeq([i \in 1 .. 2 |->
                    LET ns == <<"base", "index">>[i]
                    IN  [j \in DOMAIN data[ns] |->
                            [data[ns][j] EXCEPT !.key = internal_key(ns, @)]]])>>
    /\ reader = NotReading
    /\ writes = 0
    /\ before = <<>>
    /\ touched = {}

ReadNext ==
    \/ \E ns \in Namespaces, row \in Rows :
        PutRow(ns, StorageKey(ns, row), row) \/ RemoveRow(ns, StorageKey(ns, row))
    \/ Rotate
    \/ Begin
    \/ NextPage
    \/ NextGet

ReadSpec == ReadInit /\ [][ReadNext]_readVars

-----------------------------------------------------------------------------
(* Properties.                                                             *)

\* Whether a read that began with this row must return it, where the row has
\* not expired; an expired row of the base table is returned by no read.
Wanted(req, row) ==
    CASE req.op = "Scan" -> ScanOutput(req, <<Entry(internal_key(req.ns, StorageKey(req.ns, row)), row)>>) # <<>>
      [] req.op = "Query" -> /\ row[HashAttr(req.ns)] = req.hash
                             /\ QueryOutput(req, <<[row |-> row]>>) # <<>>
      [] req.op = "Select" -> SelectOutput(req, <<[row |-> row]>>) # <<>>
      [] OTHER -> /\ ~row.dead
                  /\ \E asked \in Range(req.keys) : asked.pk = row.pk /\ asked.sk = row.sk

Times(k) == Cardinality({i \in DOMAIN reader.got : reader.got[i].key = internal_key(reader.req.ns, k)})

\* Expired rows that a read of an index comes upon: the handlers return them
\* (handlers.cpp:1214), the documentation says that they are filtered from
\* reads.
Unsettled(req, row) == req.ns = "index" /\ row.dead

\* A read that has ended returned every row it asked for exactly once, and
\* nothing else, as far as rows are concerned that nobody wrote meanwhile: no
\* page boundary loses or repeats one, whatever the limit, the filter, the
\* page size or the segment.  An expired row is not returned from the base
\* table, and at most once from an index.  A PartiQL SELECT that ran into the
\* end of its page is out, because it is never continued.
PagedReadIsComplete ==
    reader.phase = "done" =>
        \A i \in DOMAIN before : before[i].key \notin touched =>
            LET times == Times(before[i].key)
                row == before[i].row
            IN  /\ times <= 1
                /\ times = 1 => Wanted(reader.req, row)
                /\ Wanted(reader.req, row) /\ ~Unsettled(reader.req, row) /\ ~reader.cut =>
                        times = 1

\* Key order in terms of the attributes' values: strings by their bytes,
\* numbers by their value, the first attribute first.
Attributes(ns, row) == IF ns = "base" THEN <<row.pk, row.sk>> ELSE <<row.ix, row.pk, row.sk>>

Precedes(a, b) ==
    \E i \in DOMAIN a : /\ Compare(a[i], b[i], "<")
                        /\ \A j \in 1 .. i - 1 : a[j] = b[j]

\* Pages follow each other in the order of the key attributes, ascending or, for
\* a backward query, descending: the storage keys' byte order is that order
\* (key_codec.cpp).  In particular no row is returned twice, written or not.
ReadFollowsKeyOrder ==
    (reader.phase # "idle" /\ reader.req.op \in Paged) =>
        \A i \in 1 .. Len(reader.got) - 1 :
            LET a == Attributes(reader.req.ns, reader.got[i].row)
                b == Attributes(reader.req.ns, reader.got[i + 1].row)
            IN  IF reader.req.forward THEN Precedes(a, b) ELSE Precedes(b, a)

RowsOf(entries) == [i \in DOMAIN entries |-> entries[i].row]

\* The two engines answer the same calls alike: the next page and the next item
\* of a read, over whatever layers and tombstones the LSM engine has, for
\* string and number keys.
EnginesAgree ==
    reader.phase = "reading" =>
        IF reader.req.op \in Paged
        THEN \E l \in {LsmPage(reader.req, reader.prefix, reader.start)},
                m \in {MemoryPage(reader.req, reader.prefix, reader.start)} :
                /\ RowsOf(l.items) = RowsOf(m.items)
                /\ RowsOf(l.last) = RowsOf(m.last)
        ELSE LET key == StorageKey("base", Head(reader.left))
             IN  LsmGet("base", key) = MemoryGet(data["base"], key)

\* A client that asks for page after page gets nearer to the end with each: the
\* LastEvaluatedKey of a page lies strictly beyond the start key it was asked
\* with, in the direction of the read, also when the segment or the filter
\* leaves the page empty, and whatever was written in between.
PagesMoveOn ==
    [][reader.start # None /\ reader'.start # None /\ reader' # reader
            => IF reader.req.forward THEN Less(reader.start, reader'.start)
               ELSE Less(reader'.start, reader.start)]_readVars

=============================================================================
