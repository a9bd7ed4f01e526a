---------------------------- MODULE PagedRecords ----------------------------
(***************************************************************************)
(* StorageKnowledgeStore (src/collaboration/knowledge/impl/storage-         *)
(* knowledge.ts), StorageCheckpointManager (src/reliability/checkpoint/     *)
(* impl/storage-checkpoint.ts) and their routes.  They find an entry by its *)
(* id, and list all, by going through storage.list page after page, while   *)
(* other calls write.  The memory backend lists the rows that were written  *)
(* last first, and those of one millisecond in the order of their           *)
(* insertion, a page in one turn.  Postgres promises no order, nor the same *)
(* one twice, and a page is two statements of a READ COMMITTED transaction, *)
(* the count of the rows and then those of the page, between which others   *)
(* commit.                                                                  *)
(*                                                                          *)
(* The content of an entry, and the filters of search, which look at it,    *)
(* are left out, as are the checkpoints of other targets.                   *)
(***************************************************************************)
EXTENDS Integers, SequencesExt

CONSTANTS
    EntryKeys,      \* namespace and key of the knowledge entries
    Setters,        \* the calls of set, each once
    Finders,        \* the calls that go through the pages, each once
    PageSize,       \* 500 and 200 in the code
    Stored,         \* bound: entries stored before
    MaxEntries,     \* bound: ids ever given
    MaxMillis       \* bound: milliseconds

ASSUME PagedAssumption ==
    /\ PageSize \in Nat \ {0} /\ Stored \in Nat /\ MaxEntries \in Nat /\ MaxMillis \in Nat
    /\ EntryKeys \subseteq 1 .. MaxEntries /\ 1 .. Stored \subseteq EntryKeys

VARIABLES
    keeper,     \* "knowledge" or "checkpoint"
    sorted,     \* the backend is the memory backend
    entries,    \* the rows in the order of their insertion
    given,      \* the ids given so far
    millis,     \* the clock
    setting,    \* the calls of set: the key and the id they have read
    find        \* the calls that go through the pages

pagedvars == <<keeper, sorted, entries, given, millis, setting, find>>

\* ms is updatedAt of an entry, createdAt of a checkpoint.
Entry == [key : 1 .. MaxEntries, id : 1 .. MaxEntries, ms : 0 .. MaxMillis]
Ids(rows) == {rows[i].id : i \in DOMAIN rows}

\* stayed: the entries stored ever since the first page was read; met: what was
\* done to other entries since then.
FindCall == [op : {"list", "load", "delete"}, id : 0 .. MaxEntries, key : 0 .. MaxEntries,
             at : {"idle", "page", "rows", "remove", "found", "ended", "true", "false"},
             offset : Nat, total : Nat, seen : Seq(Entry), stayed : SUBSET (1 .. MaxEntries),
             met : SUBSET {"moved", "grown"}]

PagedTypeOK ==
    /\ keeper \in {"knowledge", "checkpoint"} /\ sorted \in BOOLEAN
    /\ entries \in Seq(Entry) /\ given \in 0 .. MaxEntries /\ millis \in 0 .. MaxMillis
    /\ \A i, j \in DOMAIN entries : entries[i].key = entries[j].key => i = j
    /\ \A i \in Ids(entries) : i <= given
    /\ setting \in [Setters -> [at : {"idle", "set", "done"}, key : 0 .. MaxEntries, read : 0 .. MaxEntries]]
    /\ find \in [Finders -> FindCall]

NoSet  == [at |-> "idle", key |-> 0, read |-> 0]
NoFind == [op |-> "list", id |-> 0, key |-> 0, at |-> "idle", offset |-> 0, total |-> 0, seen |-> <<>>,
           stayed |-> {}, met |-> {}]

PagedInit ==
    /\ keeper \in {"knowledge", "checkpoint"} /\ sorted \in BOOLEAN
    /\ given \in 0 .. Stored /\ entries = [i \in 1 .. given |-> [key |-> i, id |-> i, ms |-> 0]]
    /\ millis = 0
    /\ setting = [s \in Setters |-> NoSet]
    /\ find = [f \in Finders |-> NoFind]

----------------------------------------------------------------------------
\* list of the memory backend: newest first.
Before(i, j) == entries[i].ms > entries[j].ms \/ (entries[i].ms = entries[j].ms /\ i < j)

\* The orders in which a backend may list the rows.
Orders ==
    {p \in Bijection(DOMAIN entries, DOMAIN entries) :
        sorted => \A i, j \in DOMAIN entries : i < j => Before(p[i], p[j])}

\* The rows storage.list may return, and hasMore, which goes by the count.
Pages(offset) ==
    LET last == Min({offset + PageSize, Len(entries)})
    IN  {[i \in 1 .. last - offset |-> entries[p[offset + i]]] : p \in Orders}

HasMore(offset, total) == offset + PageSize < total

\* The calls that are under way learn that the ids lost are gone or changed, and
\* how the listing has changed.
Noted(calls, lost, how) ==
    [f \in Finders |->
        IF calls[f].at \in {"page", "rows", "remove"}
        THEN [calls[f] EXCEPT !.stayed = @ \ lost, !.met = @ \cup how] ELSE calls[f]]

----------------------------------------------------------------------------
\* save of a checkpoint, under its new id.  createdAt is taken before the row is
\* written, on the memory backend in the same turn.
SaveCheckpoint ==
    /\ keeper = "checkpoint" /\ given < MaxEntries /\ given' = given + 1
    /\ \E ms \in (IF sorted THEN {millis} ELSE 0 .. millis) :
          entries' = Append(entries, [key |-> given', id |-> given', ms |-> ms])
    /\ find' = Noted(find, {}, {"grown"})
    /\ UNCHANGED <<keeper, sorted, millis, setting>>

\* set of knowledge: the get of the entry.
SetReads(s, k) ==
    /\ keeper = "knowledge" /\ setting[s].at = "idle"
    /\ setting' = [setting EXCEPT ![s] =
          [at |-> "set", key |-> k,
           read |-> IF \E e \in Range(entries) : e.key = k
                    THEN (CHOOSE e \in Range(entries) : e.key = k).id ELSE 0]]
    /\ UNCHANGED <<keeper, sorted, entries, given, millis, find>>

\* set of knowledge: the set, with the id that get found or a new one.
SetWrites(s) ==
    /\ setting[s].at = "set"
    /\ IF setting[s].read = 0 THEN given < MaxEntries /\ given' = given + 1 ELSE UNCHANGED given
    /\ LET k == setting[s].key
           e == [key |-> k, id |-> IF setting[s].read = 0 THEN given' ELSE setting[s].read, ms |-> millis]
           old == {i \in DOMAIN entries : entries[i].key = k}
       IN  IF old = {}
           THEN entries' = Append(entries, e) /\ find' = Noted(find, {}, {"grown"})
           ELSE \E i \in old :
                   /\ entries' = [entries EXCEPT ![i] = e]
                   /\ find' = Noted(find, {entries[i].id} \ {e.id}, {"moved"})
    /\ setting' = [setting EXCEPT ![s].at = "done"]
    /\ UNCHANGED <<keeper, sorted, millis>>

----------------------------------------------------------------------------
\* Mutant: the offset of the next page is counted from the rows of this one, and
\* one of them is left out.
NextOffsetLate(offset) == offset + PageSize + 1

NextOffset(offset) == offset + PageSize

\* The call c has the rows of a page and looks through them for its id, or
\* collects them; there were total rows when it counted.
LooksThrough(f, c, total) ==
    /\ \E page \in Pages(c.offset) :
          LET hits == {i \in DOMAIN page : c.op # "list" /\ page[i].id = c.id}
              d == [c EXCEPT !.total = 0, !.seen = IF c.op = "list" THEN @ \o page ELSE @]
          IN  find' = [find EXCEPT ![f] =
                 IF hits # {}
                 THEN [d EXCEPT !.at = IF c.op = "load" THEN "found" ELSE "remove",
                                !.key = page[CHOOSE i \in hits : TRUE].key, !.stayed = {c.id}]
                 ELSE IF HasMore(c.offset, total)
                 THEN [d EXCEPT !.at = "page", !.offset = NextOffset(@)]
                 ELSE [d EXCEPT !.at = "ended"]]
    /\ UNCHANGED <<keeper, sorted, entries, given, millis, setting>>

\* storage.list, on Postgres up to the rows.
Lists(f, c) ==
    IF sorted THEN LooksThrough(f, c, Len(entries))
    ELSE /\ find' = [find EXCEPT ![f] = [c EXCEPT !.at = "rows", !.total = Len(entries)]]
         /\ UNCHANGED <<keeper, sorted, entries, given, millis, setting>>

\* search and list (also for loadLatest), load and delete: the first page.
FirstPage(f, op, id) ==
    /\ find[f].at = "idle" /\ id <= given /\ (op = "list" <=> id = 0)
    /\ keeper = "knowledge" => op # "load"
    /\ Lists(f, [NoFind EXCEPT !.op = op, !.id = id, !.stayed = Ids(entries)])

NextPage(f) == find[f].at = "page" /\ Lists(f, find[f])

\* Postgres: the statement for the rows.
RowsRead(f) == find[f].at = "rows" /\ LooksThrough(f, find[f], find[f].total)

\* delete: the row under the key of the entry that was found goes.
DeleteFound(f) ==
    /\ find[f].at = "remove"
    /\ LET old == {i \in DOMAIN entries : entries[i].key = find[f].key}
       IN  IF old = {} THEN UNCHANGED entries /\ find' = [find EXCEPT ![f].at = "false"]
           ELSE \E i \in old :
                   /\ entries' = RemoveAt(entries, i)
                   /\ find' = [Noted(find, {entries[i].id}, {"moved"}) EXCEPT ![f].at = "true"]
    /\ UNCHANGED <<keeper, sorted, given, millis, setting>>

Millisecond ==
    /\ millis < MaxMillis /\ millis' = millis + 1
    /\ UNCHANGED <<keeper, sorted, entries, given, setting, find>>

PagedNext ==
    \/ SaveCheckpoint \/ Millisecond
    \/ \E s \in Setters : SetWrites(s) \/ \E k \in EntryKeys : SetReads(s, k)
    \/ \E f \in Finders :
          \/ NextPage(f) \/ RowsRead(f) \/ DeleteFound(f)
          \/ \E op \in {"list", "load", "delete"}, id \in 0 .. MaxEntries : FirstPage(f, op, id)

PagedSpec == PagedInit /\ [][PagedNext]_pagedvars

----------------------------------------------------------------------------
\* list of checkpoints sorts what it has collected, and loadLatest takes the first.
Latest(seen) ==
    LET best == {i \in DOMAIN seen : \A j \in DOMAIN seen : seen[j].ms <= seen[i].ms}
    IN  seen[CHOOSE i \in best : \A j \in best : i <= j]

ScanEnds(f) == find[f].at # "ended" /\ find'[f].at = "ended"

\* Nothing that stays stored is missed, and nothing is seen twice, by a call that
\* gets along with one page; on Postgres only if nothing is stored between the
\* count and the rows, as the count then says there is no other page.  With more
\* pages it takes the memory backend, and that nothing is deleted or updated, or
\* also stored, before the last one.
AnswersComplete ==
    [][\A f \in Finders : ScanEnds(f) =>
          LET c == find'[f]
              still == \/ c.offset = 0 /\ "grown" \notin c.met
                       \/ sorted /\ "moved" \notin c.met
          IN  /\ still => IF c.op = "list" THEN c.stayed \subseteq Ids(c.seen) ELSE c.id \notin c.stayed
              /\ still /\ "grown" \notin c.met =>
                    \A i, j \in DOMAIN c.seen : c.seen[i].id = c.seen[j].id => i = j]_pagedvars

\* On the memory backend loadLatest is at least as new as every checkpoint that
\* was there when it began and is still there, whatever is saved and deleted
\* while it goes through the pages.
LatestIsNewest ==
    [][\A f \in Finders : keeper = "checkpoint" /\ sorted /\ ScanEnds(f) =>
          LET c == find'[f]
          IN  \A e \in Range(entries) :
                 c.op = "list" /\ e.id \in c.stayed => c.seen # <<>> /\ e.ms <= Latest(c.seen).ms]_pagedvars

\* delete takes the entry of that id, though it goes by a key it has read before:
\* another entry, or none, only when that entry was gone already.
RightEntryRemoved ==
    [][\A f \in Finders :
          find[f].at = "remove" /\ find'[f].at # "remove" /\ find[f].id \in find[f].stayed =>
              find'[f].at = "true" /\ Ids(entries) \ Ids(entries') = {find[f].id}]_pagedvars

\* Entries are found while others write.
ScansTrue == AnswersComplete /\ LatestIsNewest /\ RightEntryRemoved
=============================================================================
