--------------------------- MODULE ImportCollection ---------------------------
(***************************************************************************)
(* POST /import: one caller's documents read back into the category tree,  *)
(* the media objects and their filing (controllers/transfer_import.py and  *)
(* the route in app/routes/transfer.py).                                   *)
(*                                                                         *)
(* A manifest is an archive without files: both formats walk the same rows *)
(* in the same order.  The tree is committed path by path, then each row   *)
(* is settled on its own, then the route enqueues the scans.  The owner    *)
(* goes on editing meanwhile.  A path is resolved in one step; what may    *)
(* come between its levels is in Categories, and the steps of a completion *)
(* are in UploadSessions.                                                  *)
(***************************************************************************)
EXTENDS Naturals, Sequences, FiniteSets

CONSTANTS Importers,      \* slots serving import_media
          Entries,        \* ids of the media rows documents carry
          Slugs,          \* slugs of categories
          Paths,          \* slug paths
          IdCap,          \* bound: primary keys of category
          Documents,      \* what a caller may upload
          Owned,          \* entries that are live objects of the caller at first
          MaxObjects, MaxCategories, MaxDepth,    \* MEDIA_IMPORT_MAX_*
          Faults,         \* TRUE: store, broker and processes may fail
          EditCap,        \* bound: edits of the owner
          Null            \* no category, no entry

Ids == 1 .. IdCap

(* A path and the paths above it. *)
Prefixes(p) == {SubSeq(p, 1, n) : n \in 1 .. Len(p)}

(* rows: the media rows in order; paths: where each is filed; tree: the paths
   category_tree declares; packed: rows whose file is in the archive; unfit:
   rows whose MIME, size or metadata no upload could have. *)
Document == [rows : Seq(Entries), paths : [Entries -> SUBSET Paths], tree : SUBSET Paths,
             packed : SUBSET Entries, unfit : SUBSET Entries]

Outcomes == {"created", "linked", "skipped", "failed"}

ASSUME ImportAssumption ==
  /\ Paths \subseteq Seq(Slugs) \ {<<>>}
  /\ \A p \in Paths : Prefixes(p) \subseteq Paths
  /\ Documents \subseteq Document
  /\ Owned \subseteq Entries
  /\ {MaxObjects, MaxCategories, MaxDepth, EditCap, IdCap} \subseteq Nat
  /\ Faults \in BOOLEAN
  /\ Null \notin Ids /\ Null \notin Entries /\ Null \notin Outcomes

VARIABLES row,      \* per category id: not handed out yet, live, or deleted
          path,     \* per category id: its path, <<>> if that is none of Paths
          object,   \* per entry: no media_object, a live one of the caller's, or a
                    \* row an import may not touch: rejected, deleted, another's
          session,  \* per entry: upload_session row
          stored,   \* entries whose bytes are in the store
          filed,    \* per entry: its link rows in media_object_category
          queued,   \* entries whose scan job was enqueued
          edits,    \* edits of the owner so far
          landed,   \* history: documents wholly imported since the last edit
          overlapped,  \* history: two imports were under way at once
          import       \* per slot: the import it serves

importVars == <<row, path, object, session, stored, filed, queued, edits, landed, overlapped, import>>
library == <<row, path, object, session, stored, filed>>

(* at: next step; doc: the document; keys: paths still to resolve; tree: the
   rows resolved; n: the row of the document it is at; had: filing read for it;
   report: per row; told: rows with scan_queued; since: edits when it began;
   again: doc had landed when it began. *)
NoImport == [at |-> "idle", doc |-> Null, keys |-> {}, tree |-> [p \in {} |-> Null],
             n |-> 1, had |-> {}, report |-> <<>>, told |-> {}, since |-> 0,
             again |-> FALSE]

Live == {c \in Ids : row[c] = "live"}
At(p) == {c \in Live : path[c] = p}

(* Types, and what the foreign keys keep: links join live rows. *)
ImportTypeOK ==
  /\ row \in [Ids -> {"new", "live", "gone"}]
  /\ path \in [Ids -> Paths \cup {<<>>}]
  /\ object \in [Entries -> {"none", "live", "taken"}]
  /\ session \in [Entries -> {"none", "open", "closed"}]
  /\ stored \subseteq Entries /\ queued \subseteq Entries
  /\ filed \in [Entries -> SUBSET Live]
  /\ \A e \in Entries : object[e] = "none" => filed[e] = {}
  /\ edits \in 0 .. EditCap /\ landed \subseteq Documents /\ overlapped \in BOOLEAN
  /\ \A i \in Importers :
       /\ import[i].at \in {"idle", "tree", "match", "file", "put", "record", "complete",
                         "scan", "done", "error"}
       /\ import[i].doc \in Documents \cup {Null}
       /\ import[i].report \in Seq(Outcomes \cup {Null})

ImportInit ==
  /\ row = [c \in Ids |-> "new"] /\ path = [c \in Ids |-> <<>>]
  /\ object = [e \in Entries |-> IF e \in Owned THEN "live" ELSE "none"]
  /\ session = [e \in Entries |-> IF e \in Owned THEN "closed" ELSE "none"]
  /\ stored = Owned /\ queued = Owned
  /\ filed = [e \in Entries |-> {}]
  /\ edits = 0 /\ landed = {} /\ overlapped = FALSE
  /\ import = [i \in Importers |-> NoImport]

-----------------------------------------------------------------------------
(* The document                                                            *)

(* recreate_tree: every path the document names, and those above them. *)
Named(doc) == UNION {Prefixes(p) : p \in doc.tree \cup UNION {doc.paths[e] : e \in Entries}}

(* _assert_document_within_ceilings, _assert_archive_within_ceilings, path_chain
   and recreate_tree up to its first write. *)
TooLarge(doc) ==
  \/ Len(doc.rows) > MaxObjects \/ Cardinality(doc.packed) > MaxObjects
  \/ \E p \in Named(doc) : Len(p) > MaxDepth
  \/ Cardinality(Named(doc)) > MaxCategories

(* Where the import goes once no path but the ones in keys is left. *)
AfterTree(doc, keys) == IF keys # {} THEN "tree" ELSE IF doc.rows # <<>> THEN "match" ELSE "scan"

(* A refused document is a 422 and leaves nothing. *)
Begin(i) ==
  /\ import[i].at = "idle"
  /\ \E doc \in Documents :
       /\ ~TooLarge(doc)
       /\ import' = [import EXCEPT ![i] =
            [NoImport EXCEPT !.at = AfterTree(doc, Named(doc)), !.doc = doc, !.keys = Named(doc),
                             !.report = [n \in DOMAIN doc.rows |-> Null],
                             !.since = edits, !.again = doc \in landed]]
  /\ overlapped' = (overlapped \/ \E j \in Importers \ {i} : import[j].at # "idle")
  /\ UNCHANGED <<library, queued, edits, landed>>

-----------------------------------------------------------------------------
(* The tree                                                                *)

Entry(i) == import[i].doc.rows[import[i].n]
IsLast(i) == import[i].n = Len(import[i].doc.rows)

(* _categories_for *)
CategoriesFor(i) == {import[i].tree[p] : p \in import[i].doc.paths[Entry(i)]}

(* What no handler catches ends the request: a 500, and no report. *)
Break(i) == import' = [import EXCEPT ![i] = [NoImport EXCEPT !.at = "error"]]

Shallowest(S) == CHOOSE p \in S : \A q \in S : Len(p) <= Len(q)

(* parent_id compared with NULL: no root is ever found. *)
MissingByEquality(p) == {q \in Prefixes(p) : At(q) = {} \/ Len(q) = 1}

(* _sibling_with_slug finds nothing there. *)
Missing(p) == {q \in Prefixes(p) : At(q) = {}}

(* Primary keys for what is missing: which of the new ones does not matter. *)
Numberings(p) ==
  {id \in [Missing(p) -> {c \in Ids : row[c] = "new"}] :
     \A q, r \in Missing(p) : id[q] = id[r] => q = r}

(* ensure_category_path for one path: rows are inserted for what is missing. *)
EnsurePath(i) ==
  \E p \in import[i].keys :
    LET id == CHOOSE id \in Numberings(p) : TRUE
        left == import[i].keys \ {p}
    IN  /\ import[i].at = "tree" /\ p = Shallowest(import[i].keys) /\ Numberings(p) # {}
        /\ row' = [c \in Ids |-> IF \E q \in Missing(p) : id[q] = c THEN "live" ELSE row[c]]
        /\ path' = [c \in Ids |-> IF \E q \in Missing(p) : id[q] = c
                                  THEN CHOOSE q \in Missing(p) : id[q] = c ELSE path[c]]
        /\ \E c \in Ids :
             /\ row'[c] = "live" /\ path'[c] = p
             /\ import' = [import EXCEPT ![i].keys = left,
                             ![i].tree = [q \in DOMAIN @ \cup {p} |-> IF q = p THEN c ELSE @[q]],
                             ![i].at = AfterTree(import[i].doc, left)]
        /\ UNCHANGED <<object, session, stored, filed, queued, edits, landed, overlapped>>

-----------------------------------------------------------------------------
(* The rows                                                                *)

(* The row is settled with the outcome o; on to the next, or to the scans. *)
Settle(i, o) ==
  import' = [import EXCEPT ![i].report[import[i].n] = o, ![i].had = {},
                           ![i].n = IF IsLast(i) THEN 1 ELSE @ + 1,
                           ![i].at = IF IsLast(i) THEN "scan" ELSE "match"]

Proceed(i, label) == import' = [import EXCEPT ![i].at = label]

(* _importable_match, and the refusals before anything is written.  A
   category that is gone shows here, as a lookup that fails or a 404, or later,
   since rows already loaded are not read again. *)
Match(i) ==
  LET e == Entry(i)
      doc == import[i].doc
      gone == CategoriesFor(i) \ Live
  IN  /\ import[i].at = "match"
      /\ \/ object[e] = "live" /\ import' = [import EXCEPT ![i].at = "file", ![i].had = filed[e]]
         \/ object[e] = "taken" /\ Settle(i, "failed")
         \/ object[e] = "none" /\ e \notin doc.packed /\ Settle(i, "skipped")
         \/ object[e] = "none" /\ e \in doc.packed \cap doc.unfit /\ Settle(i, "failed")
         \/ object[e] = "none" /\ e \in doc.packed \ doc.unfit /\ Proceed(i, "put")
         \/ object[e] = "none" /\ e \in doc.packed /\ (Faults \/ gone # {}) /\ Settle(i, "failed")
         \/ gone # {} /\ Break(i)
      /\ UNCHANGED <<library, queued, edits, landed, overlapped>>

(* The document taken for the whole filing. *)
FileExactly(i) ==
  LET e == Entry(i)
  IN  /\ import[i].at = "file"
      /\ filed' = [filed EXCEPT ![e] = (@ \ import[i].had) \cup (CategoriesFor(i) \cap Live)]
      /\ Settle(i, "linked")
      /\ UNCHANGED <<row, path, object, session, stored, queued, edits, landed, overlapped>>

(* _file_into: only what is missing from the filing it read is inserted; a link
   that is there by now, or a category that is not, is an IntegrityError. *)
FileInto(i) ==
  LET e == Entry(i)
      added == CategoriesFor(i) \ import[i].had
  IN  /\ import[i].at = "file"
      /\ \/ /\ added \subseteq Live \ filed[e]
            /\ filed' = [filed EXCEPT ![e] = @ \cup added]
            /\ Settle(i, "linked")
         \/ ~(added \subseteq Live \ filed[e]) /\ Break(i) /\ UNCHANGED filed
      /\ UNCHANGED <<row, path, object, session, stored, queued, edits, landed, overlapped>>

(* put_object_stream, or the failure and a best-effort removal. *)
Put(i) ==
  LET e == Entry(i)
  IN  /\ import[i].at = "put"
      /\ \/ stored' = stored \cup {e} /\ Proceed(i, "record")
         \/ Faults /\ stored' \in {stored, stored \cup {e}, stored \ {e}} /\ Settle(i, "failed")
      /\ UNCHANGED <<row, path, object, session, filed, queued, edits, landed, overlapped>>

(* record_upload_session: the id is the primary key. *)
Record(i) ==
  LET e == Entry(i)
  IN  /\ import[i].at = "record"
      /\ \/ session[e] = "none" /\ session' = [session EXCEPT ![e] = "open"] /\ Proceed(i, "complete")
         \/ session[e] # "none" /\ Break(i) /\ UNCHANGED session
      /\ UNCHANGED <<row, path, object, stored, filed, queued, edits, landed, overlapped>>

(* complete_upload, whose refusals leave the session as it is, promotes the
   object with its filing, or keeps a REJECTED row and removes the bytes. *)
Promote(i) ==
  LET e == Entry(i)
  IN  /\ import[i].at = "complete" /\ session[e] = "open" /\ object[e] = "none"
      /\ CategoriesFor(i) \subseteq Live
      /\ object' = [object EXCEPT ![e] = "live"]
      /\ session' = [session EXCEPT ![e] = "closed"]
      /\ filed' = [filed EXCEPT ![e] = CategoriesFor(i)]
      /\ Settle(i, "created")
      /\ UNCHANGED <<row, path, stored, queued, edits, landed, overlapped>>

Reject(i) ==
  LET e == Entry(i)
  IN  /\ import[i].at = "complete" /\ session[e] = "open" /\ object[e] = "none"
      /\ object' = [object EXCEPT ![e] = "taken"]
      /\ session' = [session EXCEPT ![e] = "closed"]
      /\ stored' \in {stored \ {e}} \cup IF Faults THEN {stored} ELSE {}
      /\ Settle(i, "failed")
      /\ UNCHANGED <<row, path, filed, queued, edits, landed, overlapped>>

RefuseComplete(i) ==
  /\ import[i].at = "complete"
  /\ \/ (Faults \/ session[Entry(i)] # "open") /\ Settle(i, "failed")
     \/ ~(CategoriesFor(i) \subseteq Live) /\ (Settle(i, "failed") \/ Break(i))
  /\ UNCHANGED <<library, queued, edits, landed, overlapped>>

-----------------------------------------------------------------------------
(* The route                                                               *)

Scanned(i) == import[i].n > Len(import[i].doc.rows)
Created(i) == import[i].report[import[i].n] = "created"

(* The row is marked whatever the broker says. *)
EnqueueUnheard(i) ==
  /\ import[i].at = "scan" /\ ~Scanned(i)
  /\ \/ /\ Created(i)
        /\ queued' \in {queued \cup {Entry(i)}} \cup IF Faults THEN {queued} ELSE {}
        /\ import' = [import EXCEPT ![i].told = @ \cup {import[i].n}, ![i].n = @ + 1]
     \/ ~Created(i) /\ import' = [import EXCEPT ![i].n = @ + 1] /\ UNCHANGED queued
  /\ UNCHANGED <<library, edits, landed, overlapped>>

(* _enqueue_import_scans *)
EnqueueScan(i) ==
  /\ import[i].at = "scan" /\ ~Scanned(i)
  /\ \/ /\ Created(i)
        /\ queued' = queued \cup {Entry(i)}
        /\ import' = [import EXCEPT ![i].told = @ \cup {import[i].n}, ![i].n = @ + 1]
     \/ (~Created(i) \/ Faults) /\ import' = [import EXCEPT ![i].n = @ + 1] /\ UNCHANGED queued
  /\ UNCHANGED <<library, edits, landed, overlapped>>

Whole(i) == \A n \in DOMAIN import[i].report : import[i].report[n] \in {"created", "linked"}

Answer(i) ==
  /\ import[i].at = "scan" /\ Scanned(i)
  /\ Proceed(i, "done")
  /\ landed' = IF Whole(i) /\ import[i].since = edits THEN landed \cup {import[i].doc} ELSE landed
  /\ UNCHANGED <<library, queued, edits, overlapped>>

(* The client has its answer, or the process died. *)
Leave(i) ==
  /\ import[i].at \in {"done", "error"} \/ (Faults /\ import[i].at # "idle")
  /\ import' = [import EXCEPT ![i] = NoImport]
  /\ UNCHANGED <<library, queued, edits, landed, overlapped>>

-----------------------------------------------------------------------------
(* The owner's other requests, and the purge of stale uploads              *)

Edit == edits < EditCap /\ edits' = edits + 1 /\ landed' = {}

(* delete_category: nothing hangs from it; its links go with it. *)
DeleteCategory(c) ==
  /\ Edit /\ c \in Live
  /\ \A q \in Paths : At(q) # {} /\ path[c] \in Prefixes(q) => q = path[c]
  /\ row' = [row EXCEPT ![c] = "gone"] /\ path' = [path EXCEPT ![c] = <<>>]
  /\ filed' = [e \in Entries |-> filed[e] \ {c}]
  /\ UNCHANGED <<object, session, stored, queued, overlapped, import>>

(* update_category renames or moves the row, and the branch with it. *)
MoveCategory(c) ==
  /\ Edit /\ c \in Live /\ path[c] \in Paths
  /\ path' = [b \in Ids |-> IF path[c] \in Prefixes(path[b]) THEN <<>> ELSE path[b]]
  /\ UNCHANGED <<row, object, session, stored, filed, queued, overlapped, import>>

(* update_object replaces the filing. *)
Refile(e) ==
  /\ Edit /\ object[e] = "live"
  /\ \E C \in SUBSET Live : C # filed[e] /\ filed' = [filed EXCEPT ![e] = C]
  /\ UNCHANGED <<row, path, object, session, stored, queued, overlapped, import>>

(* delete_object: a tombstone that keeps its filing. *)
DeleteObject(e) ==
  /\ Edit /\ object[e] = "live"
  /\ object' = [object EXCEPT ![e] = "taken"]
  /\ UNCHANGED <<row, path, session, stored, filed, queued, overlapped, import>>

(* purge_stale_uploads, long after any import that opened the session. *)
PurgeStale(e) ==
  /\ session[e] = "open"
  /\ \A i \in Importers : import[i].at = "complete" => Entry(i) # e
  /\ session' = [session EXCEPT ![e] = "closed"]
  /\ stored' = stored \ {e}
  /\ UNCHANGED <<row, path, object, filed, queued, edits, landed, overlapped, import>>

-----------------------------------------------------------------------------
Row(i) == \/ Match(i) \/ FileInto(i) \/ Put(i) \/ Record(i)
          \/ Promote(i) \/ Reject(i) \/ RefuseComplete(i)
Import(i) == Begin(i) \/ EnsurePath(i) \/ Row(i) \/ EnqueueScan(i) \/ Answer(i) \/ Leave(i)
Owner == \/ \E c \in Ids : DeleteCategory(c) \/ MoveCategory(c)
         \/ \E e \in Entries : Refile(e) \/ DeleteObject(e)

ImportNext == \/ \E i \in Importers : Import(i)
              \/ Owner
              \/ \E e \in Entries : PurgeStale(e)

ImportSpec == ImportInit /\ [][ImportNext]_importVars

-----------------------------------------------------------------------------
(* Properties                                                              *)

(* Filing is additive (transfer_import.py:380-386): no step of an import unfiles
   anything, whatever the owner has filed since the import read the filing. *)
FilingOnlyGrows ==
  [][\A i \in Importers :
       import'[i] # import[i] => \A e \in Entries : filed[e] \subseteq filed'[e]]_importVars

(* The report can be believed (schemas/transfer.py, ImportObjectResult): if the
   owner edited nothing meanwhile, a row reported created or linked is a live
   object filed in every category the document names for it, its bytes
   stored unless imports overlapped, and scan_queued tells whether its scan is. *)
ReportIsTrue ==
  \A i \in Importers : import[i].at = "done" =>
    \A n \in DOMAIN import[i].doc.rows :
      LET e == import[i].doc.rows[n]
          outcome == import[i].report[n]
      IN  /\ outcome = "created" => (n \in import[i].told <=> e \in queued)
          /\ outcome \in {"created", "linked"} /\ import[i].since = edits
               => /\ object[e] = "live"
                  /\ e \in stored \/ overlapped
                  /\ \A p \in import[i].doc.paths[e] : At(p) \cap filed[e] # {}

(* Importing a document again is a no-op (transfer_import.py:15-16, 38-41): once
   it has landed whole, and until the owner edits something, an import of it
   that begins writes nothing, to the tree, the objects, the store or the filing. *)
RepeatChangesNothing ==
  [][\A i \in Importers :
       import'[i] # import[i] /\ import[i].again /\ import[i].since = edits
         => library' = library]_importVars

(* One refused row leaves the rest of the collection to land
   (transfer_import.py:31-33): no import ends without a report. *)
RowFailureStaysARow == \A i \in Importers : import[i].at # "error"
=============================================================================
