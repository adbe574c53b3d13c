----------------------------- MODULE Knowledge -----------------------------
(***************************************************************************)
(* An organization's documents: uploads that index their text and then     *)
(* their pages as images, deletions, and questions answered from both.     *)
(* A request is one transaction; images are stored by the database or, at  *)
(* once and whatever becomes of the transaction, by an object store.  All  *)
(* uploads have one content.                                               *)
(***************************************************************************)
EXTENDS Naturals, Sequences, FiniteSets

CONSTANTS Docs, Pages, Requests,
          TopK          \* VISUAL_RAG_TOP_K

VARIABLES transactional,  \* images are stored by the database
          row,            \* knowledge_documents: processing_status
          chunk,          \* the documents that have knowledge_chunks
          page,           \* visual_pages: <<document, number>>
          image,          \* the stored images
          request,        \* each open request
          torn            \* documents that a request was abandoned on, images and all

vars == <<transactional, row, chunk, page, image, request, torn>>

Idle == [op |-> "idle"]
Images == Docs \X Pages
Shown == UNION {[1 .. n -> Images] : n \in 0 .. TopK}

TypeOK ==
  /\ row \in [Docs -> {"none", "completed", "failed"}]
  /\ chunk \subseteq Docs /\ page \subseteq Images /\ image \subseteq Images
  /\ torn \subseteq Docs
  /\ request \in [Requests ->
       {Idle}
       \cup [op : {"upload"}, doc : Docs, outcome : {"none", "ok", "bad", "no_embedding"},
             pages : SUBSET Images, more : BOOLEAN]
       \cup [op : {"delete"}, doc : Docs, all : SUBSET Images, left : SUBSET Images]
       \cup [op : {"ask"}, mode : {"semantic", "keyword"}, embedded : BOOLEAN, cited : Shown,
             left : Shown, attached : Shown]]

Init ==
  /\ transactional \in BOOLEAN
  /\ row = [d \in Docs |-> "none"]
  /\ chunk = {} /\ page = {} /\ image = {} /\ torn = {}
  /\ request = [r \in Requests |-> Idle]

Open(r, q) == request[r] = Idle /\ request' = [request EXCEPT ![r] = q]
Turn(r, q) == request' = [request EXCEPT ![r] = q]
Close(r) == request' = [request EXCEPT ![r] = Idle]

Of(d) == {i \in Images : i[1] = d}

\* A document no row, image or open request knows.
Known(q) ==
  IF q.op = "ask" THEN {q.cited[n][1] : n \in DOMAIN q.cited}
  ELSE IF q.op = "idle" THEN {} ELSE {q.doc}

Fresh == {d \in Docs : row[d] = "none" /\ Of(d) \cap image = {} /\ \A r \in Requests : d \notin Known(request[r])}

-----------------------------------------------------------------------------
(* Uploads.                                                                *)

\* get_by_checksum.
Existing == {d \in Docs : row[d] = "completed"}

\* upload_document: a file that is indexed already is not indexed again.
BeginUpload(r) ==
  /\ Existing = {}
  /\ \E d \in Fresh : Open(r, [op |-> "upload", doc |-> d, outcome |-> "none", pages |-> {}, more |-> TRUE])
  /\ UNCHANGED <<transactional, row, chunk, page, image, torn>>

\* The text is loaded, assessed, cut and embedded.
IndexText(r) ==
  LET q == request[r] IN
  /\ q.op = "upload" /\ q.outcome = "none"
  /\ \E outcome \in {"ok", "bad", "no_embedding"} :
       Turn(r, [q EXCEPT !.outcome = outcome, !.more = outcome = "ok"])
  /\ UNCHANGED <<transactional, row, chunk, page, image, torn>>

\* Whether chunks were written: after the embedding, all of them.
HasChunks_First(q) == q.outcome \in {"ok", "no_embedding"}
HasChunks(q) == q.outcome = "ok"

\* index_document: a page's image, then its row.
Counted(q, i, ok) == IF ok THEN q.pages \cup {i} ELSE q.pages

IndexPage(r) ==
  LET q == request[r] IN
  /\ q.op = "upload" /\ q.outcome = "ok" /\ q.more
  /\ \E i \in Of(q.doc) \ q.pages, ok \in {TRUE, transactional} :
       /\ image' = IF ok /\ ~transactional THEN image \cup {i} ELSE image
       /\ Turn(r, [q EXCEPT !.pages = Counted(q, i, ok), !.more = ok])
  /\ UNCHANGED <<transactional, row, chunk, page, torn>>

\* No visual index, or none for the rest of the document: not fatal.
StopPages(r) ==
  LET q == request[r] IN
  /\ q.op = "upload" /\ q.more /\ q.outcome = "ok"
  /\ Turn(r, [q EXCEPT !.more = FALSE])
  /\ UNCHANGED <<transactional, row, chunk, page, image, torn>>

CommitUpload(r) ==
  LET q == request[r] IN
  /\ q.op = "upload" /\ ~q.more
  /\ row' = [row EXCEPT ![q.doc] = IF q.outcome = "ok" THEN "completed" ELSE "failed"]
  /\ chunk' = IF HasChunks(q) THEN chunk \cup {q.doc} ELSE chunk
  /\ page' = page \cup q.pages
  /\ image' = IF transactional THEN image \cup q.pages ELSE image
  /\ Close(r) /\ UNCHANGED <<transactional, torn>>

-----------------------------------------------------------------------------
(* Deletions.                                                              *)

\* visual_page_repository.delete_for_document gives the images of its rows.
References(d) == page \cap Of(d)

BeginDelete(r, d) ==
  /\ row[d] # "none"
  /\ Open(r, [op |-> "delete", doc |-> d, all |-> References(d), left |-> References(d)])
  /\ UNCHANGED <<transactional, row, chunk, page, image, torn>>

RemoveImage(r) ==
  LET q == request[r] IN
  /\ q.op = "delete"
  /\ \E i \in q.left : /\ Turn(r, [q EXCEPT !.left = @ \ {i}])
                       /\ image' = IF transactional THEN image ELSE image \ {i}
  /\ UNCHANGED <<transactional, row, chunk, page, torn>>

\* The document's row goes with its chunks and pages, unless it is gone already.
CommitDelete(r) ==
  LET q == request[r] IN
  /\ q.op = "delete" /\ q.left = {}
  /\ IF row[q.doc] = "none" THEN UNCHANGED <<row, chunk, page, image, torn>>
     ELSE /\ row' = [row EXCEPT ![q.doc] = "none"]
          /\ chunk' = chunk \ {q.doc} /\ page' = page \ Of(q.doc)
          /\ image' = IF transactional THEN image \ q.all ELSE image
          /\ torn' = torn \ {q.doc}
  /\ Close(r) /\ UNCHANGED transactional

\* A request ends without a commit: it fails, its caller leaves, or it only read.
Abandon(r) ==
  LET q == request[r] IN
  /\ q # Idle
  /\ torn' = IF \/ q.op = "upload" /\ q.pages # {} /\ ~transactional
                \/ q.op = "delete" /\ q.left # q.all /\ ~transactional /\ row[q.doc] # "none"
             THEN torn \cup {q.doc} ELSE torn
  /\ Close(r) /\ UNCHANGED <<transactional, row, chunk, page, image>>

-----------------------------------------------------------------------------
(* Questions.                                                              *)

\* search: by the cached or new embedding, by keywords when there is none.  The mode
\* goes with the results, found or not.
Mode(embedded, found) == IF embedded THEN "semantic" ELSE "keyword"

\* VisualService.search: the best pages, at most TopK, best first.
RankedPages ==
  {found \in UNION {[1 .. n -> page] : n \in 0 .. TopK} :
     \A i, j \in DOMAIN found : found[i] = found[j] => i = j}

\* _search_pages: or none, whatever stands in the way of a visual search.
SearchPages == RankedPages \cup {<<>>}

\* search_by_keyword and the search by embedding look at chunks.
FindsSome == chunk # {}

\* ask, up to its first image: the question is embedded, now or in the cache, or it
\* is not, and some chunks answer it or none does.
BeginAsk(r) ==
  \E embedded, found \in BOOLEAN, cited \in SearchPages :
    /\ found => FindsSome
    /\ Open(r, [op |-> "ask", mode |-> Mode(embedded, found), embedded |-> embedded,
                cited |-> cited, left |-> cited, attached |-> <<>>])
    /\ UNCHANGED <<transactional, row, chunk, page, image, torn>>

\* VisualService.load_image, of the page's reference.
Loads(i) == i \in image

\* _page_attachments: a page whose image cannot be fetched is left out.
LoadImage(r) ==
  LET q == request[r] IN
  /\ q.op = "ask" /\ q.left # <<>>
  /\ Turn(r, [q EXCEPT !.left = Tail(@),
                       !.attached = IF Loads(Head(q.left)) THEN Append(@, Head(q.left)) ELSE @])
  /\ UNCHANGED <<transactional, row, chunk, page, image, torn>>

\* The pages of the answer: all that were found, shown or not.
Cited(q) == q.cited

-----------------------------------------------------------------------------
Next ==
  \E r \in Requests :
    \/ BeginUpload(r) \/ IndexText(r) \/ IndexPage(r) \/ StopPages(r) \/ CommitUpload(r)
    \/ \E d \in Docs : BeginDelete(r, d)
    \/ RemoveImage(r) \/ CommitDelete(r) \/ Abandon(r)
    \/ BeginAsk(r) \/ LoadImage(r)

Spec == Init /\ [][Next]_vars

\* One request at a time.
Serialised == Cardinality({r \in Requests : request[r] # Idle}) <= 1

-----------------------------------------------------------------------------
\* What search can find is exactly the documents that were indexed whole, whatever
\* uploads fail on the way (upload_document).
SearchableIffCompleted == chunk = {d \in Docs : row[d] = "completed"} /\ {i[1] : i \in page} \subseteq chunk

\* Images and page rows go together.  Only the object store may be ahead, of an
\* upload under way or abandoned, or behind, of a deletion ("a stored page image
\* outlives its row indefinitely and is billed for the privilege").
RowsAndImages ==
  LET Under(op) == {request[r].doc : r \in {s \in Requests : request[s].op = op}} IN
  /\ {i[1] : i \in image \ page} \subseteq IF transactional THEN {} ELSE Under("upload") \cup torn
  /\ {i[1] : i \in page \ image} \subseteq IF transactional THEN {} ELSE Under("delete") \cup torn

\* Whoever reads an answer is told when it rests on keyword matches, also when there
\* were none (SearchOutcome).
SaysDegraded == \A r \in Requests : request[r].op = "ask" => (request[r].mode = "semantic") = request[r].embedded

\* One request at a time, one file is one document (upload_document).
OneCopy == Cardinality({d \in Docs : row[d] = "completed"}) <= 1

\* One request at a time and none abandoned, every page an answer cites was shown to
\* the model, under the number it is cited by ("a page the model actually looked at").
CitedAreSeen ==
  torn = {} => \A r \in Requests :
    request[r].op = "ask" /\ request[r].left = <<>> => request[r].attached = Cited(request[r])
=============================================================================
