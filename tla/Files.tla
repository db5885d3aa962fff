-------------------------------- MODULE Files --------------------------------
(***************************************************************************)
(* Attachments: the files of one batch of a chat (uploadMany of the three  *)
(* documents services, uploadAttachment, finishBatch), their removal, and  *)
(* the repair of rows whose file is gone from the bucket.                  *)
(*                                                                         *)
(* The files of a batch go up side by side.  Each waits for a slot to be   *)
(* optimised, is stored with its preview, gets its row and is signed; when *)
(* all have settled and one has failed, the rows and then the files of the *)
(* others are deleted, each deletion as best it may.                       *)
(*                                                                         *)
(* Left out: names, captions and quotes, the cache of signed urls (a hit   *)
(* answers as the signature did that it repeats), conversions, and files   *)
(* that are no photos (they go up without a slot and a preview).           *)
(*                                                                         *)
(* A definition marked Mutant is a faulty form of the one that follows it. *)
(***************************************************************************)
EXTENDS Naturals, Sequences, FiniteSets

CONSTANTS
    FileIds,
    Slots,          \* OPTIMISE_CONCURRENCY
    Readers         \* requests about a file: lists and removals

FilesAssumption ==
    /\ IsFiniteSet(FileIds) /\ FileIds # {}
    /\ Slots \in Nat \ {0}

VARIABLES
    batch,          \* how far the one upload has got
    upload,         \* upload[f]: how far the file f of it has got
    queue,          \* files waiting for a slot (optimiseQueue)
    stored,         \* stored[f]: what the bucket holds of f
    row,            \* row[f]: its row, with whether a preview goes with it
    reader,         \* reader[r]: the request, and the row as it was read
    asked,          \* files whose removal somebody has asked for
    lost,           \* files deleted from the bucket by hand
    stuck           \* files left behind by a deletion that failed

vars == <<batch, upload, queue, stored, row, reader, asked, lost, stuck>>

Parts == {"full", "preview"}

NoRow == [state |-> "none", preview |-> FALSE]

NoReader == [pc |-> "idle", file |-> CHOOSE f \in FileIds : TRUE, preview |-> FALSE]

Uploads == {"off", "ready", "queued", "optimise", "put", "create", "sign",
            "fulfilled", "rejected"}

TypeOK ==
    /\ batch \in {"off", "uploading", "rows", "files", "done", "failed"}
    /\ upload \in [FileIds -> Uploads]
    /\ queue \in Seq(FileIds) /\ Len(queue) <= Cardinality(FileIds)
    /\ stored \in [FileIds -> SUBSET Parts]
    /\ row \in [FileIds -> [state : {"none", "live", "deleted"}, preview : BOOLEAN]]
    /\ reader \in [Readers -> [pc : {"idle", "list", "heal", "remove", "mark"},
                               file : FileIds, preview : BOOLEAN]]
    /\ asked \subseteq FileIds
    /\ lost \subseteq FileIds
    /\ stuck \subseteq FileIds

Init ==
    /\ batch = "off"
    /\ upload = [f \in FileIds |-> "off"]
    /\ queue = <<>>
    /\ stored = [f \in FileIds |-> {}]
    /\ row = [f \in FileIds |-> NoRow]
    /\ reader = [r \in Readers |-> NoReader]
    /\ asked = {}
    /\ lost = {}
    /\ stuck = {}

\* The files of the batch that have got as far as pc.
At(pc) == {f \in FileIds : upload[f] = pc}

-----------------------------------------------------------------------------
(* uploadMany.                                                             *)

UploadMany(files) ==
    /\ batch = "off" /\ files # {}
    /\ batch' = "uploading"
    /\ upload' = [f \in FileIds |-> IF f \in files THEN "ready" ELSE "off"]
    /\ UNCHANGED <<queue, stored, row, reader, asked, lost, stuck>>

Goes(f, pc) == upload' = [upload EXCEPT ![f] = pc]

\* withOptimiseSlot: who finds no slot queues.
AskSlot(f) ==
    /\ upload[f] = "ready"
    /\ IF Cardinality(At("optimise")) >= Slots
       THEN Goes(f, "queued") /\ queue' = Append(queue, f)
       ELSE Goes(f, "optimise") /\ UNCHANGED queue
    /\ UNCHANGED <<batch, stored, row, reader, asked, lost, stuck>>

\* The slot goes to the first of the queue, who takes it in the microtask that
\* follows: no other upload runs between.
FreeSlot(f) ==
    /\ upload[f] = "optimise"
    /\ upload' = [g \in FileIds |-> IF g = f THEN "put"
                                    ELSE IF queue # <<>> /\ g = Head(queue) THEN "optimise"
                                    ELSE upload[g]]
    /\ queue' = IF queue = <<>> THEN queue ELSE Tail(queue)
    /\ UNCHANGED <<batch, stored, row, reader, asked, lost, stuck>>

\* uploadAttachment: photo and preview, either of which may fail.  A preview
\* alone is deleted again; a photo does without one.
Put(f, landed, fails) ==
    LET alone == landed = {"preview"} IN
    /\ upload[f] = "put"
    /\ fails => alone
    /\ stored' = [stored EXCEPT ![f] = IF alone /\ ~fails THEN {} ELSE landed]
    /\ stuck' = IF fails THEN stuck \cup {f} ELSE stuck
    /\ Goes(f, IF "full" \in landed THEN "create" ELSE "rejected")
    /\ UNCHANGED <<batch, queue, row, reader, asked, lost>>

CreateRow(f) ==
    /\ upload[f] = "create"
    /\ row' = [row EXCEPT ![f] = [state |-> "live", preview |-> "preview" \in stored[f]]]
    /\ Goes(f, "sign")
    /\ UNCHANGED <<batch, queue, stored, reader, asked, lost, stuck>>

SignNew(f) ==
    /\ upload[f] = "sign" /\ "full" \in stored[f]
    /\ Goes(f, "fulfilled")
    /\ UNCHANGED <<batch, queue, stored, row, reader, asked, lost, stuck>>

\* The insert fails, or the file cannot be signed.
Reject(f) ==
    /\ upload[f] \in {"create", "sign"}
    /\ Goes(f, "rejected")
    /\ UNCHANGED <<batch, queue, stored, row, reader, asked, lost, stuck>>

\* Mutant: the rest of a batch is kept.
SettleAny ==
    /\ batch = "uploading"
    /\ \A f \in FileIds : upload[f] \in {"off", "fulfilled", "rejected"}
    /\ batch' = IF At("fulfilled") = {} THEN "rows" ELSE "done"
    /\ UNCHANGED <<upload, queue, stored, row, reader, asked, lost, stuck>>

\* Promise.allSettled, then finishBatch.
Settle ==
    /\ batch = "uploading"
    /\ \A f \in FileIds : upload[f] \in {"off", "fulfilled", "rejected"}
    /\ batch' = IF At("rejected") = {} THEN "done" ELSE "rows"
    /\ UNCHANGED <<upload, queue, stored, row, reader, asked, lost, stuck>>

RollBackRows(fails) ==
    LET made == {f \in FileIds : row[f].state # "none"} IN
    /\ batch = "rows"
    /\ batch' = "files"
    /\ row' = IF fails THEN row ELSE [f \in FileIds |-> NoRow]
    /\ stuck' = IF fails THEN stuck \cup made ELSE stuck
    /\ UNCHANGED <<upload, queue, stored, reader, asked, lost>>

\* Of every file that was stored, whether its row is gone or not.
RollBackFiles(failing) ==
    /\ batch = "files"
    /\ failing \subseteq {f \in FileIds : "full" \in stored[f]}
    /\ batch' = "failed"
    /\ stored' = [f \in FileIds |-> IF f \in failing \/ "full" \notin stored[f]
                                    THEN stored[f] ELSE {}]
    /\ stuck' = stuck \cup failing
    /\ UNCHANGED <<upload, queue, row, reader, asked, lost>>

-----------------------------------------------------------------------------
(* Rows read by others, those of a batch under way included.               *)

Read(r, f, pc) ==
    /\ reader[r].pc = "idle"
    /\ row[f].state = "live"            \* a tombstone is answered at once
    /\ reader' = [reader EXCEPT ![r] = [pc |-> pc, file |-> f, preview |-> row[f].preview]]

Proceeds(r, pc) == reader' = [reader EXCEPT ![r] = IF pc = "idle" THEN NoReader
                                               ELSE [@ EXCEPT !.pc = pc]]

List(r, f) ==
    /\ Read(r, f, "list")
    /\ UNCHANGED <<batch, upload, queue, stored, row, asked, lost, stuck>>

\* signOrHeal: only a file that storage calls missing is marked; an outage throws.
SignOrHeal(r, outage) ==
    /\ reader[r].pc = "list"
    /\ Proceeds(r, IF ~outage /\ "full" \notin stored[reader[r].file] THEN "heal" ELSE "idle")
    /\ UNCHANGED <<batch, upload, queue, stored, row, asked, lost, stuck>>

\* The row may be gone (P2025), or the update fail: nobody waits for it.
MarkDeleted(r, fails) ==
    LET f == reader[r].file IN
    /\ reader[r].pc \in {"heal", "mark"}
    /\ row' = IF fails \/ row[f].state = "none" THEN row ELSE [row EXCEPT ![f].state = "deleted"]
    /\ stuck' = IF fails /\ reader[r].pc = "mark" THEN stuck \cup {f} ELSE stuck
    /\ Proceeds(r, "idle")
    /\ UNCHANGED <<batch, upload, queue, stored, asked, lost>>

\* remove, also file by file for an album.
Remove(r, f) ==
    /\ Read(r, f, "remove")
    /\ asked' = asked \cup {f}
    /\ UNCHANGED <<batch, upload, queue, stored, row, lost, stuck>>

\* Both objects in one request; that it failed is overlooked.
RemoveFile(r, fails) ==
    LET f == reader[r].file IN
    /\ reader[r].pc = "remove"
    /\ stored' = IF fails THEN stored
                 ELSE [stored EXCEPT ![f] = IF reader[r].preview THEN {} ELSE @ \ {"full"}]
    /\ stuck' = IF fails THEN stuck \cup {f} ELSE stuck
    /\ Proceeds(r, "mark")
    /\ UNCHANGED <<batch, upload, queue, row, asked, lost>>

\* Somebody clears up in the bucket.
LoseByHand(f) ==
    /\ stored[f] # {}
    /\ stored' = [stored EXCEPT ![f] = {}]
    /\ lost' = lost \cup {f}
    /\ UNCHANGED <<batch, upload, queue, row, reader, asked, stuck>>

Upload(f) ==
    \/ AskSlot(f)
    \/ FreeSlot(f)
    \/ \E landed \in SUBSET Parts, fails \in BOOLEAN : Put(f, landed, fails)
    \/ CreateRow(f)
    \/ SignNew(f)
    \/ Reject(f)

Request(r) ==
    \/ \E f \in FileIds : List(r, f) \/ Remove(r, f)
    \/ \E outage \in BOOLEAN : SignOrHeal(r, outage)
    \/ \E fails \in BOOLEAN : MarkDeleted(r, fails) \/ RemoveFile(r, fails)

Next ==
    \/ \E files \in SUBSET FileIds : UploadMany(files)
    \/ \E f \in FileIds : Upload(f) \/ LoseByHand(f)
    \/ Settle
    \/ \E fails \in BOOLEAN : RollBackRows(fails)
    \/ \E failing \in SUBSET FileIds : RollBackFiles(failing)
    \/ \E r \in Readers : Request(r)

Spec == Init /\ [][Next]_vars

-----------------------------------------------------------------------------

\* "Request failed" means nothing saved, and success everything.
AllOrNothing ==
    /\ batch = "failed" => \A f \in FileIds \ stuck : row[f] = NoRow /\ stored[f] = {}
    /\ batch = "done" => \A f \in FileIds : upload[f] # "off" => row[f] # NoRow

\* Its removal has taken the file and not yet marked the row.
BeingRemoved(f) == \E r \in Readers : reader[r].pc = "mark" /\ reader[r].file = f

\* A live row has its file; a tombstone has none, and stands for a removal or a
\* loss, never for an outage.
RowsTellTruth == \A f \in FileIds \ (lost \cup stuck) :
    /\ row[f].state = "live" => "full" \in stored[f] \/ BeingRemoved(f)
    /\ row[f].state = "deleted" => stored[f] = {} /\ f \in asked

\* No more photos than slots are optimised at once, and none waits beside a free
\* slot.
SlotsShared ==
    LET busy == Cardinality(At("optimise")) IN
    /\ busy <= Slots
    /\ busy < Slots => queue = <<>>

\* The bucket, the rows and the answers of uploadMany agree, whatever overlaps or
\* fails, except for a file whose deletion failed (batch-rollback l.20) or that
\* was deleted by hand.
FilesAgree == AllOrNothing /\ RowsTellTruth /\ SlotsShared

=============================================================================
