------------------------------ MODULE Uploads ------------------------------
(***************************************************************************)
(* An attachment's way from the phone into the vault:                      *)
(*   src/mobile/attachment-controller.js   one file, chunk by chunk        *)
(*   gateway/relay/app.py, presence.py     the HTTP handlers, the binding  *)
(*   gateway/relay/upload_store.py         the spool: sessions and files   *)
(*   gateway/mac_companion/stream_pump.py, upload_receiver.py              *)
(*                                         download, import, acknowledge   *)
(*   src/desktop/vault-import.js           the copy into the vault         *)
(* An upload belongs to one Mac connection.  A handler of the relay takes  *)
(* its locks one after the other, so between the check of the binding and  *)
(* the use of the spool the Mac may change; a chunk is read from the       *)
(* network under the lock of the spool, and a begin waits for that lock    *)
(* while it holds the lock of the presence registry.                       *)
(* Generations are numbered on across the sessions of the Companion.       *)
(* A file is a number of chunks; bytes and digests are left out, a corrupt *)
(* or interrupted body is one that ends badly.                             *)
(***************************************************************************)
EXTENDS Integers, FiniteSets, Sequences, FiniteSetsExt

CONSTANTS
    MaxUploads,     \* bound: uploads the phone begins
    MaxChunks,      \* bound: chunks of a file
    MaxConcurrent,  \* max_concurrent_uploads of an installation
    Quota,          \* max_outstanding_bytes_per_installation, in chunks
    MaxGen,         \* bound: connections the Companion makes
    MaxRequests,    \* bound: handlers running in the relay
    MaxFaults       \* bound: failures, hang-ups and cancellations in a behaviour

ASSUME UploadsAssumption ==
    /\ MaxUploads \in Nat
    /\ MaxChunks \in Nat \ {0} /\ MaxConcurrent \in Nat \ {0} /\ Quota \in Nat
    /\ MaxGen \in Nat /\ MaxRequests \in Nat \ {0} /\ MaxFaults \in Nat

VARIABLES
    session,    \* _sessions: session[u], NoSession when the relay has none
    slots,      \* _active_by_installation: what counts against the limit
    parts,      \* <id>.part files in the spool
    blobs,      \* <id>.blob files in the spool
    tombs,      \* _acknowledged: the generation that acknowledged u, 0 for none
    lock,       \* the upload whose chunk body is read under the spool's lock
    held,       \* the upload whose begin holds the presence lock
    mac,        \* presence: generation of the current Mac, 0 for none
    socket,     \* socket[g]: the relay's handler of connection g
    requests,   \* HTTP handlers running in the relay, and answers on their way
    phone,      \* the AttachmentController's item
    used,       \* how many uploads the phone has begun
    companion,  \* the Companion: connection, upload queue and worker
    acks,       \* upload.ack frames the Companion has yet to write
    staged,     \* files in the Companion's temporary directory
    vault,      \* attachments in the vault
    told,       \* told[u]: results broadcast to the phones
    faults      \* counter of the bound

spool == <<session, slots, parts, blobs>>
presence == <<mac, socket>>
macSide == <<companion, acks, staged, vault>>
phoneSide == <<phone, used>>
vars == <<session, slots, parts, blobs, tombs, lock, held, mac, socket,
          requests, phone, used, companion, acks, staged, vault, told,
          faults>>

UploadIds == 1..MaxUploads   \* the relay's uuids, in the order they are asked for
NoUpload == 0
Gens == 1..MaxGen
NoSession == [state |-> "none", gen |-> 0, got |-> 0, total |-> 0]
Sessions == [state : {"uploading", "ready"}, gen : Gens, got : 0..MaxChunks,
             total : 1..MaxChunks]
SocketStates == {"none", "hello", "clearing", "open", "ended", "draining", "closed"}
Requests ==
    [op : {"begin", "chunk", "finalize", "delete", "stream"}, u : UploadIds,
     i : 0..MaxChunks, gen : Gens, heard : BOOLEAN, ok : BOOLEAN,
     stage : {"sent", "checked", "body", "stored", "aborting", "done"}]
NoItem == [st |-> "idle", u |-> NoUpload, i |-> 0, total |-> 0, gen |-> 0,
           resumed |-> FALSE]
ItemStates == {"idle", "starting", "uploading", "finalizing", "importing",
               "ready", "paused", "failed"}
Idle == [u |-> NoUpload, stage |-> "idle"]
Ack(u, status) == [u |-> u, status |-> status, gen |-> companion.gen]
Acks == [u : UploadIds, status : {"imported", "failed"}, gen : Gens]

TypeOK ==
    /\ session \in [UploadIds -> Sessions \cup {NoSession}]
    /\ slots \subseteq UploadIds /\ parts \subseteq UploadIds
    /\ blobs \subseteq UploadIds
    /\ tombs \in [UploadIds -> 0..MaxGen]
    /\ lock \in UploadIds \cup {NoUpload} /\ held \in UploadIds \cup {NoUpload}
    /\ mac \in 0..MaxGen /\ socket \in [Gens -> SocketStates]
    /\ requests \subseteq Requests
    /\ phone \in [st : ItemStates, u : UploadIds \cup {NoUpload},
                  i : 0..MaxChunks, total : 0..MaxChunks, gen : 0..MaxGen,
                  resumed : BOOLEAN]
    /\ used \in 0..MaxUploads
    /\ companion \in [gen : 0..MaxGen, starts : SUBSET Gens, up : BOOLEAN,
                      queue : Seq(UploadIds),
                      work : [u : UploadIds \cup {NoUpload},
                              stage : {"idle", "downloading", "staged"}]]
    /\ acks \in Seq(Acks)
    /\ staged \subseteq UploadIds /\ vault \subseteq UploadIds
    /\ told \in [UploadIds -> Seq({"imported", "failed"})]
    /\ faults \in 0..MaxFaults

Init ==
    /\ session = [u \in UploadIds |-> NoSession]
    /\ slots = {} /\ parts = {} /\ blobs = {}
    /\ tombs = [u \in UploadIds |-> 0]
    /\ lock = NoUpload /\ held = NoUpload
    /\ mac = 0 /\ socket = [g \in Gens |-> "none"]
    /\ requests = {}
    /\ phone = NoItem /\ used = 0
    /\ companion = [gen |-> 0, starts |-> {}, up |-> FALSE, queue |-> <<>>, work |-> Idle]
    /\ acks = <<>> /\ staged = {} /\ vault = {}
    /\ told = [u \in UploadIds |-> <<>>]
    /\ faults = 0

----------------------------------------------------------------------------
(* The spool.  Every operation runs under one asyncio lock, free here.     *)

Live == {u \in UploadIds : session[u].state # "none"}
LockFree == lock = NoUpload

Fault == faults < MaxFaults /\ faults' = faults + 1
\* The cost of an end that needs a failure, or does not.
FaultUnless(expected) == IF expected THEN UNCHANGED faults ELSE Fault

\* Mutant of Remove: the slot of the installation is not given back.
RemoveButSlots(U) ==
    /\ session' = [u \in UploadIds |-> IF u \in U THEN NoSession ELSE session[u]]
    /\ parts' = parts \ U
    /\ blobs' = blobs \ U
    /\ UNCHANGED slots

\* What _remove_locked does to each upload of U: session, slot and files go.
Remove(U) ==
    /\ session' = [u \in UploadIds |-> IF u \in U THEN NoSession ELSE session[u]]
    /\ slots' = slots \ U
    /\ parts' = parts \ U
    /\ blobs' = blobs \ U

\* What begin checks, of the sessions in Live that it has not expired.
WithinLimits(total, expired) ==
    /\ Cardinality(slots \ expired) < MaxConcurrent
    /\ MapThenSumSet(LAMBDA u : session[u].total, Live \ expired) + total <= Quota

----------------------------------------------------------------------------
(* HTTP handlers.  heard: the caller still waits for the answer.           *)

Request(op, u, i, gen) ==
    [op |-> op, u |-> u, i |-> i, gen |-> gen, heard |-> TRUE, ok |-> FALSE,
     stage |-> "sent"]
At(r, stage) == (requests \ {r}) \cup {[r EXCEPT !.stage = stage]}
\* The caller hangs up on R: an answer is lost, a handler runs on.
HangUp(R) ==
    (requests \ R) \cup {[r EXCEPT !.heard = FALSE] : r \in {q \in R : q.stage # "done"}}

\* What the phone makes of an answer.  The relay's cursor is taken over for the
\* next chunk, after the last the upload is finalized.  A failure pauses the
\* item when it has an id; an item that was resumed stays where it was.
FollowUp(item) ==
    IF item.i < item.total THEN Request("chunk", item.u, item.i, item.gen)
    ELSE Request("finalize", item.u, 0, item.gen)
Sending(item) ==
    [item EXCEPT !.st = IF item.i < item.total THEN "uploading" ELSE "finalizing"]
Failing(r) ==
    CASE phone.resumed -> phone
      [] ~phone.resumed /\ r.op = "begin" -> [NoItem EXCEPT !.st = "failed"]
      [] OTHER -> [phone EXCEPT !.st = "paused"]

\* The handler is done.  Its answer reaches the caller in the same step, or
\* never: a lost answer is a caller that hung up.
Answers(r, ok, i) ==
    IF ~r.heard THEN requests' = requests \ {r} /\ UNCHANGED phone
    ELSE IF r.op = "stream"
    THEN /\ requests' = (requests \ {r}) \cup {[r EXCEPT !.stage = "done", !.ok = ok]}
         /\ UNCHANGED phone
    ELSE IF ~ok THEN requests' = requests \ {r} /\ phone' = Failing(r)
    ELSE IF r.op = "finalize"
    THEN requests' = requests \ {r} /\ phone' = [phone EXCEPT !.st = "importing"]
    ELSE LET item == [phone EXCEPT !.i = i]
         IN  /\ phone' = Sending(item)
             /\ requests' = (requests \ {r}) \cup {FollowUp(item)}
PhoneCalls == {r \in requests : r.heard /\ r.op \in {"begin", "chunk", "finalize"}}
Downloads == {r \in requests : r.heard /\ r.op = "stream"}

\* _reader: the frame upload.available arrives.
Available(u) ==
    IF companion.queue = <<>>
    THEN companion' = [companion EXCEPT !.queue = <<u>>] /\ UNCHANGED acks
    ELSE acks' = Append(acks, Ack(u, "failed")) /\ UNCHANGED companion

\* begin_upload, presence.run_for_binding: the binding is checked and the
\* presence lock kept for the creation.
BeginBinds(r) ==
    /\ r.op = "begin" /\ r.stage = "sent" /\ held = NoUpload
    /\ IF mac = r.gen
       THEN held' = r.u /\ requests' = At(r, "checked") /\ UNCHANGED phone
       ELSE Answers(r, FALSE, 0) /\ UNCHANGED held
    /\ UNCHANGED <<spool, tombs, lock, presence, used, macSide, told, faults>>

\* UploadStore.begin: the expired sessions go first, then the limits.
BeginCreates(r) ==
    /\ r.op = "begin" /\ r.stage = "checked" /\ held = r.u /\ LockFree
    /\ held' = NoUpload
    /\ \E expired \in SUBSET Live :
          \/ /\ WithinLimits(r.i, expired)
             /\ session' = [u \in UploadIds |->
                    CASE u = r.u -> [state |-> "uploading", gen |-> r.gen,
                                     got |-> 0, total |-> r.i]
                      [] u \in expired -> NoSession
                      [] OTHER -> session[u]]
             /\ slots' = (slots \ expired) \cup {r.u}
             /\ parts' = (parts \ expired) \cup {r.u}
             /\ blobs' = blobs \ expired
             /\ Answers(r, TRUE, 0)
          \/ /\ ~WithinLimits(r.i, expired)
             /\ Remove(expired)
             /\ Answers(r, FALSE, 0)
    /\ UNCHANGED <<tombs, lock, presence, used, macSide, told, faults>>

\* The first binding_matches of a chunk, a finalize and a download.
BindingChecked(r) ==
    /\ r.op \in {"chunk", "finalize", "stream"} /\ r.stage = "sent"
    /\ held = NoUpload
    /\ IF mac = r.gen THEN requests' = At(r, "checked") /\ UNCHANGED phone
       ELSE Answers(r, FALSE, 0)
    /\ UNCHANGED <<spool, tombs, lock, held, presence, used, macSide, told,
                   faults>>

\* append_chunk up to the body: nothing is lost by a chunk that does not fit.
ChunkAccepted(r) ==
    /\ r.op = "chunk" /\ r.stage = "checked" /\ LockFree
    /\ IF /\ session[r.u].state = "uploading" /\ session[r.u].gen = r.gen
          /\ r.i <= session[r.u].got
       THEN lock' = r.u /\ requests' = At(r, "body") /\ UNCHANGED phone
       ELSE Answers(r, FALSE, 0) /\ UNCHANGED lock
    /\ UNCHANGED <<spool, tombs, held, presence, used, macSide, told, faults>>

\* The cursor after chunk i: a chunk already recorded does not move it.
Recorded(s, i) == IF i = s.got THEN s.got + 1 ELSE s.got

\* append_chunk from the body on: a chunk already recorded changes nothing; a
\* body that breaks off, has the wrong digest or meets a full disk fails the
\* upload.
ChunkEnds(r) ==
    /\ r.op = "chunk" /\ r.stage = "body"
    /\ lock' = NoUpload
    /\ \/ /\ session' = [session EXCEPT ![r.u].got = Recorded(session[r.u], r.i)]
          /\ requests' = (requests \ {r}) \cup
                 {[r EXCEPT !.stage = "stored", !.i = session'[r.u].got]}
          /\ UNCHANGED <<slots, parts, blobs, phone, faults>>
       \/ /\ FaultUnless(~r.heard) /\ Remove({r.u})
          /\ Answers(r, FALSE, 0)
    /\ UNCHANGED <<tombs, held, presence, used, macSide, told>>

\* finalize: the part becomes the blob when all chunks are there and verify.
Finalizes(r) ==
    /\ r.op = "finalize" /\ r.stage = "checked" /\ LockFree
    /\ \/ /\ session[r.u].gen = r.gen /\ session[r.u].state = "ready"
          /\ requests' = At(r, "stored") /\ UNCHANGED <<spool, phone, faults>>
       \/ /\ session[r.u].gen = r.gen /\ session[r.u].state = "uploading"
          /\ session[r.u].got = session[r.u].total
          /\ session' = [session EXCEPT ![r.u].state = "ready"]
          /\ parts' = parts \ {r.u} /\ blobs' = blobs \cup {r.u}
          /\ requests' = At(r, "stored") /\ UNCHANGED <<slots, phone, faults>>
       \/ /\ session[r.u].gen = r.gen /\ session[r.u].state = "uploading"
          /\ FaultUnless(session[r.u].got # session[r.u].total)
          /\ Remove({r.u}) /\ Answers(r, FALSE, 0)
       \/ /\ session[r.u].gen # r.gen
          /\ Answers(r, FALSE, 0) /\ UNCHANGED <<spool, faults>>
    /\ UNCHANGED <<tombs, lock, held, presence, used, macSide, told>>

\* The binding is asked for again after the spool: a chunk that was stored for
\* a Mac now gone, or a finalize whose frame cannot be routed, aborts.  The
\* frame of a finalize reaches the Companion's reader or is lost with its
\* connection; the upload queue holds one upload, the next is refused.
Rechecked(r) ==
    /\ r.op \in {"chunk", "finalize"} /\ r.stage = "stored" /\ held = NoUpload
    /\ \/ /\ mac = r.gen
          /\ Answers(r, TRUE, r.i)
          /\ IF /\ r.op = "finalize" /\ companion.up /\ companion.gen = r.gen
                /\ socket[r.gen] \in {"clearing", "open"}
             THEN Available(r.u)
             ELSE UNCHANGED <<companion, acks>>
          /\ UNCHANGED faults
       \/ /\ mac # r.gen \/ r.op = "finalize"
          /\ FaultUnless(mac # r.gen)
          /\ requests' = At(r, "aborting")
          /\ UNCHANGED <<phone, companion, acks>>
    /\ UNCHANGED <<spool, tombs, lock, held, presence, used, staged, vault, told>>

\* UploadStore.abort, for the phone's DELETE and the handlers that give up.
Aborts(r) ==
    /\ \/ r.stage = "aborting"
       \/ r.op = "delete" /\ r.stage = "sent"
    /\ LockFree
    /\ Remove({r.u})
    /\ Answers(r, FALSE, 0)
    /\ UNCHANGED <<tombs, lock, held, presence, used, macSide, told, faults>>

\* download_upload: ready_path, then the blocks, each after binding_matches.
StreamOpens(r) ==
    /\ r.op = "stream" /\ r.stage = "checked" /\ LockFree
    /\ IF session[r.u].state = "ready" /\ session[r.u].gen = r.gen
       THEN requests' = At(r, "body") /\ UNCHANGED phone
       ELSE Answers(r, FALSE, 0)
    /\ UNCHANGED <<spool, tombs, lock, held, presence, used, macSide, told,
                   faults>>

StreamEnds(r) ==
    /\ r.op = "stream" /\ r.stage = "body"
    /\ \/ r.heard /\ Answers(r, TRUE, 0) /\ UNCHANGED faults
       \/ FaultUnless(~r.heard \/ mac # r.gen) /\ requests' = At(r, "aborting")
          /\ UNCHANGED phone
    /\ UNCHANGED <<spool, tombs, lock, held, presence, used, macSide, told>>

----------------------------------------------------------------------------
(* RetentionCoordinator.run_once: every minute the sessions go whose       *)
(* absolute TTL has passed, or the terminal TTL since their turn ended.    *)

\* Mutant: only uploads that are complete expire.
CleanupReady(u) ==
    /\ u \in Live /\ LockFree /\ session[u].state = "ready"
    /\ Remove({u})
    /\ UNCHANGED <<tombs, lock, held, presence, requests, phoneSide, macSide, told,
                   faults>>
Cleanup(u) ==
    /\ u \in Live /\ LockFree
    /\ Remove({u})
    /\ UNCHANGED <<tombs, lock, held, presence, requests, phoneSide, macSide, told,
                   faults>>

----------------------------------------------------------------------------
(* The relay's handler of a Mac socket.                                    *)

SameSession(g, h) == companion.starts \cap (g + 1)..h = {}   \* for g <= h

\* Mutant of MacRegisters: it does not wait for the presence lock.
MacRegistersUnlocked(g) ==
    /\ socket[g] = "hello"
    /\ IF mac > g /\ SameSession(g, mac)
       THEN socket' = [socket EXCEPT ![g] = "closed"] /\ UNCHANGED mac
       ELSE socket' = [socket EXCEPT ![g] = "clearing"] /\ mac' = g
    /\ UNCHANGED <<spool, tombs, lock, held, requests, phoneSide, macSide, told,
                   faults>>

\* register_mac: a generation that is not newer within its session is refused.
MacRegisters(g) ==
    /\ socket[g] = "hello" /\ held = NoUpload
    /\ IF mac > g /\ SameSession(g, mac)
       THEN socket' = [socket EXCEPT ![g] = "closed"] /\ UNCHANGED mac
       ELSE socket' = [socket EXCEPT ![g] = "clearing"] /\ mac' = g
    /\ UNCHANGED <<spool, tombs, lock, held, requests, phoneSide, macSide, told,
                   faults>>

\* abort_except_binding, once the superseded socket is closed.
OthersAborted(g) ==
    /\ socket[g] = "clearing" /\ LockFree
    /\ socket' = [socket EXCEPT ![g] = "open"]
    /\ Remove({u \in Live : session[u].gen # g})
    /\ UNCHANGED <<tombs, lock, held, mac, requests, phoneSide, macSide, told,
                   faults>>

\* The socket closes and unregister_mac runs; only the current Mac's end is
\* followed by abort_binding.
SocketEnds(g) ==
    /\ socket[g] \in {"open", "ended"} /\ held = NoUpload
    /\ FaultUnless(socket[g] = "ended" \/ mac # g \/ g # companion.gen \/ ~companion.up)
    /\ IF mac = g
       THEN mac' = 0 /\ socket' = [socket EXCEPT ![g] = "draining"]
       ELSE socket' = [socket EXCEPT ![g] = "closed"] /\ UNCHANGED mac
    /\ UNCHANGED <<spool, tombs, lock, held, requests, phoneSide, macSide, told>>

BindingAborted(g) ==
    /\ socket[g] = "draining" /\ LockFree
    /\ socket' = [socket EXCEPT ![g] = "closed"]
    /\ Remove({u \in Live : session[u].gen = g})
    /\ UNCHANGED <<tombs, lock, held, mac, requests, phoneSide, macSide, told,
                   faults>>

\* acknowledge: session and files go, a tombstone stays.  Mutant: the session
\* is left to expire.
AcknowledgedOnly(u, gen) == tombs' = [tombs EXCEPT ![u] = gen] /\ UNCHANGED spool
Acknowledged(u, gen) == tombs' = [tombs EXCEPT ![u] = gen] /\ Remove({u})

\* _handle_upload_ack under run_if_current.  A frame of an old connection is
\* refused.  An upload that is neither in the spool nor remembered raises out
\* of the reader: the Mac's socket ends.
AckHandled ==
    /\ acks # <<>> /\ companion.up /\ socket[companion.gen] = "open"
    /\ held = NoUpload /\ LockFree
    /\ acks' = Tail(acks)
    /\ LET a == Head(acks)
           s == session[a.u]
       IN  \/ /\ a.gen # companion.gen \/ mac # companion.gen \/ tombs[a.u] = a.gen
              /\ UNCHANGED <<spool, tombs, told, socket>>
           \/ /\ a.gen = companion.gen /\ mac = companion.gen /\ s.gen = a.gen
              /\ Acknowledged(a.u, a.gen)
              /\ told' = [told EXCEPT ![a.u] = Append(@, a.status)]
              /\ UNCHANGED socket
           \/ /\ a.gen = companion.gen /\ mac = companion.gen
              /\ s.gen # a.gen /\ tombs[a.u] # a.gen
              /\ socket' = [socket EXCEPT ![a.gen] = "ended"]
              /\ UNCHANGED <<spool, tombs, told>>
    /\ UNCHANGED <<lock, held, mac, requests, phoneSide, companion, staged,
                   vault, faults>>

\* The relay stops and starts: start() removes the files it finds.
Restart ==
    /\ Fault
    /\ session' = [u \in UploadIds |-> NoSession]
    /\ slots' = {} /\ parts' = {} /\ blobs' = {}
    /\ tombs' = [u \in UploadIds |-> 0]
    /\ lock' = NoUpload /\ held' = NoUpload /\ mac' = 0
    /\ socket' = [g \in Gens |-> IF socket[g] = "none" THEN "none" ELSE "closed"]
    /\ requests' = {[r EXCEPT !.stage = "done", !.ok = FALSE] : r \in Downloads}
    /\ phone' = IF \E r \in PhoneCalls : TRUE
                THEN Failing(CHOOSE r \in PhoneCalls : TRUE) ELSE phone
    /\ UNCHANGED <<used, macSide, told>>

----------------------------------------------------------------------------
(* The Companion.                                                          *)

\* run_connection; a new process is a new session with an empty outbound queue.
Connects ==
    /\ ~companion.up /\ companion.gen < MaxGen
    /\ LET g == companion.gen + 1 IN
       /\ \/ /\ g > 1
             /\ companion' = [companion EXCEPT !.gen = g, !.up = TRUE] /\ UNCHANGED acks
          \/ /\ companion' = [companion EXCEPT !.gen = g, !.up = TRUE, !.starts = @ \cup {g}]
             /\ acks' = <<>>
       /\ socket' = [socket EXCEPT ![g] = "hello"]
    /\ UNCHANGED <<spool, tombs, lock, held, mac, requests, phoneSide, staged,
                   vault, told, faults>>

\* The connection ends: cleanup_all, the tasks are cancelled, frames in the
\* socket are lost.  An import the plugin has begun may still finish.
Disconnects ==
    /\ companion.up /\ FaultUnless(socket[companion.gen] \in {"draining", "closed"})
    /\ companion' = [companion EXCEPT !.up = FALSE, !.queue = <<>>, !.work = Idle]
    /\ staged' = {}
    /\ requests' = HangUp(Downloads)
    /\ vault' \in {vault, vault \cup staged}
    /\ \E n \in 0..Len(acks) : acks' = SubSeq(acks, n + 1, Len(acks))
    /\ UNCHANGED <<spool, tombs, lock, held, presence, phoneSide, told>>

\* _upload_worker takes an upload and asks the relay for it.
DownloadStarts ==
    /\ companion.up /\ companion.work = Idle /\ companion.queue # <<>>
    /\ Cardinality(requests) < MaxRequests
    /\ LET u == Head(companion.queue) IN
       /\ companion' = [companion EXCEPT !.queue = <<>>,
                            !.work = [u |-> u, stage |-> "downloading"]]
       /\ requests' = requests \cup {Request("stream", u, 0, companion.gen)}
    /\ UNCHANGED <<spool, tombs, lock, held, presence, phoneSide, acks, staged,
                   vault, told, faults>>

\* download returns, is refused, breaks off or times out; a failure is
\* cleaned up and acknowledged.
DownloadEnds(r) ==
    /\ r \in Downloads
    /\ requests' = HangUp({r})
    /\ IF r.stage = "done" /\ r.ok
       THEN /\ staged' = staged \cup {r.u}
            /\ companion' = [companion EXCEPT !.work.stage = "staged"]
            /\ UNCHANGED <<acks, faults>>
       ELSE /\ FaultUnless(r.stage = "done")
            /\ companion' = [companion EXCEPT !.work = Idle]
            /\ acks' = Append(acks, Ack(r.u, "failed"))
            /\ UNCHANGED staged
    /\ UNCHANGED <<spool, tombs, lock, held, presence, phoneSide, vault, told>>

\* bridge.import_upload, importFileIntoVault, the cleanup and the answer.  The
\* path is derived from the upload's id: a second import finds the first.  An
\* answer that fails or times out says nothing of the vault.
Imports(status) ==
    /\ companion.work.stage = "staged" /\ FaultUnless(status = "imported")
    /\ LET u == companion.work.u IN
       /\ IF status = "imported"
          THEN vault' = vault \cup {u} ELSE vault' \in {vault, vault \cup {u}}
       /\ staged' = staged \ {u}
       /\ acks' = Append(acks, Ack(u, status))
    /\ companion' = [companion EXCEPT !.work = Idle]
    /\ UNCHANGED <<spool, tombs, lock, held, presence, requests, phoneSide,
                   told>>

----------------------------------------------------------------------------
(* The phone's AttachmentController.                                       *)


Active == phone.st \in {"starting", "uploading", "finalizing", "importing", "paused"}

\* upload: one item at a time, bound to the Mac the phone believes in, which
\* may be gone.  A failed item is forgotten, not deleted.  (The id is the
\* relay's, fresh for each begin.)
Starts(u, total, g) ==
    /\ phone.st \in {"idle", "failed"} /\ u = used + 1
    /\ g <= companion.gen /\ socket[g] # "hello"
    /\ Cardinality(requests) < MaxRequests
    /\ used' = u
    /\ phone' = [st |-> "starting", u |-> u, i |-> 0, total |-> total, gen |-> g,
                 resumed |-> FALSE]
    /\ requests' = requests \cup {Request("begin", u, total, g)}
    /\ UNCHANGED <<spool, tombs, lock, held, presence, macSide, told, faults>>

\* A network error, or the thirty seconds are over.
CallFails(r) ==
    /\ r \in PhoneCalls /\ Fault
    /\ requests' = HangUp({r})
    /\ phone' = Failing(r)
    /\ UNCHANGED <<spool, tombs, lock, held, presence, used, macSide, told>>

Resumes ==
    /\ phone.st = "paused" /\ Cardinality(requests) < MaxRequests
    /\ phone' = [Sending(phone) EXCEPT !.resumed = TRUE]
    /\ requests' = requests \cup {FollowUp(phone)}
    /\ UNCHANGED <<spool, tombs, lock, held, presence, used, macSide, told,
                   faults>>

\* cancel: the request is dropped, a known upload deleted unless it is ready.
Cancels ==
    /\ phone.st # "idle" /\ Fault /\ Cardinality(requests) < MaxRequests
    /\ phone' = NoItem
    /\ requests' = HangUp(PhoneCalls) \cup
          IF phone.st \in {"starting", "ready"} \/ phone.u = NoUpload THEN {}
          ELSE {[Request("delete", phone.u, 0, phone.gen) EXCEPT !.heard = FALSE]}
    /\ UNCHANGED <<spool, tombs, lock, held, presence, used, macSide, told>>

\* onArtifact: the event of the vault's new file names the upload.
Artifact ==
    /\ phone.u \in vault /\ phone.st \notin {"starting", "ready"}
    /\ phone' = [phone EXCEPT !.st = "ready"]
    /\ UNCHANGED <<spool, tombs, lock, held, presence, requests, used, macSide,
                   told, faults>>

\* consumeReady, consumeReservation: a message took the attachment along.
Consumes ==
    /\ phone.st = "ready"
    /\ phone' = NoItem
    /\ requests' = HangUp(PhoneCalls)
    /\ UNCHANGED <<spool, tombs, lock, held, presence, used, macSide, told,
                   faults>>

\* The phone learns that its item's Mac is gone; invalidateSession.
Invalidated ==
    /\ Active /\ phone.gen # mac
    /\ phone' = [phone EXCEPT !.st = "failed"]
    /\ requests' = HangUp(PhoneCalls)
    /\ UNCHANGED <<spool, tombs, lock, held, presence, used, macSide, told, faults>>

----------------------------------------------------------------------------
NextHandler(r) ==
    \/ BeginBinds(r) \/ BeginCreates(r) \/ BindingChecked(r) \/ ChunkAccepted(r)
    \/ ChunkEnds(r) \/ Finalizes(r) \/ Rechecked(r) \/ Aborts(r)
    \/ StreamOpens(r) \/ StreamEnds(r)
NextSocket(g) ==
    MacRegisters(g) \/ OthersAborted(g) \/ SocketEnds(g) \/ BindingAborted(g)
NextCompanion ==
    \/ Connects \/ Disconnects \/ DownloadStarts
    \/ \E r \in requests : DownloadEnds(r)
    \/ \E status \in {"imported", "failed"} : Imports(status)
NextPhone ==
    \/ \E u \in UploadIds, total \in 1..MaxChunks, g \in Gens : Starts(u, total, g)
    \/ \E r \in requests : CallFails(r)
    \/ Resumes \/ Cancels \/ Artifact \/ Consumes \/ Invalidated

UploadNext ==
    \/ \E r \in requests : NextHandler(r)
    \/ \E u \in UploadIds : Cleanup(u)
    \/ AckHandled \/ Restart
    \/ \E g \in Gens : NextSocket(g)
    \/ NextCompanion \/ NextPhone

\* Time passes, the prune loop runs and gets its turn at the lock (asyncio's
\* lock is first come, first served), and a body being read ends: the phone
\* hangs up after thirty seconds.
Fairness ==
    /\ \A u \in UploadIds : SF_vars(Cleanup(u))
    /\ WF_vars(\E r \in requests : ChunkEnds(r))

Spec == Init /\ [][UploadNext]_vars /\ Fairness

----------------------------------------------------------------------------
(* What must hold.                                                         *)

\* The spool's three records agree: each session has its slot and exactly the
\* file of its state, nothing else occupies either, and an installation never
\* has more uploads than the limit.  (_remove_locked, begin, finalize and the
\* removal at start)
SpoolIsAccounted ==
    /\ slots = Live
    /\ parts = {u \in Live : session[u].state = "uploading"}
    /\ blobs = {u \in Live : session[u].state = "ready"}
    /\ Cardinality(slots) <= MaxConcurrent

\* An upload in the spool belongs to the current Mac, or a handler that will
\* abort it is on its way: the one of its own socket that has unregistered,
\* or the one of a Mac that has registered since.  (run_for_binding in
\* begin_upload; mac_websocket)
UploadsFollowTheMac ==
    \A u \in Live :
        LET g == session[u].gen
        IN  \/ mac = g
            \/ socket[g] = "draining"
            \/ \E h \in Gens \ {g} : socket[h] = "clearing"

\* The phones are told of an upload once, and never of an import that the
\* vault does not have, whatever is downloaded or acknowledged twice.
\* (acknowledge and its tombstone, _upload_worker)
ToldOnce ==
    \A u \in UploadIds :
        /\ Len(told[u]) <= 1
        /\ told[u] = <<"imported">> => u \in vault

\* No upload stays in the spool for ever, though chunks may keep the lock busy
\* and its phone and its Mac may never come back.  (cleanup_expired)
SpoolDrains == \A u \in UploadIds : u \in Live ~> u \notin Live
============================================================================
