--------------------------- MODULE UploadsProofs ---------------------------
(***************************************************************************)
(* What holds of the attachment path for any number of uploads, chunks,    *)
(* connections, requests and faults.                                       *)
(*                                                                         *)
(* UploadInv is the inductive invariant.  The spool's records stay in step *)
(* because an upload is created by one begin only (Begun); an upload       *)
(* follows the Mac because a begin that has checked the binding keeps the  *)
(* presence lock until the session exists (Bound); the chunk cursor stays  *)
(* within the file because a body is read under the spool's lock (Reading);*)
(* and the phones are told once because an acknowledged session never      *)
(* comes back (Acknowledging).                                             *)
(***************************************************************************)
EXTENDS Uploads, FiniteSetTheorems, SequenceTheorems, TLAPS

Begins == {r \in requests : r.op = "begin"}
Bodies == {r \in requests : r.op = "chunk" /\ r.stage = "body"}

\* The calls of the phone and of the Companion.
Asked ==
  /\ \A r \in Begins : r.stage \in {"sent", "checked"} /\ r.i > 0
  /\ \A r, q \in Begins : r.u = q.u => r = q
  /\ \A r \in Begins, q \in requests : q.op \in {"chunk", "finalize"} => q.u # r.u
  /\ \A r \in Begins : r.u = phone.u =>
       r.i = phone.total /\ phone.st # "paused" /\ ~phone.resumed
  /\ \A r \in PhoneCalls :
       r.u = phone.u /\ r.gen = phone.gen /\ (r.op = "chunk" => r.i <= phone.total)
  /\ \A r \in requests : r.op = "delete" => ~r.heard
  /\ phone.u # NoUpload => phone.gen # 0
  /\ phone.st = "paused" \/ phone.resumed => phone.u # NoUpload
  /\ phone.st \in {"idle", "failed"} => PhoneCalls = {}
  /\ \A r \in requests : r.op # "stream" => r.u <= used
  /\ phone.u <= used /\ phone.i <= phone.total
  /\ \A r, q \in Bodies : r = q

\* The Companion downloads one upload, of its own connection.
Downloading ==
  /\ \A r, q \in Downloads : r = q
  /\ \A r \in Downloads : companion.work = [u |-> r.u, stage |-> "downloading"]
  /\ companion.work.stage # "idle" => companion.work.u # NoUpload /\ companion.gen # 0
  /\ companion.up => companion.gen # 0
  /\ phone.gen <= companion.gen /\ \A r \in requests : r.gen <= companion.gen
  /\ \A g \in Gens : g > companion.gen => socket[g] = "none"

\* An upload is begun once.
Begun ==
  /\ \A r \in Begins : r.u \notin Live /\ told[r.u] = <<>>
  /\ \A u \in UploadIds : u > used => u \notin Live /\ told[u] = <<>>

\* A begin that has checked the binding holds it.
Bound == \A r \in Begins : r.stage = "checked" => held = r.u /\ mac = r.gen

\* The one body that is read is that of an upload that takes chunks.
Reading ==
  \A r \in Bodies : /\ lock = r.u
                    /\ session[r.u].state = "uploading" /\ r.i <= session[r.u].got

\* The calls, the phone's item and the session agree on the number of chunks.
Counted ==
  /\ \A u \in Live : session[u].got <= session[u].total
  /\ phone.u \in Live => session[phone.u].total = phone.total
  /\ \A r \in requests : r.op = "chunk" /\ r.u \in Live =>
       /\ r.i <= session[r.u].total
       /\ r.stage \in {"sent", "checked", "body"} => r.i < session[r.u].total

\* What the Companion reports as imported is in the vault, and what the phones
\* were told of has left the spool.
TrueAcks == {a \in Acks : a.status = "imported" => a.u \in vault}
Acknowledging ==
  /\ acks \in Seq(TrueAcks)
  /\ \A u \in UploadIds : told[u] # <<>> => u \notin Live

UploadInv ==
  /\ TypeOK /\ Asked /\ Downloading /\ Begun /\ Bound /\ Reading /\ Counted /\ Acknowledging
  /\ SpoolIsAccounted /\ UploadsFollowTheMac /\ ToldOnce

-----------------------------------------------------------------------------
(* The operators the handlers share.                                       *)

\* What leaves the spool leaves it whole.
LEMMA RemoveDoes ==
  ASSUME TypeOK, SpoolIsAccounted, NEW U, Remove(U)
  PROVE  /\ session' \in [UploadIds -> Sessions \cup {NoSession}]
         /\ slots' \subseteq UploadIds /\ parts' \subseteq UploadIds /\ blobs' \subseteq UploadIds
         /\ Live' = Live \ U
         /\ \A u \in UploadIds : session'[u] = session[u] \/ session'[u] = NoSession
         /\ \A u \in Live' : session'[u] = session[u]
         /\ SpoolIsAccounted'
<1>1. /\ session \in [UploadIds -> Sessions \cup {NoSession}]
      /\ session' = [u \in UploadIds |-> IF u \in U THEN NoSession ELSE session[u]]
      /\ slots' = slots \ U /\ parts' = parts \ U /\ blobs' = blobs \ U
      /\ slots \subseteq UploadIds /\ parts \subseteq UploadIds /\ blobs \subseteq UploadIds
  BY DEF TypeOK, Remove
<1>2. \A u \in UploadIds : session'[u] = IF u \in U THEN NoSession ELSE session[u]
  BY <1>1
<1>3. Live' = Live \ U
  BY <1>2 DEF Live, NoSession
<1>4. Cardinality(slots') <= MaxConcurrent
  <2>1. IsFiniteSet(UploadIds)
    BY UploadsAssumption, FS_Interval DEF UploadIds
  <2>2. IsFiniteSet(slots) /\ slots' \subseteq slots
    BY <1>1, <2>1, FS_Subset
  <2>3. Cardinality(slots') <= Cardinality(slots) /\ Cardinality(slots') \in Nat /\ Cardinality(slots) \in Nat
    BY <2>2, FS_Subset, FS_CardinalityType
  <2> QED BY <2>3, UploadsAssumption DEF SpoolIsAccounted
<1>5. SpoolIsAccounted'
  BY <1>1, <1>2, <1>3, <1>4 DEF SpoolIsAccounted, Live
<1> QED BY <1>1, <1>2, <1>3, <1>5 DEF Live

\* A caller hangs up: an answer is lost, the handler runs on unheard.
LEMMA HangUpDoes ==
  ASSUME requests \subseteq Requests, NEW R, R \subseteq requests
  PROVE  /\ HangUp(R) \subseteq Requests
         /\ \A q \in HangUp(R) : \E r \in requests :
              q = IF r \in R THEN [r EXCEPT !.heard = FALSE] ELSE r
<1>1. \A r \in Requests : [r EXCEPT !.heard = FALSE] \in Requests
  BY DEF Requests
<1>2. ASSUME NEW q \in HangUp(R)
      PROVE  q \in Requests /\ \E r \in requests :
               q = IF r \in R THEN [r EXCEPT !.heard = FALSE] ELSE r
  <2>1. CASE q \in requests \ R
    BY <2>1
  <2>2. CASE q \notin requests \ R
    <3>1. PICK r \in R : q = [r EXCEPT !.heard = FALSE]
      BY <1>2, <2>2 DEF HangUp
    <3> QED BY <1>1, <3>1
  <2> QED BY <2>1, <2>2
<1> QED BY <1>2

\* A handler moves to another stage and stays the request it was.
LEMMA AtDoes ==
  ASSUME requests \subseteq Requests, NEW r \in requests,
         NEW stage \in {"sent", "checked", "body", "stored", "aborting", "done"}
  PROVE  /\ [r EXCEPT !.stage = stage] \in Requests
         /\ At(r, stage) = (requests \ {r}) \cup {[r EXCEPT !.stage = stage]}
  BY DEF At, Requests

-----------------------------------------------------------------------------
(* The requests after one of them has moved on, or new ones were made.     *)

\* One request becomes another of the same call.
LEMMA Moves ==
  ASSUME UploadInv, NEW r \in requests, NEW q \in Requests,
         requests' = (requests \ {r}) \cup {q}, UNCHANGED <<phone, used>>,
         q.op = r.op, q.u = r.u, q.gen = r.gen, q.heard = r.heard,
         q.op = "begin" => q.stage \in {"sent", "checked"} /\ q.i = r.i,
         q.op = "chunk" => q.i = r.i \/ q.i <= phone.total \/ ~q.heard,
         q.op = "chunk" /\ q.stage = "body" => Bodies = {}
  PROVE  Asked'
<1>t. Asked /\ \A a \in requests' : a = q \/ (a \in requests /\ a # r)
  BY DEF UploadInv
<1>b. \A a \in Begins' : \/ a \in Begins /\ a # r
                         \/ a = q /\ r \in Begins /\ q.stage \in {"sent", "checked"} /\ q.i = r.i
  BY <1>t DEF Begins
<1>c. \A a \in PhoneCalls' :
        \/ a \in PhoneCalls
        \/ a = q /\ r \in PhoneCalls /\ (q.op = "chunk" => q.i = r.i \/ q.i <= phone.total)
  BY <1>t DEF PhoneCalls
<1>d. \A a \in requests' : \E e \in requests : a.op = e.op /\ a.u = e.u /\ a.heard = e.heard
  BY <1>t
<1>1. \A a \in Begins' : a.stage \in {"sent", "checked"} /\ a.i > 0
  BY <1>t, <1>b DEF Asked
<1>2. \A a, b \in Begins' : a.u = b.u => a = b
  BY <1>t, <1>b DEF Asked
<1>3. \A a \in Begins', b \in requests' : b.op \in {"chunk", "finalize"} => b.u # a.u
  <2> SUFFICES ASSUME NEW a \in Begins', NEW b \in requests', b.op \in {"chunk", "finalize"}
               PROVE  b.u # a.u
    OBVIOUS
  <2>1. PICK c \in Begins : c.u = a.u
    BY <1>b
  <2>2. PICK e \in requests : e.op = b.op /\ e.u = b.u
    BY <1>d
  <2> QED BY <1>t, <2>1, <2>2 DEF Asked
<1>4. \A a \in Begins' : a.u = phone.u => a.i = phone.total /\ phone.st # "paused" /\ ~phone.resumed
  BY <1>t, <1>b DEF Asked
<1>5. \A a \in PhoneCalls' :
        a.u = phone.u /\ a.gen = phone.gen /\ (a.op = "chunk" => a.i <= phone.total)
  BY <1>t, <1>c DEF Asked
<1>6. \A a \in requests' : (a.op # "stream" => a.u <= used) /\ (a.op = "delete" => ~a.heard)
  BY <1>t, <1>d DEF Asked
<1>7. \A a, b \in Bodies' : a = b
  <2>1. \A a \in Bodies' : a = q \/ a \in Bodies
    BY <1>t DEF Bodies
  <2>2. q \in Bodies' => Bodies = {}
    BY DEF Bodies
  <2>3. \A a, b \in Bodies : a = b
    BY <1>t DEF Asked
  <2> QED BY <2>1, <2>2, <2>3
<1>8. phone.st \in {"idle", "failed"} => PhoneCalls' = {}
  <2>1. phone.st \in {"idle", "failed"} => PhoneCalls = {}
    BY <1>t DEF Asked
  <2>2. \A a \in PhoneCalls' : PhoneCalls # {}
    BY <1>c
  <2> QED BY <2>1, <2>2
<1>9. /\ phone.u # NoUpload => phone.gen # 0
      /\ phone.st = "paused" \/ phone.resumed => phone.u # NoUpload
      /\ phone.u <= used /\ phone.i <= phone.total
  BY <1>t DEF Asked
<1> QED BY <1>1, <1>2, <1>3, <1>4, <1>5, <1>6, <1>7, <1>8, <1>9 DEF Asked

\* What changes of the phone's item and its calls without a new upload.
SameItem == phone'.u = phone.u /\ phone'.i = phone.i /\ phone'.total = phone.total /\ phone'.gen = phone.gen
Unbegun == \A b \in Begins : b.u # phone.u

\* Callers hang up, a deletion may be sent, and the phone's item is given up or kept.
LEMMA Drops ==
  ASSUME UploadInv, UNCHANGED used, NEW R, R \subseteq requests, NEW D \in SUBSET Requests,
         requests' \subseteq HangUp(R) \cup D,
         \A q \in D : q.op = "delete" /\ ~q.heard /\ q.u <= used,
         \/ phone'.u = NoUpload /\ phone'.i = 0 /\ phone'.total = 0 /\ phone'.st # "paused"
           /\ ~phone'.resumed /\ PhoneCalls' = {}
         \/ SameItem /\ ((phone'.st = "paused" \/ phone'.resumed) =>
                           (phone.st = "paused" \/ phone.resumed \/ Unbegun) /\ phone.u # NoUpload)
                     /\ (phone'.st \in {"idle", "failed"} => phone'.st = phone.st \/ PhoneCalls' = {})
  PROVE  Asked'
<1> DEFINE Was(q, r) == /\ q.op = r.op /\ q.u = r.u /\ q.i = r.i /\ q.gen = r.gen /\ q.stage = r.stage
                        /\ q.heard => r.heard
                        /\ q = IF r \in R THEN [r EXCEPT !.heard = FALSE] ELSE r
<1>t. requests \subseteq Requests /\ Asked /\ phone.i \in Nat /\ used \in Nat
  BY UploadsAssumption DEF UploadInv, TypeOK
<1>a. \A q \in requests' : q \in D \/ \E r \in requests : Was(q, r)
  <2> SUFFICES ASSUME NEW q \in requests', q \notin D PROVE \E r \in requests : Was(q, r)
    OBVIOUS
  <2>1. PICK r \in requests : q = IF r \in R THEN [r EXCEPT !.heard = FALSE] ELSE r
    BY <1>t, HangUpDoes
  <2>2. Was(q, r)
    BY <1>t, <2>1 DEF Requests
  <2> QED BY <2>2
<1>b. \A q \in D : q.op = "delete" /\ ~q.heard /\ q.u <= used
  OBVIOUS
<1>1. \A a \in Begins' : a.stage \in {"sent", "checked"} /\ a.i > 0
  BY <1>t, <1>a, <1>b DEF Begins, Asked
<1>2. \A a, b \in Begins' : a.u = b.u => a = b
  <2> SUFFICES ASSUME NEW a \in Begins', NEW b \in Begins', a.u = b.u PROVE a = b
    OBVIOUS
  <2>1. PICK r \in requests : Was(a, r)
    BY <1>a, <1>b DEF Begins
  <2>2. PICK q \in requests : Was(b, q)
    BY <1>a, <1>b DEF Begins
  <2>3. r \in Begins /\ q \in Begins
    BY <2>1, <2>2 DEF Begins
  <2>4. \A b1, b2 \in Begins : b1.u = b2.u => b1 = b2
    BY <1>t DEF Asked
  <2>5. r.u = q.u
    BY <2>1, <2>2
  <2>6. r = q
    BY <2>3, <2>4, <2>5
  <2> QED BY <2>1, <2>2, <2>6
<1>c. \A a \in Begins' : \E b \in Begins : a.u = b.u /\ a.i = b.i
  BY <1>t, <1>a, <1>b DEF Begins
<1>3. \A a \in Begins', b \in requests' : b.op \in {"chunk", "finalize"} => b.u # a.u
  <2> SUFFICES ASSUME NEW a \in Begins', NEW b \in requests', b.op \in {"chunk", "finalize"}
               PROVE  b.u # a.u
    OBVIOUS
  <2>1. PICK c \in Begins : c.u = a.u
    BY <1>c
  <2>2. PICK r \in requests : Was(b, r)
    BY <1>a, <1>b
  <2> QED BY <1>t, <2>1, <2>2 DEF Asked
<1>d. \A a \in PhoneCalls' : \E b \in PhoneCalls : a.op = b.op /\ a.u = b.u /\ a.i = b.i /\ a.gen = b.gen
  BY <1>t, <1>a, <1>b DEF PhoneCalls
<1>e. \A b \in Begins : b.u # NoUpload
  BY <1>t DEF Begins, Requests, UploadIds, NoUpload
<1>4. \A a \in Begins' : a.u = phone'.u => a.i = phone'.total /\ phone'.st # "paused" /\ ~phone'.resumed
  BY <1>t, <1>c, <1>e DEF SameItem, Unbegun, Asked
<1>5. \A a \in PhoneCalls' :
        a.u = phone'.u /\ a.gen = phone'.gen /\ (a.op = "chunk" => a.i <= phone'.total)
  BY <1>t, <1>d DEF SameItem, Asked
<1>6. \A a \in requests' : (a.op # "stream" => a.u <= used) /\ (a.op = "delete" => ~a.heard)
  BY <1>t, <1>a, <1>b DEF Asked
<1>7. \A a, b \in Bodies' : a = b
  <2> SUFFICES ASSUME NEW a \in Bodies', NEW b \in Bodies' PROVE a = b
    OBVIOUS
  <2>1. PICK r \in requests : Was(a, r)
    BY <1>a, <1>b DEF Bodies
  <2>2. PICK q \in requests : Was(b, q)
    BY <1>a, <1>b DEF Bodies
  <2>3. r \in Bodies /\ q \in Bodies
    BY <2>1, <2>2 DEF Bodies
  <2>4. r = q
    BY <1>t, <2>1, <2>2, <2>3 DEF Asked
  <2> QED BY <2>1, <2>2, <2>4
<1>8. /\ phone'.u # NoUpload => phone'.gen # 0
      /\ phone'.st = "paused" \/ phone'.resumed => phone'.u # NoUpload
      /\ phone'.u <= used /\ phone'.i <= phone'.total
  BY <1>t DEF SameItem, Asked, NoUpload
<1>9. phone'.st \in {"idle", "failed"} => PhoneCalls' = {}
  <2>1. PhoneCalls = {} => PhoneCalls' = {}
    BY <1>d
  <2> QED BY <1>t, <2>1 DEF Asked
<1> QED BY <1>1, <1>2, <1>3, <1>4, <1>5, <1>6, <1>7, <1>8, <1>9 DEF Asked

\* The phone's next call on its item.
LEMMA Adds ==
  ASSUME UploadInv, UNCHANGED used, NEW Q \in SUBSET requests, NEW f \in Requests,
         requests' = Q \cup {f}, f.op \in {"chunk", "finalize"}, f.stage = "sent",
         f.u = phone.u, f.gen = phone.gen, f.op = "chunk" => f.i <= phone.total,
         \A b \in Q : b.op = "begin" => b.u # phone.u,
         phone'.u = phone.u, phone'.gen = phone.gen, phone'.total = phone.total,
         phone'.i <= phone.total, phone'.st \notin {"idle", "failed"}
  PROVE  Asked'
<1>t. requests \subseteq Requests /\ Asked
  BY DEF UploadInv, TypeOK
<1>1. \A a \in Begins' : a \in Begins /\ a \in Q
  BY DEF Begins
<1>2. \A a \in PhoneCalls' : a = f \/ a \in PhoneCalls
  BY DEF PhoneCalls
<1>3. \A a \in Bodies' : a \in Bodies
  BY DEF Bodies
<1>4. phone.u # NoUpload
  BY DEF Requests, NoUpload, UploadIds
<1>5. \A a \in requests' : a = f \/ a \in requests
  OBVIOUS
<1>6. \A a \in Begins', b \in requests' : b.op \in {"chunk", "finalize"} => b.u # a.u
  BY <1>t, <1>1, <1>5 DEF Asked, Begins
<1>7. \A a \in requests' : (a.op # "stream" => a.u <= used) /\ (a.op = "delete" => ~a.heard)
  BY <1>t, <1>5 DEF Asked
<1>8. \A a \in PhoneCalls' :
        a.u = phone'.u /\ a.gen = phone'.gen /\ (a.op = "chunk" => a.i <= phone'.total)
  BY <1>t, <1>2 DEF Asked
<1>9. \A a \in Begins' : a.u = phone'.u => a.i = phone'.total /\ phone'.st # "paused" /\ ~phone'.resumed
  BY <1>1 DEF Begins
<1> QED BY <1>t, <1>1, <1>3, <1>4, <1>6, <1>7, <1>8, <1>9 DEF Asked

PhoneTyped ==
  phone \in [st : ItemStates, u : UploadIds \cup {NoUpload}, i : 0..MaxChunks,
             total : 0..MaxChunks, gen : 0..MaxGen, resumed : BOOLEAN]

\* The phone's item, from the type invariant.
LEMMA PhoneIsTyped == ASSUME UploadInv PROVE PhoneTyped
  BY DEF UploadInv, TypeOK, PhoneTyped

\* An answer: what becomes of the requests and of the phone's item.
LEMMA FollowUpIs ==
  ASSUME PhoneTyped, phone.u # NoUpload, phone.gen # 0, NEW i \in 0..MaxChunks,
         NEW item, item = [phone EXCEPT !.i = i]
  PROVE  LET f == FollowUp(item) IN
         /\ f \in Requests /\ f.op \in {"chunk", "finalize"} /\ f.stage = "sent"
         /\ f.u = phone.u /\ f.gen = phone.gen /\ (f.op = "chunk" => f.i = i /\ i < phone.total)
         /\ Sending(item) = [phone EXCEPT !.i = i, !.st = Sending(item).st]
         /\ Sending(item).st \in {"uploading", "finalizing"}
<1>1. item.i = i /\ item.u = phone.u /\ item.gen = phone.gen /\ item.total = phone.total
  BY DEF PhoneTyped
<1>2. phone.u \in UploadIds /\ phone.gen \in Gens
  BY UploadsAssumption DEF PhoneTyped, Gens
<1>3. CASE i < phone.total
  BY <1>1, <1>2, <1>3 DEF FollowUp, Sending, Request, Requests, PhoneTyped
<1>4. CASE ~(i < phone.total)
  BY UploadsAssumption, <1>1, <1>2, <1>4 DEF FollowUp, Sending, Request, Requests, PhoneTyped
<1> QED BY <1>3, <1>4

\* A call that failed: the item is paused, stays where a resumption left it, or
\* is given up where it had no upload yet.
Failed(r) ==
  \/ /\ r.op = "begin" /\ \A a \in PhoneCalls : a = r
     /\ phone'.u = NoUpload /\ phone'.i = 0 /\ phone'.total = 0 /\ phone'.gen = 0
     /\ phone'.st = "failed" /\ ~phone'.resumed
  \/ /\ r.op # "begin" /\ SameItem /\ phone.u # NoUpload /\ Unbegun
     /\ phone'.st \notin {"idle", "failed"}

\* What Failing makes of the item is one of the two.
LEMMA FailingDoes ==
  ASSUME UploadInv, NEW r \in PhoneCalls, phone' = Failing(r)
  PROVE  PhoneTyped' /\ Failed(r)
<1>t. requests \subseteq Requests /\ Asked /\ PhoneTyped /\ r \in requests
  BY DEF UploadInv, TypeOK, PhoneTyped, PhoneCalls
<1>1. r.u = phone.u /\ phone.u # NoUpload
  BY <1>t DEF Asked, Requests, UploadIds, NoUpload
<1>0. phone.st \notin {"idle", "failed"}
  BY <1>t DEF Asked
<1>2. r.op # "begin" => Unbegun
  BY <1>t, <1>1 DEF Unbegun, Asked, PhoneCalls
<1>3. CASE phone.resumed
  <2>1. r.op # "begin"
    BY <1>t, <1>1, <1>3 DEF Asked, Begins
  <2>2. phone' = phone
    BY <1>3, <2>1 DEF Failing
  <2> QED BY <1>t, <1>0, <1>1, <1>2, <2>1, <2>2 DEF Failed, SameItem, PhoneTyped
<1>4. CASE ~phone.resumed /\ r.op = "begin"
  <2>1. phone' = [st |-> "failed", u |-> NoUpload, i |-> 0, total |-> 0, gen |-> 0, resumed |-> FALSE]
    BY <1>4 DEF Failing, NoItem
  <2>2. 0 \in 0..MaxChunks /\ 0 \in 0..MaxGen /\ "failed" \in ItemStates
    BY UploadsAssumption DEF ItemStates
  <2>3. \A a \in PhoneCalls : a = r
    <3> SUFFICES ASSUME NEW a \in PhoneCalls PROVE a = r
      OBVIOUS
    <3>1. a.u = r.u /\ a \in requests /\ a.op \in {"begin", "chunk", "finalize"}
      BY <1>t, <1>1 DEF Asked, PhoneCalls
    <3> QED BY <1>t, <1>4, <3>1 DEF Asked, Begins
  <2> QED BY <1>4, <2>1, <2>2, <2>3 DEF PhoneTyped, Failed
<1>5. CASE ~phone.resumed /\ r.op # "begin"
  <2>1. phone' = [phone EXCEPT !.st = "paused"]
    BY <1>5 DEF Failing
  <2>2. SameItem /\ PhoneTyped' /\ phone'.st \notin {"idle", "failed"}
    BY <1>t, <2>1 DEF SameItem, PhoneTyped, ItemStates
  <2> QED BY <1>1, <1>2, <1>5, <2>2 DEF Failed
<1> QED BY <1>3, <1>4, <1>5

Calls == Asked /\ requests \subseteq Requests /\ PhoneTyped

Continues(r) ==
  \A q \in requests' :
    \/ q \in requests /\ q # r
    \/ /\ q.op \in {"chunk", "finalize"} /\ q.stage = "sent" /\ r.op \in {"begin", "chunk"}
       /\ q.u = r.u /\ q.gen = r.gen /\ q.u = phone.u /\ (q.op = "chunk" => q.i < phone.total)
    \/ /\ q.op = "stream" /\ r.op = "stream" /\ q.u = r.u /\ q.gen = r.gen /\ q.stage = "done"
       /\ q.heard /\ r.heard

\* An answer, whatever it says, leaves the calls in order.
LEMMA AnswersDo ==
  ASSUME UploadInv, NEW r \in requests, NEW ok \in BOOLEAN, NEW i \in 0..MaxChunks,
         Answers(r, ok, i), UNCHANGED used,
         ok /\ r.heard /\ r.op # "stream" => r.op \in {"begin", "chunk", "finalize"},
         ok /\ r.heard /\ r.op \in {"begin", "chunk"} => i <= phone.total
  PROVE  /\ Asked' /\ requests' \subseteq Requests /\ PhoneTyped' /\ Calls' /\ Continues(r)
         /\ phone'.gen \in {phone.gen, 0}
         /\ phone'.u = NoUpload \/ (phone'.u = phone.u /\ phone'.total = phone.total)
<1>t. /\ requests \subseteq Requests /\ Asked /\ PhoneTyped /\ r \in Requests
      /\ {} \in SUBSET Requests /\ {} \subseteq requests
  BY DEF UploadInv, TypeOK, PhoneTyped
<1>h. requests \ {r} \subseteq HangUp({}) \cup {}
  BY DEF HangUp
<1>1. CASE ~r.heard
  <2>1. requests' = requests \ {r} /\ UNCHANGED phone
    BY <1>1 DEF Answers
  <2>2. Asked'
    <3>1. phone'.u = phone.u /\ phone'.i = phone.i /\ phone'.total = phone.total /\ phone'.gen = phone.gen
          /\ (phone'.st = "paused" \/ phone'.resumed => phone.st = "paused" \/ phone.resumed)
      BY <2>1
    <3> QED BY <1>t, <2>1 DEF Asked, Begins, Bodies, PhoneCalls
  <2> QED BY <1>t, <2>1, <2>2 DEF Calls, Continues, PhoneTyped
<1>2. CASE r.heard /\ r.op = "stream"
  <2> DEFINE q == [r EXCEPT !.stage = "done", !.ok = ok]
  <2>1. requests' = (requests \ {r}) \cup {q} /\ UNCHANGED phone
    BY <1>2 DEF Answers
  <2>2. /\ q \in Requests /\ q.op = r.op /\ q.u = r.u /\ q.gen = r.gen /\ q.heard = r.heard
        /\ q.stage = "done"
    BY <1>t DEF Requests
  <2> HIDE DEF q
  <2>3. Asked'
    BY <1>2, <2>1, <2>2, Moves
  <2> QED BY <1>t, <1>2, <2>1, <2>2, <2>3 DEF Calls, Continues, PhoneTyped
<1>3. CASE r.heard /\ r.op # "stream" /\ ~ok
  <2>1. requests' = requests \ {r} /\ phone' = Failing(r)
    BY <1>3 DEF Answers
  <2>2. r.op \in {"begin", "chunk", "finalize"} /\ r \in PhoneCalls
    BY <1>t, <1>3 DEF Asked, Requests, PhoneCalls
  <2>3. PhoneTyped' /\ Failed(r)
    BY <2>1, <2>2, FailingDoes
  <2>4. r.op = "begin" /\ (\A a \in PhoneCalls : a = r) => PhoneCalls' = {}
    BY <2>1 DEF PhoneCalls
  <2>5. Asked'
    <3>1. CASE r.op = "begin"
      BY <1>t, <1>h, <2>1, <2>3, <2>4, <3>1, Drops DEF Failed
    <3>2. CASE r.op # "begin"
      BY <1>t, <1>h, <2>1, <2>3, <3>2, Drops DEF Failed
    <3> QED BY <3>1, <3>2
  <2> QED BY <1>t, <2>1, <2>3, <2>5 DEF Calls, Continues, Failed, SameItem
<1>4. CASE r.heard /\ r.op = "finalize" /\ ok
  <2>1. requests' = requests \ {r} /\ phone' = [phone EXCEPT !.st = "importing"]
    BY <1>4 DEF Answers
  <2>2. SameItem /\ PhoneTyped' /\ phone'.resumed = phone.resumed /\ phone'.st = "importing"
    BY <1>t, <2>1 DEF SameItem, PhoneTyped, ItemStates
  <2>3. phone.u # NoUpload
    BY <1>t, <1>4 DEF Asked, PhoneCalls, Requests, UploadIds, NoUpload
  <2>4. Asked'
    BY <1>t, <1>h, <2>1, <2>2, <2>3, Drops
  <2> QED BY <1>t, <2>1, <2>2, <2>4 DEF Calls, Continues, SameItem
<1>5. CASE r.heard /\ r.op \notin {"stream", "finalize"} /\ ok
  <2> DEFINE item == [phone EXCEPT !.i = i]
             f == FollowUp(item)
             Q == requests \ {r}
  <2>1. requests' = Q \cup {f} /\ phone' = Sending(item)
    BY <1>5 DEF Answers
  <2>2. r.op \in {"begin", "chunk"} /\ r \in PhoneCalls
    BY <1>5 DEF PhoneCalls
  <2>3. r.u = phone.u /\ r.gen = phone.gen /\ phone.u # NoUpload /\ phone.gen # 0
    BY <1>t, <2>2, UploadsAssumption DEF Asked, Requests, UploadIds, NoUpload, Gens
  <2>4. /\ f \in Requests /\ f.op \in {"chunk", "finalize"} /\ f.stage = "sent"
        /\ f.u = phone.u /\ f.gen = phone.gen /\ (f.op = "chunk" => f.i = i /\ i < phone.total)
        /\ Sending(item) = [phone EXCEPT !.i = i, !.st = Sending(item).st]
        /\ Sending(item).st \in {"uploading", "finalizing"}
    BY <1>t, <2>3, FollowUpIs
  <2>5. /\ phone'.u = phone.u /\ phone'.gen = phone.gen /\ phone'.total = phone.total
        /\ phone'.i = i /\ phone'.st \notin {"idle", "failed"} /\ PhoneTyped'
    BY <1>t, <2>1, <2>4 DEF PhoneTyped, ItemStates
  <2>6. \A b \in Q : b.op = "begin" => b.u # phone.u
    BY <1>t, <2>2, <2>3 DEF Asked, Begins
  <2>7. Q \in SUBSET requests /\ i <= phone.total
    BY <1>5, <2>2
  <2> HIDE DEF f, Q
  <2>8. Asked'
    BY <2>1, <2>4, <2>5, <2>6, <2>7, Adds DEF PhoneTyped
  <2>9. requests' \subseteq Requests /\ Continues(r)
    BY <1>t, <2>1, <2>2, <2>3, <2>4 DEF Q, Continues
  <2> QED BY <2>5, <2>8, <2>9 DEF Calls
<1> QED BY <1>1, <1>2, <1>3, <1>4, <1>5

\* So does a refusal.
LEMMA AnswersNo ==
  ASSUME UploadInv, NEW r \in requests, Answers(r, FALSE, 0), UNCHANGED used
  PROVE  /\ Calls' /\ Continues(r) /\ phone'.gen \in {phone.gen, 0}
         /\ phone'.u = NoUpload \/ (phone'.u = phone.u /\ phone'.total = phone.total)
<1>1. FALSE \in BOOLEAN /\ 0 \in 0..MaxChunks
  BY UploadsAssumption
<1> QED BY <1>1, AnswersDo

\* A handler goes on.
LEMMA AtMoves ==
  ASSUME UploadInv, NEW r \in requests,
         NEW stage \in {"sent", "checked", "body", "stored", "aborting", "done"},
         requests' = At(r, stage), UNCHANGED <<phone, used>>,
         r.op = "begin" => stage = "checked", r.op = "chunk" /\ stage = "body" => Bodies = {}
  PROVE  /\ Asked' /\ requests' \subseteq Requests /\ PhoneTyped' /\ Calls'
         /\ \A q \in requests' :
              \/ q \in requests /\ q # r
              \/ /\ q.op = r.op /\ q.u = r.u /\ q.i = r.i /\ q.gen = r.gen /\ q.heard = r.heard
                 /\ q.stage = stage
<1> DEFINE q == [r EXCEPT !.stage = stage]
<1>1. requests \subseteq Requests /\ PhoneTyped
  BY DEF UploadInv, TypeOK, PhoneTyped
<1>2. requests' = (requests \ {r}) \cup {q} /\ q \in Requests
  BY <1>1, AtDoes
<1>3. q.op = r.op /\ q.u = r.u /\ q.i = r.i /\ q.gen = r.gen /\ q.heard = r.heard /\ q.stage = stage
  BY <1>1 DEF Requests
<1> HIDE DEF q
<1>4. Asked'
  BY <1>2, <1>3, Moves
<1>5. PhoneTyped'
  BY <1>1 DEF PhoneTyped
<1> QED BY <1>1, <1>2, <1>3, <1>4, <1>5 DEF Calls

\* Nothing about the calls changes, but for the state of the phone's item.
LEMMA CallsStay ==
  ASSUME UploadInv, UNCHANGED <<requests, used>>,
         UNCHANGED phone \/ phone' = [phone EXCEPT !.st = "ready"]
  PROVE  Calls'
<1>1. Asked /\ PhoneTyped /\ requests \subseteq Requests
  BY DEF UploadInv, TypeOK, PhoneTyped
<1>2. CASE UNCHANGED phone
  BY <1>1, <1>2 DEF Calls, Asked, PhoneTyped, Begins, Bodies, PhoneCalls
<1>3. CASE phone' = [phone EXCEPT !.st = "ready"]
  <2>1. /\ phone'.u = phone.u /\ phone'.i = phone.i /\ phone'.total = phone.total
        /\ phone'.gen = phone.gen /\ phone'.resumed = phone.resumed /\ phone'.st = "ready"
        /\ PhoneTyped'
    BY <1>1, <1>3 DEF PhoneTyped, ItemStates
  <2> QED BY <1>1, <2>1 DEF Calls, Asked, Begins, Bodies, PhoneCalls
<1> QED BY <1>2, <1>3

\* Nobody reads a body while the lock of the spool is free.
LEMMA NoBody == ASSUME UploadInv, LockFree PROVE Bodies = {}
<1> SUFFICES ASSUME NEW r \in Bodies PROVE FALSE
  OBVIOUS
<1>1. r \in Requests /\ r.op = "chunk" /\ lock = r.u
  BY DEF UploadInv, TypeOK, Reading, Bodies
<1>2. r.u \in UploadIds
  BY <1>1 DEF Requests
<1> QED BY <1>1, <1>2 DEF LockFree, UploadIds, NoUpload

\* A chunk whose body has arrived moves the cursor within the file.
LEMMA ChunkRecorded ==
  ASSUME UploadInv, NEW r \in requests, r.op = "chunk", r.stage = "body"
  PROVE  /\ session[r.u] \in Sessions /\ session[r.u].state = "uploading" /\ r.u \in Live
         /\ r.u \in UploadIds /\ lock = r.u
         /\ Recorded(session[r.u], r.i) \in 0..session[r.u].total
         /\ Recorded(session[r.u], r.i) \in 0..MaxChunks
         /\ r.heard => Recorded(session[r.u], r.i) <= phone.total
<1>1. r.u \in UploadIds /\ r.i \in Nat /\ r \in Bodies
  <2>1. r \in Requests
    BY DEF UploadInv, TypeOK
  <2> QED BY <2>1 DEF Requests, Bodies
<1>2. lock = r.u /\ session[r.u].state = "uploading" /\ r.i <= session[r.u].got
  BY <1>1 DEF UploadInv, Reading
<1>3. session[r.u] \in Sessions /\ r.u \in Live
  <2>1. session \in [UploadIds -> Sessions \cup {NoSession}]
    BY DEF UploadInv, TypeOK
  <2> QED BY <1>1, <1>2, <2>1 DEF Live, NoSession
<1>4. session[r.u].got <= session[r.u].total /\ r.i < session[r.u].total
  BY <1>3 DEF UploadInv, Counted
<1>5. session[r.u].got \in Nat /\ session[r.u].total \in Nat /\ session[r.u].total <= MaxChunks
  BY <1>3, UploadsAssumption DEF Sessions
<1>6. Recorded(session[r.u], r.i) \in 0..session[r.u].total
  BY <1>1, <1>2, <1>4, <1>5 DEF Recorded
<1>7. r.heard => session[r.u].total = phone.total
  BY <1>3 DEF UploadInv, Counted, Asked, PhoneCalls
<1> QED BY <1>1, <1>2, <1>3, <1>5, <1>6, <1>7, UploadsAssumption

\* Every step of the system leaves the calls in order.
LEMMA CallsStep ==
  ASSUME UploadInv, UploadNext
  PROVE  Calls'
<1>1. ASSUME NEW r \in requests, BeginBinds(r) PROVE Calls'
  <2>1. CASE requests' = At(r, "checked") /\ UNCHANGED phone
    BY <1>1, <2>1, AtMoves DEF BeginBinds
  <2>2. CASE Answers(r, FALSE, 0)
    BY <1>1, <2>2, AnswersNo DEF BeginBinds
  <2> QED BY <1>1, <2>1, <2>2 DEF BeginBinds
<1>2. ASSUME NEW r \in requests, BeginCreates(r) PROVE Calls'
  <2>1. (Answers(r, TRUE, 0) \/ Answers(r, FALSE, 0)) /\ r.op = "begin" /\ used' = used
    BY <1>2 DEF BeginCreates
  <2>2. 0 <= phone.total /\ TRUE \in BOOLEAN /\ 0 \in 0..MaxChunks
    BY UploadsAssumption DEF UploadInv, TypeOK
  <2>3. CASE Answers(r, TRUE, 0)
    BY <2>1, <2>2, <2>3, AnswersDo
  <2>4. CASE Answers(r, FALSE, 0)
    BY <2>1, <2>4, AnswersNo
  <2> QED BY <2>1, <2>3, <2>4
<1>3. ASSUME NEW r \in requests, BindingChecked(r) PROVE Calls'
  <2>1. CASE requests' = At(r, "checked") /\ UNCHANGED phone
    BY <1>3, <2>1, AtMoves DEF BindingChecked
  <2>2. CASE Answers(r, FALSE, 0)
    BY <1>3, <2>2, AnswersNo DEF BindingChecked
  <2> QED BY <1>3, <2>1, <2>2 DEF BindingChecked
<1>4. ASSUME NEW r \in requests, ChunkAccepted(r) PROVE Calls'
  <2>1. CASE requests' = At(r, "body") /\ UNCHANGED phone
    BY <1>4, <2>1, AtMoves, NoBody DEF ChunkAccepted
  <2>2. CASE Answers(r, FALSE, 0)
    BY <1>4, <2>2, AnswersNo DEF ChunkAccepted
  <2> QED BY <1>4, <2>1, <2>2 DEF ChunkAccepted
<1>5. ASSUME NEW r \in requests, ChunkEnds(r) PROVE Calls'
  <2>1. CASE Answers(r, FALSE, 0)
    BY <1>5, <2>1, AnswersNo DEF ChunkEnds
  <2>2. CASE ~Answers(r, FALSE, 0)
    <3> DEFINE got == Recorded(session[r.u], r.i)
               q == [r EXCEPT !.stage = "stored", !.i = session'[r.u].got]
    <3>1. /\ session' = [session EXCEPT ![r.u].got = got] /\ UNCHANGED <<phone, used>>
          /\ requests' = (requests \ {r}) \cup {q}
      BY <1>5, <2>2 DEF ChunkEnds
    <3>2. requests \subseteq Requests /\ PhoneTyped /\ Asked
      BY DEF UploadInv, TypeOK, PhoneTyped
    <3>3. got \in 0..MaxChunks /\ (r.heard => got <= phone.total) /\ session'[r.u].got = got
      <4>1. session \in [UploadIds -> Sessions \cup {NoSession}]
        BY DEF UploadInv, TypeOK
      <4>2. session[r.u] \in Sessions /\ r.u \in UploadIds /\ got \in 0..MaxChunks /\ (r.heard => got <= phone.total)
        BY <1>5, ChunkRecorded DEF ChunkEnds
      <4> HIDE DEF got
      <4>3. session'[r.u] = [session[r.u] EXCEPT !.got = got]
        BY <3>1, <4>1, <4>2
      <4> QED BY <4>2, <4>3 DEF Sessions
    <3>4. /\ q \in Requests /\ q.op = r.op /\ q.u = r.u /\ q.gen = r.gen /\ q.heard = r.heard
          /\ q.stage = "stored" /\ q.i = got /\ r.op = "chunk"
      BY <1>5, <3>2, <3>3 DEF Requests, ChunkEnds
    <3> HIDE DEF q, got
    <3>5. Asked'
      BY <3>1, <3>3, <3>4, Moves
    <3> QED BY <3>1, <3>2, <3>4, <3>5 DEF Calls, PhoneTyped
  <2> QED BY <2>1, <2>2
<1>6. ASSUME NEW r \in requests, Finalizes(r) PROVE Calls'
  <2>1. CASE requests' = At(r, "stored") /\ UNCHANGED phone
    BY <1>6, <2>1, AtMoves DEF Finalizes
  <2>2. CASE Answers(r, FALSE, 0)
    BY <1>6, <2>2, AnswersNo DEF Finalizes
  <2> QED BY <1>6, <2>1, <2>2 DEF Finalizes
<1>7. ASSUME NEW r \in requests, Rechecked(r) PROVE Calls'
  <2>0. r.i \in 0..MaxChunks /\ (r.heard /\ r.op = "chunk" => r.i <= phone.total)
        /\ r.op \in {"chunk", "finalize"}
    BY <1>7 DEF Rechecked, UploadInv, TypeOK, Requests, Asked, PhoneCalls
  <2>1. CASE requests' = At(r, "aborting") /\ UNCHANGED phone
    BY <1>7, <2>0, <2>1, AtMoves DEF Rechecked
  <2>2. CASE Answers(r, TRUE, r.i)
    BY <1>7, <2>0, <2>2, AnswersDo DEF Rechecked
  <2> QED BY <1>7, <2>1, <2>2 DEF Rechecked
<1>8. ASSUME NEW r \in requests, Aborts(r) PROVE Calls'
  BY <1>8, AnswersNo DEF Aborts
<1>9. ASSUME NEW r \in requests, StreamOpens(r) PROVE Calls'
  <2>1. CASE requests' = At(r, "body") /\ UNCHANGED phone
    BY <1>9, <2>1, AtMoves DEF StreamOpens
  <2>2. CASE Answers(r, FALSE, 0)
    BY <1>9, <2>2, AnswersNo DEF StreamOpens
  <2> QED BY <1>9, <2>1, <2>2 DEF StreamOpens
<1>10. ASSUME NEW r \in requests, StreamEnds(r) PROVE Calls'
  <2>0. TRUE \in BOOLEAN /\ 0 \in 0..MaxChunks
    BY UploadsAssumption
  <2>1. CASE requests' = At(r, "aborting") /\ UNCHANGED phone
    BY <1>10, <2>1, AtMoves DEF StreamEnds
  <2>2. CASE Answers(r, TRUE, 0)
    BY <1>10, <2>2, <2>0, AnswersDo DEF StreamEnds
  <2> QED BY <1>10, <2>1, <2>2 DEF StreamEnds
<1>11. ASSUME NEW u \in UploadIds, Cleanup(u) PROVE Calls'
  BY <1>11, CallsStay DEF Cleanup, phoneSide
<1>12. CASE AckHandled
  BY <1>12, CallsStay DEF AckHandled, phoneSide
<1>13. CASE Restart
  <2>0. requests \subseteq Requests /\ Asked /\ PhoneTyped
    BY DEF UploadInv, TypeOK, PhoneTyped
  <2>1. \A q \in requests' : q.op = "stream" /\ q \in Requests
    <3> SUFFICES ASSUME NEW q \in requests' PROVE q.op = "stream" /\ q \in Requests
      OBVIOUS
    <3>1. PICK r \in Downloads : q = [r EXCEPT !.stage = "done", !.ok = FALSE]
      BY <1>13 DEF Restart
    <3> QED BY <2>0, <3>1 DEF Downloads, Requests
  <2>2. CASE PhoneCalls = {}
    <3>1. UNCHANGED <<phone, used>>
      BY <1>13, <2>2 DEF Restart
    <3> QED BY <2>0, <2>1, <3>1 DEF Calls, Asked, PhoneTyped, Begins, Bodies, PhoneCalls
  <2>3. CASE PhoneCalls # {}
    <3>1. PICK r \in PhoneCalls : phone' = Failing(r)
      BY <1>13, <2>3 DEF Restart
    <3>2. used' = used /\ r \in requests
      BY <1>13 DEF Restart, PhoneCalls
    <3>3. PhoneTyped' /\ Failed(r)
      BY <2>0, <3>1, FailingDoes
    <3>4. PhoneCalls' = {} /\ Begins' = {} /\ Bodies' = {} /\ requests' \subseteq Requests
      BY <2>1 DEF PhoneCalls, Begins, Bodies
    <3>5. used \in Nat
      BY DEF UploadInv, TypeOK
    <3> QED BY <2>0, <2>1, <3>2, <3>3, <3>4, <3>5 DEF Calls, Asked, Failed, NoUpload, PhoneTyped,
        SameItem
  <2> QED BY <2>2, <2>3
<1>14. ASSUME NEW g \in Gens, MacRegisters(g) PROVE Calls'
  BY <1>14, CallsStay DEF MacRegisters, phoneSide
<1>15. ASSUME NEW g \in Gens, OthersAborted(g) PROVE Calls'
  BY <1>15, CallsStay DEF OthersAborted, phoneSide
<1>16. ASSUME NEW g \in Gens, SocketEnds(g) PROVE Calls'
  BY <1>16, CallsStay DEF SocketEnds, phoneSide
<1>17. ASSUME NEW g \in Gens, BindingAborted(g) PROVE Calls'
  BY <1>17, CallsStay DEF BindingAborted, phoneSide
<1>18. CASE Connects
  BY <1>18, CallsStay DEF Connects, phoneSide
<1>19. CASE Disconnects
  <2>0. requests \subseteq Requests /\ Asked /\ PhoneTyped
    BY DEF UploadInv, TypeOK, PhoneTyped
  <2>1. requests' = HangUp(Downloads) /\ UNCHANGED <<phone, used>> /\ Downloads \subseteq requests
    BY <1>19 DEF Disconnects, Downloads, phoneSide
  <2>2. /\ requests' \subseteq Requests /\ SameItem /\ PhoneTyped'
        /\ phone'.st = phone.st /\ phone'.resumed = phone.resumed
    BY <2>0, <2>1, HangUpDoes DEF SameItem, PhoneTyped
  <2>3. requests' \subseteq HangUp(Downloads) \cup {} /\ {} \in SUBSET Requests
    BY <2>1
  <2>4. phone.st = "paused" \/ phone.resumed => phone.u # NoUpload
    BY <2>0 DEF Asked
  <2>5. Asked'
    BY <2>1, <2>2, <2>3, <2>4, Drops
  <2> QED BY <2>2, <2>5 DEF Calls
<1>20. CASE DownloadStarts
  <2>0. requests \subseteq Requests /\ Asked /\ PhoneTyped
    BY DEF UploadInv, TypeOK, PhoneTyped
  <2> DEFINE u == Head(companion.queue)
             f == Request("stream", u, 0, companion.gen)
  <2>1. requests' = requests \cup {f} /\ UNCHANGED <<phone, used>>
    BY <1>20 DEF DownloadStarts, phoneSide
  <2>2. f \in Requests /\ f.op = "stream"
    <3>1. u \in UploadIds
      BY <1>20 DEF DownloadStarts, UploadInv, TypeOK
    <3>2. companion.gen \in Gens
      BY <1>20 DEF DownloadStarts, UploadInv, TypeOK, Downloading, Gens
    <3> QED BY <3>1, <3>2, UploadsAssumption DEF Request, Requests
  <2> HIDE DEF f
  <2> QED BY <2>0, <2>1, <2>2 DEF Calls, Asked, PhoneTyped, Begins, Bodies, PhoneCalls
<1>21. ASSUME NEW r \in requests, DownloadEnds(r) PROVE Calls'
  <2>0. requests \subseteq Requests /\ Asked /\ PhoneTyped
    BY DEF UploadInv, TypeOK, PhoneTyped
  <2>1. requests' = HangUp({r}) /\ UNCHANGED <<phone, used>> /\ {r} \subseteq requests
    BY <1>21 DEF DownloadEnds, phoneSide
  <2>2. /\ requests' \subseteq Requests /\ SameItem /\ PhoneTyped'
        /\ phone'.st = phone.st /\ phone'.resumed = phone.resumed
    BY <2>0, <2>1, HangUpDoes DEF SameItem, PhoneTyped
  <2>3. requests' \subseteq HangUp({r}) \cup {} /\ {} \in SUBSET Requests
    BY <2>1
  <2>4. phone.st = "paused" \/ phone.resumed => phone.u # NoUpload
    BY <2>0 DEF Asked
  <2>5. Asked'
    BY <2>1, <2>2, <2>3, <2>4, Drops
  <2> QED BY <2>2, <2>5 DEF Calls
<1>22. ASSUME NEW status \in {"imported", "failed"}, Imports(status) PROVE Calls'
  BY <1>22, CallsStay DEF Imports, phoneSide
<1>23. ASSUME NEW u \in UploadIds, NEW total \in 1..MaxChunks, NEW g \in Gens, Starts(u, total, g) PROVE Calls'
  <2>0. requests \subseteq Requests /\ Asked /\ PhoneTyped
    BY DEF UploadInv, TypeOK, PhoneTyped
  <2> DEFINE f == Request("begin", u, total, g)
  <2>1. /\ u = used + 1 /\ used' = u /\ requests' = requests \cup {f}
        /\ phone' = [st |-> "starting", u |-> u, i |-> 0, total |-> total, gen |-> g, resumed |-> FALSE]
        /\ phone.st \in {"idle", "failed"}
    BY <1>23 DEF Starts
  <2>2. /\ f \in Requests /\ f.op = "begin" /\ f.stage = "sent" /\ f.u = u /\ f.i = total /\ f.gen = g
        /\ total > 0 /\ used \in Nat
    BY UploadsAssumption DEF Request, Requests, UploadInv, TypeOK
  <2>3. PhoneTyped'
    BY <2>1, UploadsAssumption DEF PhoneTyped, ItemStates, Gens
  <2> HIDE DEF f
  <2>4. PhoneCalls = {}
    BY <2>0, <2>1 DEF Asked
  <2>5. \A b \in requests : b.op # "stream" => b.u < u
    BY <2>0, <2>1, <2>2 DEF Asked, Requests, UploadIds
  <2>6. \A b \in requests' : b = f \/ b \in requests
    BY <2>1
  <2>7. Bodies' \subseteq Bodies
    BY <2>2, <2>6 DEF Bodies
  <2>8. \A b \in Begins' : b = f \/ (b \in Begins /\ b.u < u)
    BY <2>5, <2>6 DEF Begins
  <2>9. PhoneCalls' \subseteq {f}
    BY <2>4, <2>6 DEF PhoneCalls
  <2>10. /\ phone'.u = u /\ phone'.gen = g /\ phone'.st = "starting" /\ phone'.i = 0
         /\ phone'.total = total /\ ~phone'.resumed
    BY <2>1
  <2>11. g # 0 /\ u # 0 /\ total \in Nat /\ u \in Nat
    BY DEF Gens, UploadIds
  <2>12. /\ \A b \in Begins' : b.stage \in {"sent", "checked"} /\ b.i > 0
         /\ \A b, q \in Begins' : b.u = q.u => b = q
         /\ \A b \in Begins' : b.u = phone'.u =>
              b.i = phone'.total /\ phone'.st # "paused" /\ ~phone'.resumed
    BY <2>0, <2>2, <2>8, <2>10, <2>11 DEF Asked
  <2>13. \A b \in Begins', q \in requests' : q.op \in {"chunk", "finalize"} => q.u # b.u
    BY <2>0, <2>2, <2>5, <2>6, <2>8, <2>11 DEF Asked
  <2>14. \A b \in requests' : (b.op # "stream" => b.u <= used') /\ (b.op = "delete" => ~b.heard)
    BY <2>0, <2>1, <2>2, <2>5, <2>6, <2>11 DEF Asked, Requests, UploadIds
  <2>15. Asked'
    BY <2>0, <2>1, <2>2, <2>7, <2>9, <2>10, <2>11, <2>12, <2>13, <2>14 DEF Asked
  <2> QED BY <2>0, <2>1, <2>2, <2>3, <2>15 DEF Calls
<1>24. ASSUME NEW r \in requests, CallFails(r) PROVE Calls'
  <2>0. requests \subseteq Requests /\ Asked /\ PhoneTyped
    BY DEF UploadInv, TypeOK, PhoneTyped
  <2>1. requests' = HangUp({r}) /\ phone' = Failing(r) /\ used' = used /\ {r} \subseteq requests
        /\ r \in PhoneCalls
    BY <1>24 DEF CallFails
  <2>2. PhoneTyped' /\ Failed(r)
    BY <2>1, FailingDoes
  <2>3. requests' \subseteq HangUp({r}) \cup {} /\ {} \in SUBSET Requests /\ requests' \subseteq Requests
    BY <2>0, <2>1, HangUpDoes
  <2>4. CASE r.op = "begin"
    <3>1. PhoneCalls' = {}
      <4> SUFFICES ASSUME NEW q \in requests', q.heard, q.op \in {"begin", "chunk", "finalize"} PROVE FALSE
        BY DEF PhoneCalls
      <4>1. PICK a \in requests : q = IF a \in {r} THEN [a EXCEPT !.heard = FALSE] ELSE a
        BY <2>0, <2>1, HangUpDoes
      <4>2. \A b \in PhoneCalls : b = r
        BY <2>2, <2>4 DEF Failed
      <4> QED BY <2>0, <4>1, <4>2 DEF PhoneCalls, Requests
    <3> QED BY <2>0, <2>1, <2>2, <2>3, <2>4, <3>1, Drops DEF Failed, Calls
  <2>5. CASE r.op # "begin"
    BY <2>0, <2>1, <2>2, <2>3, <2>5, Drops DEF Failed, Calls
  <2> QED BY <2>4, <2>5
<1>25. CASE Resumes
  <2>0. requests \subseteq Requests /\ Asked /\ PhoneTyped
    BY DEF UploadInv, TypeOK, PhoneTyped
  <2> DEFINE f == FollowUp(phone)
  <2>1. /\ phone.st = "paused" /\ phone' = [Sending(phone) EXCEPT !.resumed = TRUE]
        /\ requests' = requests \cup {f} /\ used' = used
    BY <1>25 DEF Resumes
  <2>2. phone.u # NoUpload /\ phone.gen # 0 /\ phone.i <= phone.total
    BY <2>0, <2>1 DEF Asked
  <2>3. phone = [phone EXCEPT !.i = phone.i] /\ phone.i \in 0..MaxChunks
    BY <2>0 DEF PhoneTyped
  <2>4. /\ f \in Requests /\ f.op \in {"chunk", "finalize"} /\ f.stage = "sent"
        /\ f.u = phone.u /\ f.gen = phone.gen /\ (f.op = "chunk" => f.i = phone.i /\ phone.i < phone.total)
        /\ Sending(phone) = [phone EXCEPT !.i = phone.i, !.st = Sending(phone).st]
        /\ Sending(phone).st \in {"uploading", "finalizing"}
    BY <2>0, <2>2, <2>3, FollowUpIs
  <2>5. /\ phone'.u = phone.u /\ phone'.gen = phone.gen /\ phone'.total = phone.total
        /\ phone'.i = phone.i /\ phone'.st \notin {"idle", "failed"} /\ PhoneTyped'
    BY <2>0, <2>1, <2>4 DEF PhoneTyped, ItemStates
  <2>6. \A b \in requests : b.op = "begin" => b.u # phone.u
    BY <2>0, <2>1 DEF Asked, Begins
  <2>7. requests \in SUBSET requests /\ (f.op = "chunk" => f.i <= phone.total)
    BY <2>2, <2>4
  <2> HIDE DEF f
  <2>8. Asked'
    BY <2>1, <2>2, <2>4, <2>5, <2>6, <2>7, Adds
  <2> QED BY <2>0, <2>1, <2>4, <2>5, <2>8 DEF Calls
<1>26. CASE Cancels
  <2>0. requests \subseteq Requests /\ Asked /\ PhoneTyped
    BY DEF UploadInv, TypeOK, PhoneTyped
  <2>1. /\ phone'.u = NoUpload /\ phone'.i = 0 /\ phone'.total = 0 /\ phone'.gen = 0 /\ phone'.st = "idle" /\ ~phone'.resumed
        /\ PhoneTyped'
    <3>1. phone' = [st |-> "idle", u |-> NoUpload, i |-> 0, total |-> 0, gen |-> 0, resumed |-> FALSE]
      BY <1>26 DEF Cancels, NoItem
    <3>2. 0 \in 0..MaxChunks /\ 0 \in 0..MaxGen /\ "idle" \in ItemStates
      BY UploadsAssumption DEF ItemStates
    <3> QED BY <3>1, <3>2 DEF PhoneTyped
  <2>2. \A q \in HangUp(PhoneCalls) : ~(q.heard /\ q.op \in {"begin", "chunk", "finalize"})
    <3> SUFFICES ASSUME NEW q \in HangUp(PhoneCalls), q.heard, q.op \in {"begin", "chunk", "finalize"}
                 PROVE FALSE
      OBVIOUS
    <3>1. PICK r \in requests : q = IF r \in PhoneCalls THEN [r EXCEPT !.heard = FALSE] ELSE r
      BY <2>0, HangUpDoes DEF PhoneCalls
    <3> QED BY <2>0, <3>1 DEF PhoneCalls, Requests
  <2>3. PhoneCalls \subseteq requests /\ HangUp(PhoneCalls) \subseteq Requests
    BY <2>0, HangUpDoes DEF PhoneCalls
  <2> DEFINE d == [Request("delete", phone.u, 0, phone.gen) EXCEPT !.heard = FALSE]
             D == IF phone.st \in {"starting", "ready"} \/ phone.u = NoUpload THEN {} ELSE {d}
  <2>4. requests' = HangUp(PhoneCalls) \cup D /\ used' = used
    BY <1>26 DEF Cancels
  <2>5. D \in SUBSET Requests /\ \A q \in D : q.op = "delete" /\ ~q.heard /\ q.u <= used
    <3>1. CASE phone.u = NoUpload
      BY <3>1
    <3>2. CASE phone.u # NoUpload
      <4>1. phone.u \in UploadIds /\ phone.gen \in Gens /\ phone.u <= used
        BY <2>0, <3>2, UploadsAssumption DEF PhoneTyped, Asked, Gens
      <4>2. d \in Requests /\ d.op = "delete" /\ ~d.heard /\ d.u <= used
        <5> DEFINE c == Request("delete", phone.u, 0, phone.gen)
        <5>1. c \in Requests /\ c.op = "delete" /\ c.u = phone.u
          BY <4>1, UploadsAssumption DEF Request, Requests
        <5>2. d = [c EXCEPT !.heard = FALSE]
          OBVIOUS
        <5> HIDE DEF c, d
        <5> QED BY <4>1, <5>1, <5>2 DEF Requests
      <4> QED BY <4>2
    <3> QED BY <3>1, <3>2
  <2> HIDE DEF D
  <2>6. PhoneCalls' = {}
    BY <2>2, <2>4, <2>5 DEF PhoneCalls
  <2>7. Asked'
    BY <2>1, <2>3, <2>4, <2>5, <2>6, Drops
  <2> QED BY <2>1, <2>3, <2>4, <2>5, <2>7 DEF Calls
<1>27. CASE Artifact
  BY <1>27, CallsStay DEF Artifact
<1>28. CASE Consumes
  <2>0. requests \subseteq Requests /\ Asked /\ PhoneTyped
    BY DEF UploadInv, TypeOK, PhoneTyped
  <2>1. /\ phone'.u = NoUpload /\ phone'.i = 0 /\ phone'.total = 0 /\ phone'.gen = 0 /\ phone'.st = "idle" /\ ~phone'.resumed
        /\ PhoneTyped'
    <3>1. phone' = [st |-> "idle", u |-> NoUpload, i |-> 0, total |-> 0, gen |-> 0, resumed |-> FALSE]
      BY <1>28 DEF Consumes, NoItem
    <3>2. 0 \in 0..MaxChunks /\ 0 \in 0..MaxGen /\ "idle" \in ItemStates
      BY UploadsAssumption DEF ItemStates
    <3> QED BY <3>1, <3>2 DEF PhoneTyped
  <2>2. \A q \in HangUp(PhoneCalls) : ~(q.heard /\ q.op \in {"begin", "chunk", "finalize"})
    <3> SUFFICES ASSUME NEW q \in HangUp(PhoneCalls), q.heard, q.op \in {"begin", "chunk", "finalize"}
                 PROVE FALSE
      OBVIOUS
    <3>1. PICK r \in requests : q = IF r \in PhoneCalls THEN [r EXCEPT !.heard = FALSE] ELSE r
      BY <2>0, HangUpDoes DEF PhoneCalls
    <3> QED BY <2>0, <3>1 DEF PhoneCalls, Requests
  <2>3. PhoneCalls \subseteq requests /\ HangUp(PhoneCalls) \subseteq Requests
    BY <2>0, HangUpDoes DEF PhoneCalls
  <2>4. requests' = HangUp(PhoneCalls) \cup {} /\ used' = used
    BY <1>28 DEF Consumes
  <2>6. PhoneCalls' = {}
    BY <2>2, <2>4 DEF PhoneCalls
  <2>7. Asked'
    BY <2>1, <2>3, <2>4, <2>6, Drops
  <2> QED BY <2>1, <2>3, <2>4, <2>7 DEF Calls
<1>29. CASE Invalidated
  <2>0. requests \subseteq Requests /\ Asked /\ PhoneTyped
    BY DEF UploadInv, TypeOK, PhoneTyped
  <2>2. \A q \in HangUp(PhoneCalls) : ~(q.heard /\ q.op \in {"begin", "chunk", "finalize"})
    <3> SUFFICES ASSUME NEW q \in HangUp(PhoneCalls), q.heard, q.op \in {"begin", "chunk", "finalize"}
                 PROVE FALSE
      OBVIOUS
    <3>1. PICK r \in requests : q = IF r \in PhoneCalls THEN [r EXCEPT !.heard = FALSE] ELSE r
      BY <2>0, HangUpDoes DEF PhoneCalls
    <3> QED BY <2>0, <3>1 DEF PhoneCalls, Requests
  <2>3. PhoneCalls \subseteq requests /\ HangUp(PhoneCalls) \subseteq Requests
    BY <2>0, HangUpDoes DEF PhoneCalls
  <2>1. SameItem /\ PhoneTyped' /\ phone'.st = "failed" /\ phone'.resumed = phone.resumed
    BY <1>29, <2>0 DEF Invalidated, SameItem, PhoneTyped, ItemStates
  <2>4. requests' = HangUp(PhoneCalls) \cup {} /\ used' = used
    BY <1>29 DEF Invalidated
  <2>5. phone.resumed => phone.u # NoUpload
    BY <2>0 DEF Asked
  <2>6. PhoneCalls' = {}
    BY <2>2, <2>4 DEF PhoneCalls
  <2>7. Asked'
    BY <2>1, <2>3, <2>4, <2>5, <2>6, Drops
  <2> QED BY <2>1, <2>3, <2>4, <2>7 DEF Calls
<1> QED BY <1>1, <1>2, <1>3, <1>4, <1>5, <1>6, <1>7, <1>8, <1>9, <1>10, <1>11, <1>12, <1>13, <1>14,
    <1>15, <1>16, <1>17, <1>18, <1>19, <1>20, <1>21, <1>22, <1>23, <1>24, <1>25, <1>26, <1>27,
    <1>28, <1>29 DEF UploadNext, NextHandler, NextSocket, NextCompanion, NextPhone

-----------------------------------------------------------------------------
(* The sessions, while the handlers work on them.                          *)

SpoolTyped ==
  /\ session \in [UploadIds -> Sessions \cup {NoSession}]
  /\ slots \subseteq UploadIds /\ parts \subseteq UploadIds /\ blobs \subseteq UploadIds

\* Where a begin or a chunk of the next state comes from: it was there, its
\* handler has asked for the binding or gives up, or the phone sends the next.
Follows(q) ==
  \/ \E r \in requests :
       /\ q.op = r.op /\ q.u = r.u /\ q.i = r.i /\ q.gen = r.gen
       /\ \/ q.stage = r.stage
          \/ q.op = "chunk" /\ q.stage = "checked" /\ r.stage = "sent"
          \/ q.op = "chunk" /\ q.stage = "aborting"
  \/ q.op = "chunk" /\ q.stage = "sent" /\ q.u = phone.u /\ q.i < phone.total
Onward == \A q \in requests' : q.op \in {"begin", "chunk"} => Follows(q)

\* Hanging up begins nothing.
LEMMA HangUpGoesOn ==
  ASSUME UploadInv, NEW R, R \subseteq requests,
         \A q \in requests' : q \in HangUp(R) \/ q.op \notin {"begin", "chunk"}
  PROVE  Onward
<1> SUFFICES ASSUME NEW q \in requests', q.op \in {"begin", "chunk"} PROVE Follows(q)
  BY DEF Onward
<1>1. requests \subseteq Requests
  BY DEF UploadInv, TypeOK
<1>2. PICK r \in requests : q = IF r \in R THEN [r EXCEPT !.heard = FALSE] ELSE r
  BY <1>1, HangUpDoes
<1>3. q.op = r.op /\ q.u = r.u /\ q.i = r.i /\ q.gen = r.gen /\ q.stage = r.stage
  BY <1>1, <1>2 DEF Requests
<1> QED BY <1>3 DEF Follows

\* An answer begins nothing but the next chunk.
LEMMA AnswerGoesOn ==
  ASSUME NEW r \in requests, Continues(r)
  PROVE  Onward
  BY DEF Continues, Onward, Follows

\* A handler that asks for the binding or gives up begins nothing.
LEMMA AtGoesOn ==
  ASSUME UploadInv, NEW r \in requests, r.op # "begin",
         NEW stage \in {"sent", "checked", "body", "stored", "aborting", "done"},
         requests' = At(r, stage), UNCHANGED <<phone, used>>,
         r.op = "chunk" => stage = "aborting" \/ (stage = "checked" /\ r.stage = "sent")
  PROVE  Onward
  BY AtMoves DEF Onward, Follows

\* What is not a step of an upload's own begin, chunk or finalize leaves its
\* session as it is or takes it away.
\* A begin that has checked the binding is the one that holds it.
LEMMA NoneBound ==
  ASSUME UploadInv, held = NoUpload, Onward
  PROVE  \A q \in Begins' : q.stage # "checked"
<1>1. \A q \in Begins' : \E r \in Begins : q.stage = r.stage
  BY DEF Begins, Onward, Follows
<1>2. \A r \in Begins : r.stage # "checked"
  BY DEF UploadInv, TypeOK, Bound, Begins, Requests, NoUpload, UploadIds
<1> QED BY <1>1, <1>2

\* A step that keeps every session or takes it away, and begins none, keeps
\* what ties the begins, the current Mac and the phone's count to the sessions.
LEMMA Keeps ==
  ASSUME UploadInv, Onward, UNCHANGED used, requests' \subseteq Requests,
         \A u \in UploadIds : session'[u] = session[u] \/ session'[u] = NoSession,
         \A u \in UploadIds : told'[u] = told[u] \/ u \in Live,
         UNCHANGED <<held, mac>> \/ \A q \in Begins' : q.stage # "checked",
         phone'.u = NoUpload \/ (phone'.u = phone.u /\ phone'.total = phone.total)
  PROVE  Begun' /\ Bound' /\ Counted'
<1>t. requests \subseteq Requests /\ session \in [UploadIds -> Sessions \cup {NoSession}]
  BY DEF UploadInv, TypeOK
<1>1. Live' \subseteq Live /\ \A u \in Live' : session'[u] = session[u]
  BY DEF Live, NoSession
<1>2. \A q \in Begins' : \E r \in Begins : q.u = r.u /\ q.gen = r.gen /\ q.stage = r.stage
  BY DEF Begins, Onward, Follows
<1>4. \A q \in Begins' : q.u \in UploadIds
  BY DEF Begins, Requests
<1>5. Begun'
  BY <1>1, <1>2, <1>4 DEF UploadInv, Begun
<1>6. Bound'
  BY <1>2 DEF UploadInv, Bound
<1>8. Counted'
  <2>1. \A u \in Live' : session'[u].got <= session'[u].total
    BY <1>1 DEF UploadInv, Counted
  <2>2. phone'.u \in Live' => session'[phone'.u].total = phone'.total
    BY <1>1 DEF UploadInv, Counted, Live, UploadIds, NoUpload
  <2>3. ASSUME NEW q \in requests', q.op = "chunk", q.u \in Live'
        PROVE  /\ q.i <= session'[q.u].total
               /\ q.stage \in {"sent", "checked", "body"} => q.i < session'[q.u].total
    <3>1. q.u \in Live /\ session'[q.u] = session[q.u] /\ Follows(q)
      BY <1>1, <2>3 DEF Onward
    <3>2. session[q.u] \in Sessions /\ q.i \in Nat
      BY <1>t, <3>1 DEF Live, NoSession, Requests
    <3>3. session[q.u].total \in Nat
      BY <3>2 DEF Sessions
    <3>4. CASE q.u = phone.u /\ q.i < phone.total
      <4>1. session[q.u].total = phone.total
        BY <3>1, <3>4 DEF UploadInv, Counted
      <4> QED BY <3>1, <3>2, <3>3, <3>4, <4>1
    <3>5. CASE ~(q.u = phone.u /\ q.i < phone.total)
      BY <2>3, <3>1, <3>5 DEF Follows, UploadInv, Counted
    <3> QED BY <3>4, <3>5
  <2> QED BY <2>1, <2>2, <2>3 DEF Counted
<1> QED BY <1>5, <1>6, <1>8

\* The body that is read keeps its session while the lock is held.
LEMMA KeepsReading ==
  ASSUME UploadInv, Onward, UNCHANGED lock, UNCHANGED session \/ LockFree
  PROVE  Reading'
<1>1. \A q \in Bodies' : \E r \in Bodies : q.u = r.u /\ q.i = r.i
  BY DEF Bodies, Onward, Follows
<1>2. LockFree => Bodies = {}
  BY NoBody
<1> QED BY <1>1, <1>2 DEF UploadInv, Reading

Kept == SpoolTyped /\ SpoolIsAccounted /\ Begun /\ Bound /\ Reading /\ Counted

SamePhone == phone'.u = NoUpload \/ (phone'.u = phone.u /\ phone'.total = phone.total)

\* A step that leaves the spool alone leaves it in order.
LEMMA SpoolStays == ASSUME UploadInv, UNCHANGED spool PROVE SpoolTyped' /\ SpoolIsAccounted'
  BY DEF UploadInv, TypeOK, SpoolTyped, SpoolIsAccounted, spool, Live

\* A step beside the spool keeps what is known of the sessions.
LEMMA Idles ==
  ASSUME UploadInv, Onward, UNCHANGED <<spool, used, lock, told>>, requests' \subseteq Requests,
         UNCHANGED <<held, mac>> \/ held = NoUpload, SamePhone
  PROVE  Kept'
<1>1. UNCHANGED session /\ UNCHANGED spool /\ UNCHANGED used /\ UNCHANGED lock /\ UNCHANGED told
  BY DEF spool
<1>2. SpoolTyped' /\ SpoolIsAccounted'
  BY <1>1, SpoolStays
<1>3. Begun' /\ Bound' /\ Counted'
  BY <1>1, Keeps, NoneBound DEF SamePhone
<1>4. Reading'
  BY <1>1, KeepsReading
<1> QED BY <1>2, <1>3, <1>4 DEF Kept

\* A removal under the lock keeps what is known of the sessions.
LEMMA Removes ==
  ASSUME UploadInv, Onward, NEW U, Remove(U), LockFree, UNCHANGED <<used, lock, held, mac>>,
         requests' \subseteq Requests, SamePhone,
         \A u \in UploadIds : told'[u] = told[u] \/ u \in Live
  PROVE  Kept'
<1>1. TypeOK /\ SpoolIsAccounted
  BY DEF UploadInv
<1>2. /\ SpoolTyped' /\ SpoolIsAccounted'
      /\ \A u \in UploadIds : session'[u] = session[u] \/ session'[u] = NoSession
  BY <1>1, RemoveDoes DEF SpoolTyped
<1>3. Begun' /\ Bound' /\ Counted'
  BY <1>2, Keeps DEF SamePhone
<1>4. Reading'
  BY KeepsReading
<1> QED BY <1>2, <1>3, <1>4 DEF Kept

\* Nothing is begun when no request is made.
LEMMA SameGoesOn == ASSUME requests' \subseteq requests PROVE Onward
  BY DEF Onward, Follows

\* A handler goes on, answers or a caller hangs up without touching the spool.
LEMMA AtIdles ==
  ASSUME UploadInv, NEW r \in requests, r.op # "begin",
         NEW stage \in {"sent", "checked", "body", "stored", "aborting", "done"},
         requests' = At(r, stage), UNCHANGED <<spool, phone, used, lock, told, held, mac>>,
         r.op = "chunk" => stage = "aborting" \/ (stage = "checked" /\ r.stage = "sent")
  PROVE  Kept'
<1>1. Onward /\ requests' \subseteq Requests
  <2>1. Onward
    BY AtGoesOn
  <2>2. requests \subseteq Requests
    BY DEF UploadInv, TypeOK
  <2>3. requests' = (requests \ {r}) \cup {[r EXCEPT !.stage = stage]} /\ [r EXCEPT !.stage = stage] \in Requests
    BY <2>2, AtDoes
  <2> QED BY <2>1, <2>2, <2>3
<1> QED BY <1>1, Idles DEF SamePhone

\* An answer given without touching the spool.
LEMMA AnswerIdles ==
  ASSUME UploadInv, NEW r \in requests, Continues(r), requests' \subseteq Requests, SamePhone,
         UNCHANGED <<spool, used, lock, told>>, UNCHANGED <<held, mac>> \/ held = NoUpload
  PROVE  Kept'
  BY AnswerGoesOn, Idles

\* A refusal given without touching the spool.
LEMMA NoIdles ==
  ASSUME UploadInv, NEW r \in requests, Answers(r, FALSE, 0),
         UNCHANGED <<spool, used, lock, told>>, UNCHANGED <<held, mac>> \/ held = NoUpload
  PROVE  Kept'
  BY AnswersNo, AnswerIdles DEF Calls, SamePhone

\* A caller hangs up without touching the spool.
LEMMA HangUpIdles ==
  ASSUME UploadInv, NEW R, R \subseteq requests, requests' = HangUp(R), SamePhone,
         UNCHANGED <<spool, used, lock, told, held, mac>>
  PROVE  Kept'
<1>1. Onward /\ requests' \subseteq Requests
  BY HangUpGoesOn, HangUpDoes DEF UploadInv, TypeOK
<1> QED BY <1>1, Idles

\* Every step keeps the spool accounted for and the sessions in step with
\* the calls.
LEMMA SessionsStep ==
  ASSUME UploadInv, UploadNext
  PROVE  Kept'
<1>0. Calls'
  BY CallsStep
<1>1. ASSUME NEW r \in requests, BeginBinds(r) PROVE Kept'
  <2>0. /\ Calls' /\ requests' \subseteq Requests /\ Calls /\ PhoneTyped /\ requests \subseteq Requests
    BY <1>0 DEF Calls, UploadInv, TypeOK, PhoneTyped
  <2>1. /\ UNCHANGED <<spool, used, lock, told>> /\ UNCHANGED mac /\ held = NoUpload
        /\ r.op = "begin" /\ r.stage = "sent"
    BY <1>1 DEF BeginBinds, presence
  <2>2. CASE mac = r.gen /\ held' = r.u /\ requests' = At(r, "checked") /\ UNCHANGED phone
    <3> DEFINE q == [r EXCEPT !.stage = "checked"]
    <3>0. r \in Requests /\ requests' = (requests \ {r}) \cup {q}
      BY <2>0, <2>2, AtDoes
    <3>1. /\ requests' = (requests \ {r}) \cup {q}
          /\ q.op = r.op /\ q.u = r.u /\ q.i = r.i /\ q.gen = r.gen /\ q.stage = "checked"
      BY <3>0 DEF Requests
    <3> HIDE DEF q
    <3>2. SpoolTyped' /\ SpoolIsAccounted'
      BY <2>1, SpoolStays
    <3>3. Live' = Live /\ session' = session /\ \A b \in Begins : b.u # NoUpload
      BY <2>0, <2>1 DEF spool, Live, Begins, Requests, UploadIds, NoUpload
    <3>4. Begun'
      BY <2>0, <2>1, <3>1, <3>3 DEF UploadInv, Begun, Begins
    <3>5. Bound'
      BY <2>1, <2>2, <3>1, <3>3 DEF UploadInv, Bound, Begins
    <3>6. Reading'
      BY <2>1, <3>1, <3>3 DEF UploadInv, Reading, Bodies
    <3>7. Counted'
      BY <2>1, <2>2, <3>1, <3>3 DEF UploadInv, Counted
    <3> QED BY <3>2, <3>4, <3>5, <3>6, <3>7 DEF Kept
  <2>3. CASE Answers(r, FALSE, 0) /\ UNCHANGED held
    <3>1. Continues(r) /\ SamePhone
      BY <2>1, <2>3, AnswersNo DEF SamePhone
    <3>2. Onward
      BY <3>1, AnswerGoesOn
    <3> QED BY <2>0, <2>1, <2>3, <3>1, <3>2, Idles
  <2> QED BY <1>1, <2>2, <2>3 DEF BeginBinds
<1>2. ASSUME NEW r \in requests, BeginCreates(r) PROVE Kept'
  <2>0. /\ Calls' /\ requests' \subseteq Requests /\ Calls /\ PhoneTyped /\ requests \subseteq Requests
    BY <1>0 DEF Calls, UploadInv, TypeOK, PhoneTyped
  <2>1. /\ UNCHANGED <<used, lock, mac, told>> /\ LockFree /\ held' = NoUpload /\ r.op = "begin"
        /\ r.stage = "checked" /\ held = r.u
    BY <1>2 DEF BeginCreates, presence
  <2>2. /\ r \in Begins /\ r.u \in UploadIds /\ mac = r.gen /\ r.gen \in Gens /\ r.i \in 1..MaxChunks
        /\ r.u \notin Live /\ r.u <= used /\ (r.u = phone.u => r.i = phone.total)
    <3>1. r \in Begins
      BY <2>1 DEF Begins
    <3>2. r.u \in UploadIds /\ r.gen \in Gens /\ r.i \in 0..MaxChunks
      BY <2>0 DEF Requests
    <3> QED BY <2>0, <2>1, <3>1, <3>2, UploadsAssumption DEF UploadInv, Bound, Begun, Calls, Asked
  <2>3. ASSUME Continues(r) PROVE \A q \in Begins' : q \in Begins /\ q.u # r.u /\ q.stage # "checked"
    <3> SUFFICES ASSUME NEW q \in Begins' PROVE q \in Begins /\ q.u # r.u /\ q.stage # "checked"
      OBVIOUS
    <3>1. q \in requests /\ q # r /\ q \in Begins
      BY <2>1, <2>3 DEF Continues, Begins
    <3>2. q.u # r.u
      BY <2>0, <2>2, <3>1 DEF Calls, Asked
    <3>3. q.stage = "checked" => held = q.u
      BY <3>1 DEF UploadInv, Bound
    <3> QED BY <2>1, <3>1, <3>2, <3>3
  <2>4. PICK expired \in SUBSET Live :
          \/ /\ WithinLimits(r.i, expired)
             /\ session' = [u \in UploadIds |->
                    CASE u = r.u -> [state |-> "uploading", gen |-> r.gen, got |-> 0, total |-> r.i]
                      [] u \in expired -> NoSession
                      [] OTHER -> session[u]]
             /\ slots' = (slots \ expired) \cup {r.u}
             /\ parts' = (parts \ expired) \cup {r.u}
             /\ blobs' = blobs \ expired
             /\ Answers(r, TRUE, 0)
          \/ Remove(expired) /\ Answers(r, FALSE, 0)
    BY <1>2 DEF BeginCreates
  <2>5. CASE Remove(expired) /\ Answers(r, FALSE, 0)
    <3>1. Continues(r) /\ SamePhone
      BY <2>1, <2>5, AnswersNo DEF SamePhone
    <3>2. Onward
      BY <3>1, AnswerGoesOn
    <3>3. TypeOK /\ SpoolIsAccounted
      BY DEF UploadInv
    <3>4. /\ SpoolTyped' /\ SpoolIsAccounted'
          /\ \A u \in UploadIds : session'[u] = session[u] \/ session'[u] = NoSession
      BY <2>5, <3>3, RemoveDoes DEF SpoolTyped
    <3>5. \A q \in Begins' : q.stage # "checked"
      BY <2>3, <3>1
    <3>6. Begun' /\ Bound' /\ Counted'
      BY <2>0, <2>1, <3>1, <3>2, <3>4, <3>5, Keeps DEF SamePhone
    <3>7. Reading'
      BY <2>1, <3>2, KeepsReading
    <3> QED BY <3>4, <3>6, <3>7 DEF Kept
  <2>6. CASE /\ WithinLimits(r.i, expired)
             /\ session' = [u \in UploadIds |->
                    CASE u = r.u -> [state |-> "uploading", gen |-> r.gen, got |-> 0, total |-> r.i]
                      [] u \in expired -> NoSession
                      [] OTHER -> session[u]]
             /\ slots' = (slots \ expired) \cup {r.u}
             /\ parts' = (parts \ expired) \cup {r.u}
             /\ blobs' = blobs \ expired
             /\ Answers(r, TRUE, 0)
    <3> DEFINE new == [state |-> "uploading", gen |-> r.gen, got |-> 0, total |-> r.i]
    <3>1. Continues(r) /\ SamePhone
      <4>1. TRUE \in BOOLEAN /\ 0 \in 0..MaxChunks /\ 0 <= phone.total
        BY <2>0, UploadsAssumption DEF PhoneTyped
      <4> QED BY <2>1, <2>6, <4>1, AnswersDo DEF SamePhone
    <3>2. new \in Sessions /\ new.state = "uploading" /\ new.got = 0 /\ new.total = r.i
      BY <2>2, UploadsAssumption DEF Sessions
    <3> HIDE DEF new
    <3>3. session \in [UploadIds -> Sessions \cup {NoSession}] /\ SpoolIsAccounted
      BY DEF UploadInv, TypeOK
    <3>4. \A u \in UploadIds : session'[u] = IF u = r.u THEN new ELSE IF u \in expired THEN NoSession ELSE session[u]
      <4> SUFFICES ASSUME NEW u \in UploadIds
                   PROVE session'[u] = IF u = r.u THEN new ELSE IF u \in expired THEN NoSession ELSE session[u]
        OBVIOUS
      <4>1. session'[u] = CASE u = r.u -> new [] u \in expired -> NoSession [] OTHER -> session[u]
        BY <2>6 DEF new
      <4>2. r.u \notin expired
        BY <2>2
      <4>3. CASE u = r.u
        BY <4>1, <4>2, <4>3
      <4>4. CASE u # r.u /\ u \in expired
        BY <4>1, <4>4
      <4>5. CASE u # r.u /\ u \notin expired
        BY <4>1, <4>5
      <4> QED BY <4>3, <4>4, <4>5
    <3>5. new # NoSession /\ new.state # "none"
      BY <3>2 DEF NoSession
    <3>6. Live' = (Live \ expired) \cup {r.u}
      BY <2>2, <3>4, <3>5 DEF Live, NoSession
    <3>7. \A u \in Live' : u # r.u => u \in Live /\ session'[u] = session[u]
      BY <3>4, <3>6 DEF Live
    <3>8. SpoolTyped'
      <4>1. session' \in [UploadIds -> Sessions \cup {NoSession}]
        <5>1. session' = [u \in UploadIds |-> session'[u]]
          BY <2>6
        <5>2. \A u \in UploadIds : session'[u] \in Sessions \cup {NoSession}
          BY <3>2, <3>3, <3>4
        <5> QED BY <5>1, <5>2
      <4> QED BY <2>2, <2>6, <4>1 DEF SpoolTyped, UploadInv, TypeOK
    <3>9. Cardinality(slots') <= MaxConcurrent
      <4>1. IsFiniteSet(UploadIds)
        BY UploadsAssumption, FS_Interval DEF UploadIds
      <4>2. IsFiniteSet(slots \ expired)
        BY <4>1, FS_Subset DEF UploadInv, TypeOK
      <4>3. Cardinality(slots') = Cardinality(slots \ expired) + 1
        <5>1. r.u \notin slots
          BY <2>2, <3>3 DEF SpoolIsAccounted
        <5> QED BY <2>6, <4>2, <5>1, FS_AddElement
      <4>4. Cardinality(slots \ expired) \in Nat /\ Cardinality(slots \ expired) < MaxConcurrent
        BY <2>6, <4>2, FS_CardinalityType DEF WithinLimits
      <4> QED BY <4>3, <4>4, UploadsAssumption
    <3>10. SpoolIsAccounted'
      <4>1. session'[r.u] = new
        BY <2>2, <3>4
      <4>2. parts' = {u \in Live' : session'[u].state = "uploading"}
        BY <2>2, <2>6, <3>2, <3>3, <3>6, <3>7, <4>1 DEF SpoolIsAccounted
      <4>3. blobs' = {u \in Live' : session'[u].state = "ready"}
        BY <2>2, <2>6, <3>2, <3>3, <3>6, <3>7, <4>1 DEF SpoolIsAccounted
      <4>4. slots' = Live'
        BY <2>6, <3>3, <3>6 DEF SpoolIsAccounted
      <4> QED BY <3>9, <4>2, <4>3, <4>4 DEF SpoolIsAccounted
    <3>11. Begun'
      <4>1. \A u \in UploadIds : u > used => u \notin Live'
        <5> SUFFICES ASSUME NEW u \in UploadIds, u > used PROVE u \notin Live'
          OBVIOUS
        <5>1. u \notin Live
          BY DEF UploadInv, Begun
        <5>2. u # r.u
          BY <2>2 DEF UploadInv, TypeOK, UploadIds
        <5> QED BY <3>6, <5>1, <5>2
      <4>2. \A b \in Begins' : b.u \notin Live' /\ told[b.u] = <<>>
        BY <2>3, <3>1, <3>6 DEF UploadInv, Begun
      <4>3. \A u \in UploadIds : u > used => told[u] = <<>>
        BY DEF UploadInv, Begun
      <4> QED BY <2>1, <4>1, <4>2, <4>3 DEF Begun
    <3>12. Bound'
      BY <2>3, <3>1 DEF Bound
    <3>13. Reading'
      <4>1. Onward
        BY <3>1, AnswerGoesOn
      <4> QED BY <2>1, <4>1, KeepsReading
    <3>14. Counted'
      <4>1. session'[r.u] = new /\ r.i \in Nat
        BY <2>2, <3>4
      <4>2. \A u \in Live' : session'[u].got <= session'[u].total
        BY <3>2, <3>7, <4>1 DEF UploadInv, Counted
      <4>3. phone'.u \in Live' => session'[phone'.u].total = phone'.total
        BY <2>2, <3>1, <3>2, <3>7, <4>1 DEF UploadInv, Counted, SamePhone, Live, UploadIds, NoUpload
      <4>4. ASSUME NEW q \in requests', q.op = "chunk", q.u \in Live'
            PROVE  /\ q.i <= session'[q.u].total
                   /\ q.stage \in {"sent", "checked", "body"} => q.i < session'[q.u].total
        <5>1. CASE q \in requests
          <6>1. q.u # r.u
            BY <2>0, <2>2, <4>4, <5>1 DEF Calls, Asked
          <6>2. q.u \in Live /\ session'[q.u] = session[q.u]
            BY <3>7, <4>4, <6>1
          <6> QED BY <4>4, <5>1, <6>2 DEF UploadInv, Counted
        <5>2. CASE q \notin requests
          <6>1. q.u = r.u /\ q.u = phone.u /\ q.i < phone.total
            BY <2>1, <3>1, <4>4, <5>2 DEF Continues
          <6>2. q.i \in Nat /\ phone.total \in Nat
            BY <2>0 DEF Requests, PhoneTyped
          <6> QED BY <2>2, <3>2, <4>1, <6>1, <6>2
        <5> QED BY <5>1, <5>2
      <4> QED BY <4>2, <4>3, <4>4 DEF Counted
    <3> QED BY <3>8, <3>10, <3>11, <3>12, <3>13, <3>14 DEF Kept
  <2> QED BY <2>4, <2>5, <2>6
<1>3. ASSUME NEW r \in requests, BindingChecked(r) PROVE Kept'
  BY <1>3, AtIdles, NoIdles DEF BindingChecked, presence
<1>4. ASSUME NEW r \in requests, ChunkAccepted(r) PROVE Kept'
  <2>0. /\ Calls' /\ requests' \subseteq Requests /\ Calls /\ PhoneTyped /\ requests \subseteq Requests
    BY <1>0 DEF Calls, UploadInv, TypeOK, PhoneTyped
  <2>1. /\ UNCHANGED <<spool, used, told>> /\ UNCHANGED <<held, mac>> /\ LockFree /\ r.op = "chunk"
    BY <1>4 DEF ChunkAccepted, presence
  <2>2. CASE /\ session[r.u].state = "uploading" /\ r.i <= session[r.u].got /\ lock' = r.u
             /\ requests' = At(r, "body") /\ UNCHANGED phone
    <3> DEFINE q == [r EXCEPT !.stage = "body"]
    <3>0. r \in Requests /\ requests' = (requests \ {r}) \cup {q}
      BY <2>0, <2>2, AtDoes
    <3>1. /\ requests' = (requests \ {r}) \cup {q}
          /\ q.op = r.op /\ q.u = r.u /\ q.i = r.i /\ q.gen = r.gen /\ q.stage = "body"
      BY <3>0 DEF Requests
    <3> HIDE DEF q
    <3>2. SpoolTyped' /\ SpoolIsAccounted'
      BY <2>1, SpoolStays
    <3>3. Live' = Live /\ session' = session /\ Bodies = {} /\ Begins' = Begins
      BY <2>1, <3>1, NoBody DEF spool, Live, Begins
    <3>4. Begun'
      BY <2>1, <3>3 DEF UploadInv, Begun
    <3>5. Bound'
      BY <2>1, <3>3 DEF UploadInv, Bound
    <3>6. Reading'
      BY <2>1, <2>2, <3>1, <3>3 DEF Reading, Bodies
    <3>7. r.u \in Live => r.i < session[r.u].total
      <4>1. ASSUME r.u \in Live PROVE session[r.u].got <= session[r.u].total
        BY <4>1 DEF UploadInv, Counted, Live
      <4>2. r.stage = "checked"
        BY <1>4 DEF ChunkAccepted
      <4> QED BY <2>1, <4>2 DEF UploadInv, Counted
    <3>8. Counted'
      BY <2>1, <2>2, <3>1, <3>3, <3>7 DEF UploadInv, Counted
    <3> QED BY <3>2, <3>4, <3>5, <3>6, <3>8 DEF Kept
  <2>3. CASE Answers(r, FALSE, 0) /\ UNCHANGED lock
    <3>1. Continues(r) /\ SamePhone
      BY <2>1, <2>3, AnswersNo DEF SamePhone
    <3>2. Onward
      BY <3>1, AnswerGoesOn
    <3> QED BY <2>0, <2>1, <2>3, <3>1, <3>2, Idles
  <2> QED BY <1>4, <2>2, <2>3 DEF ChunkAccepted
<1>5. ASSUME NEW r \in requests, ChunkEnds(r) PROVE Kept'
  <2>0. /\ Calls' /\ requests' \subseteq Requests /\ Calls /\ PhoneTyped /\ requests \subseteq Requests
    BY <1>0 DEF Calls, UploadInv, TypeOK, PhoneTyped
  <2>1. /\ r.op = "chunk" /\ r.stage = "body" /\ lock' = NoUpload /\ r \in Bodies
        /\ UNCHANGED <<used, held, mac, told, tombs>>
    BY <1>5 DEF ChunkEnds, presence, Bodies
  <2>2. \A q \in Bodies : q = r
    BY <2>0, <2>1 DEF Calls, Asked
  <2>3. CASE Remove({r.u}) /\ Answers(r, FALSE, 0)
    <3>1. Continues(r) /\ SamePhone
      BY <2>1, <2>3, AnswersNo DEF SamePhone
    <3>2. Onward
      BY <3>1, AnswerGoesOn
    <3>3. TypeOK /\ SpoolIsAccounted
      BY DEF UploadInv
    <3>4. /\ SpoolTyped' /\ SpoolIsAccounted'
          /\ \A u \in UploadIds : session'[u] = session[u] \/ session'[u] = NoSession
      BY <2>3, <3>3, RemoveDoes DEF SpoolTyped
    <3>5. Begun' /\ Bound' /\ Counted'
      BY <2>0, <2>1, <3>1, <3>2, <3>4, Keeps DEF SamePhone
    <3>6. Bodies' = {}
      BY <2>2, <3>1 DEF Continues, Bodies
    <3> QED BY <3>4, <3>5, <3>6 DEF Kept, Reading
  <2>4. CASE /\ session' = [session EXCEPT ![r.u].got = Recorded(session[r.u], r.i)]
             /\ requests' = (requests \ {r}) \cup {[r EXCEPT !.stage = "stored", !.i = session'[r.u].got]}
             /\ UNCHANGED <<slots, parts, blobs, phone>>
    <3> DEFINE got == Recorded(session[r.u], r.i)
               q == [r EXCEPT !.stage = "stored", !.i = session'[r.u].got]
    <3>1. session \in [UploadIds -> Sessions \cup {NoSession}] /\ SpoolIsAccounted
      BY DEF UploadInv, TypeOK
    <3>2. /\ session[r.u] \in Sessions /\ r.u \in UploadIds /\ got \in 0..session[r.u].total
          /\ got \in 0..MaxChunks
      BY <2>1, ChunkRecorded
    <3>3. session' = [session EXCEPT ![r.u].got = got] /\ requests' = (requests \ {r}) \cup {q}
      BY <2>4
    <3> HIDE DEF got
    <3>4. session'[r.u] = [session[r.u] EXCEPT !.got = got] /\ \A u \in UploadIds : u # r.u => session'[u] = session[u]
      BY <3>1, <3>2, <3>3
    <3>5. /\ session'[r.u].got = got /\ session'[r.u].total = session[r.u].total
          /\ session'[r.u].state = session[r.u].state /\ session'[r.u] \in Sessions
          /\ session[r.u].total \in Nat
      BY <3>2, <3>4 DEF Sessions
    <3>6. q.op = "chunk" /\ q.u = r.u /\ q.i = got /\ q.stage = "stored"
      BY <2>0, <2>1, <3>5 DEF Requests
    <3> HIDE DEF q
    <3>7. /\ \A u \in UploadIds :
               session'[u].state = session[u].state /\ session'[u].total = session[u].total
          /\ Live' = Live
      BY <3>4, <3>5 DEF Live
    <3>8. SpoolTyped'
      BY <2>4, <3>1, <3>2, <3>3, <3>4, <3>5 DEF SpoolTyped, UploadInv, TypeOK
    <3>9. SpoolIsAccounted'
      BY <2>4, <3>1, <3>7 DEF SpoolIsAccounted, Live
    <3>10. Begins' = Begins /\ Bodies' = {}
      BY <2>1, <2>2, <3>3, <3>6 DEF Begins, Bodies
    <3>11. Begun' /\ Bound'
      BY <2>1, <3>7, <3>10 DEF UploadInv, Begun, Bound
    <3>12. Counted'
      <4>1. \A u \in Live' : session'[u].got <= session'[u].total
        <5> SUFFICES ASSUME NEW u \in Live PROVE session'[u].got <= session'[u].total
          BY <3>7
        <5>1. CASE u = r.u
          BY <3>2, <3>5, <5>1
        <5>2. CASE u # r.u
          BY <3>4, <5>2 DEF UploadInv, Counted, Live
        <5> QED BY <5>1, <5>2
      <4>2. phone'.u \in Live' => session'[phone'.u].total = phone'.total
        BY <2>4, <3>7 DEF UploadInv, Counted, Live
      <4>3. ASSUME NEW p \in requests', p.op = "chunk", p.u \in Live'
            PROVE  /\ p.i <= session'[p.u].total
                   /\ p.stage \in {"sent", "checked", "body"} => p.i < session'[p.u].total
        <5>1. CASE p \in requests
          BY <3>7, <4>3, <5>1 DEF UploadInv, Counted, Live
        <5>2. CASE p \notin requests
          BY <3>2, <3>3, <3>5, <3>6, <4>3, <5>2
        <5> QED BY <5>1, <5>2
      <4> QED BY <4>1, <4>2, <4>3 DEF Counted
    <3> QED BY <3>8, <3>9, <3>10, <3>11, <3>12 DEF Kept, Reading
  <2> QED BY <1>5, <2>3, <2>4 DEF ChunkEnds
<1>6. ASSUME NEW r \in requests, Finalizes(r) PROVE Kept'
  <2>0. /\ Calls' /\ requests' \subseteq Requests /\ Calls /\ PhoneTyped /\ requests \subseteq Requests
    BY <1>0 DEF Calls, UploadInv, TypeOK, PhoneTyped
  <2>1. /\ r.op = "finalize" /\ LockFree /\ UNCHANGED <<used, lock, held, mac, told>>
    BY <1>6 DEF Finalizes, presence
  <2>2. CASE requests' = At(r, "stored") /\ UNCHANGED <<spool, phone>>
    <3>1. Onward
      BY <2>1, <2>2, AtGoesOn
    <3> QED BY <2>0, <2>1, <2>2, <3>1, Idles DEF SamePhone
  <2>3. CASE Answers(r, FALSE, 0) /\ (Remove({r.u}) \/ UNCHANGED spool)
    <3>1. Continues(r) /\ SamePhone
      BY <2>1, <2>3, AnswersNo DEF SamePhone
    <3>2. Onward
      BY <3>1, AnswerGoesOn
    <3>3. CASE UNCHANGED spool
      BY <2>0, <2>1, <3>1, <3>2, <3>3, Idles
    <3>4. CASE Remove({r.u})
      BY <2>0, <2>1, <3>1, <3>2, <3>4, Removes
    <3> QED BY <2>3, <3>3, <3>4
  <2>4. CASE /\ session[r.u].state = "uploading" /\ session' = [session EXCEPT ![r.u].state = "ready"]
             /\ parts' = parts \ {r.u} /\ blobs' = blobs \cup {r.u}
             /\ requests' = At(r, "stored") /\ UNCHANGED <<slots, phone>>
    <3> DEFINE q == [r EXCEPT !.stage = "stored"]
    <3>1. session \in [UploadIds -> Sessions \cup {NoSession}] /\ SpoolIsAccounted
      BY DEF UploadInv, TypeOK
    <3>2. r.u \in UploadIds /\ session[r.u] \in Sessions
      BY <2>0, <2>4, <3>1 DEF Requests, NoSession
    <3>3. session'[r.u] = [session[r.u] EXCEPT !.state = "ready"] /\ \A u \in UploadIds : u # r.u => session'[u] = session[u]
      BY <2>4, <3>1, <3>2
    <3>4. /\ session'[r.u].got = session[r.u].got /\ session'[r.u].total = session[r.u].total
          /\ session'[r.u].state = "ready" /\ session'[r.u] \in Sessions
      BY <3>2, <3>3 DEF Sessions
    <3>5. requests' = (requests \ {r}) \cup {q} /\ q.op = "finalize"
      <4>1. requests' = (requests \ {r}) \cup {q}
        BY <2>0, <2>4, AtDoes
      <4>2. q.op = "finalize"
        BY <2>0, <2>1 DEF Requests
      <4> QED BY <4>1, <4>2
    <3> HIDE DEF q
    <3>6. Begins' = Begins /\ Bodies' = {} /\ \A p \in requests' : p.op = "chunk" => p \in requests
      BY <2>1, <3>5, NoBody DEF Begins, Bodies
    <3>7. Live' = Live /\ r.u \in Live
      BY <2>4, <3>2, <3>3, <3>4 DEF Live
    <3>8. SpoolTyped'
      BY <2>4, <3>1, <3>2, <3>3, <3>4 DEF SpoolTyped, UploadInv, TypeOK
    <3>9. SpoolIsAccounted'
      <4>1. parts' = {u \in Live' : session'[u].state = "uploading"}
        BY <2>4, <3>1, <3>3, <3>4, <3>7 DEF SpoolIsAccounted, Live
      <4>2. blobs' = {u \in Live' : session'[u].state = "ready"}
        BY <2>4, <3>1, <3>3, <3>4, <3>7 DEF SpoolIsAccounted, Live
      <4> QED BY <2>4, <3>1, <3>7, <4>1, <4>2 DEF SpoolIsAccounted
    <3>10. Begun' /\ Bound'
      BY <2>1, <3>6, <3>7 DEF UploadInv, Begun, Bound
    <3>11. Counted'
      <4>1. \A u \in UploadIds : session'[u].got = session[u].got /\ session'[u].total = session[u].total
        BY <3>3, <3>4
      <4> QED BY <2>4, <3>6, <3>7, <4>1 DEF UploadInv, Counted, Live
    <3> QED BY <3>6, <3>8, <3>9, <3>10, <3>11 DEF Kept, Reading
  <2> QED BY <1>6, <2>2, <2>3, <2>4 DEF Finalizes
<1>7. ASSUME NEW r \in requests, Rechecked(r) PROVE Kept'
  <2>1. CASE requests' = At(r, "aborting") /\ UNCHANGED phone
    BY <1>7, <2>1, AtIdles DEF Rechecked, presence
  <2>2. CASE Answers(r, TRUE, r.i)
    <3>1. /\ TRUE \in BOOLEAN /\ r.i \in 0..MaxChunks /\ r.op \in {"chunk", "finalize", "stream"}
          /\ (r.heard /\ r.op = "chunk" => r.i <= phone.total) /\ UNCHANGED used
      BY <1>7, <1>0, UploadsAssumption DEF Rechecked, Requests, PhoneTyped, Calls, Asked,
          PhoneCalls, UploadInv, TypeOK
    <3>2. Continues(r) /\ SamePhone
      BY <2>2, <3>1, AnswersDo DEF SamePhone
    <3> QED BY <1>7, <1>0, <2>2, <3>2, AnswerIdles DEF Rechecked, Calls, presence
  <2> QED BY <1>7, <2>1, <2>2 DEF Rechecked
<1>8. ASSUME NEW r \in requests, Aborts(r) PROVE Kept'
  <2>0. /\ Calls' /\ requests' \subseteq Requests /\ Calls /\ PhoneTyped /\ requests \subseteq Requests
    BY <1>0 DEF Calls, UploadInv, TypeOK, PhoneTyped
  <2>1. /\ UNCHANGED <<used, lock, held, mac, told>> /\ Answers(r, FALSE, 0)
        /\ Remove({r.u}) /\ LockFree
    BY <1>8 DEF Aborts, presence
  <2>2. Continues(r) /\ SamePhone
    BY <2>1, AnswersNo DEF SamePhone
  <2>3. Onward
    BY <2>2, AnswerGoesOn
  <2> QED BY <2>0, <2>1, <2>2, <2>3, Removes
<1>9. ASSUME NEW r \in requests, StreamOpens(r) PROVE Kept'
  BY <1>9, AtIdles, NoIdles DEF StreamOpens, presence
<1>10. ASSUME NEW r \in requests, StreamEnds(r) PROVE Kept'
  <2>1. CASE requests' = At(r, "aborting") /\ UNCHANGED phone
    BY <1>10, <2>1, AtIdles DEF StreamEnds, presence
  <2>2. CASE Answers(r, TRUE, 0)
    <3>1. /\ TRUE \in BOOLEAN /\ 0 \in 0..MaxChunks /\ r.op \in {"chunk", "finalize", "stream"}
          /\ (r.heard /\ r.op = "chunk" => 0 <= phone.total) /\ UNCHANGED used
      BY <1>10, <1>0, UploadsAssumption DEF StreamEnds, Requests, PhoneTyped, Calls, Asked,
          PhoneCalls, UploadInv, TypeOK
    <3>2. Continues(r) /\ SamePhone
      BY <2>2, <3>1, AnswersDo DEF SamePhone
    <3> QED BY <1>10, <1>0, <2>2, <3>2, AnswerIdles DEF StreamEnds, Calls, presence
  <2> QED BY <1>10, <2>1, <2>2 DEF StreamEnds
<1>11. ASSUME NEW u \in UploadIds, Cleanup(u) PROVE Kept'
  BY <1>11, <1>0, SameGoesOn, Removes DEF Calls, Cleanup, phoneSide, presence, SamePhone
<1>12. CASE AckHandled
  <2>0. /\ Calls' /\ requests' \subseteq Requests /\ Calls /\ PhoneTyped /\ requests \subseteq Requests
    BY <1>0 DEF Calls, UploadInv, TypeOK, PhoneTyped
  <2> DEFINE a == Head(acks)
  <2>1. /\ UNCHANGED <<used, lock, held, mac, requests, phone>> /\ LockFree /\ SamePhone
        /\ requests' \subseteq requests /\ acks # <<>>
    BY <1>12 DEF AckHandled, phoneSide, SamePhone
  <2>2. Onward
    BY <2>1, SameGoesOn
  <2>3. a \in Acks /\ a.u \in UploadIds /\ a.gen # 0
    <3>1. a \in Acks
      BY <2>1 DEF UploadInv, TypeOK
    <3> HIDE DEF a
    <3> QED BY <3>1, UploadsAssumption DEF Acks, Gens
  <2> HIDE DEF a
  <2>4. CASE UNCHANGED <<spool, told>>
    BY <2>0, <2>1, <2>2, <2>4, Idles
  <2>5. CASE /\ session[a.u].gen = a.gen /\ Acknowledged(a.u, a.gen)
             /\ told' = [told EXCEPT ![a.u] = Append(@, a.status)]
    <3>1. a.u \in Live
      <4>1. session[a.u] # NoSession
        BY <2>3, <2>5 DEF NoSession
      <4>2. session[a.u] \in Sessions
        BY <2>3, <4>1 DEF UploadInv, TypeOK
      <4> QED BY <2>3, <4>2 DEF Live, Sessions
    <3>2. \A u \in UploadIds : told'[u] = told[u] \/ u \in Live
      BY <2>3, <2>5, <3>1 DEF UploadInv, TypeOK
    <3>3. Remove({a.u})
      BY <2>5 DEF Acknowledged
    <3> QED BY <2>0, <2>1, <2>2, <3>2, <3>3, Removes
  <2> QED BY <1>12, <2>4, <2>5 DEF AckHandled, a
<1>13. CASE Restart
  <2>0. /\ Calls' /\ requests' \subseteq Requests /\ Calls /\ PhoneTyped /\ requests \subseteq Requests
    BY <1>0 DEF Calls, UploadInv, TypeOK, PhoneTyped
  <2>1. \A q \in requests' : q.op = "stream"
    <3> SUFFICES ASSUME NEW q \in requests' PROVE q.op = "stream"
      OBVIOUS
    <3>1. PICK r \in Downloads : q = [r EXCEPT !.stage = "done", !.ok = FALSE]
      BY <1>13 DEF Restart
    <3> QED BY <2>0, <3>1 DEF Downloads, Requests
  <2>2. /\ session' = [u \in UploadIds |-> NoSession] /\ slots' = {} /\ parts' = {} /\ blobs' = {}
        /\ UNCHANGED <<used, told>>
    BY <1>13 DEF Restart
  <2>3. Live' = {}
    BY <2>2 DEF Live, NoSession
  <2>4. SpoolTyped' /\ SpoolIsAccounted'
    BY <2>2, <2>3, FS_EmptySet, UploadsAssumption DEF SpoolTyped, SpoolIsAccounted
  <2>5. Begins' = {} /\ Bodies' = {}
    BY <2>1 DEF Begins, Bodies
  <2>6. Begun' /\ Bound' /\ Reading' /\ Counted'
    BY <2>1, <2>2, <2>3, <2>5 DEF UploadInv, Begun, Bound, Reading, Counted
  <2> QED BY <2>4, <2>6 DEF Kept
<1>14. ASSUME NEW g \in Gens, MacRegisters(g) PROVE Kept'
  BY <1>14, <1>0, SameGoesOn, Idles DEF Calls, MacRegisters, phoneSide, presence, SamePhone
<1>15. ASSUME NEW g \in Gens, OthersAborted(g) PROVE Kept'
  BY <1>15, <1>0, SameGoesOn, Removes DEF Calls, OthersAborted, phoneSide, presence, SamePhone
<1>16. ASSUME NEW g \in Gens, SocketEnds(g) PROVE Kept'
  BY <1>16, <1>0, SameGoesOn, Idles DEF Calls, SocketEnds, phoneSide, presence, SamePhone
<1>17. ASSUME NEW g \in Gens, BindingAborted(g) PROVE Kept'
  BY <1>17, <1>0, SameGoesOn, Removes DEF Calls, BindingAborted, phoneSide, presence, SamePhone
<1>18. CASE Connects
  BY <1>18, <1>0, SameGoesOn, Idles DEF Calls, Connects, phoneSide, presence, SamePhone
<1>19. CASE Disconnects
  <2>1. Downloads \subseteq requests /\ SamePhone
    BY <1>19 DEF Disconnects, phoneSide, SamePhone, Downloads
  <2> QED BY <1>19, <2>1, HangUpIdles DEF Disconnects, presence, phoneSide
<1>20. CASE DownloadStarts
  <2>0. /\ Calls' /\ requests' \subseteq Requests /\ Calls /\ PhoneTyped /\ requests \subseteq Requests
    BY <1>0 DEF Calls, UploadInv, TypeOK, PhoneTyped
  <2> DEFINE f == Request("stream", Head(companion.queue), 0, companion.gen)
  <2>1. /\ UNCHANGED <<spool, used, lock, told, held, mac>> /\ requests' = requests \cup {f} /\ SamePhone
    BY <1>20 DEF DownloadStarts, phoneSide, presence, SamePhone
  <2>2. f.op = "stream"
    BY DEF Request
  <2> HIDE DEF f
  <2>3. Onward
    BY <2>1, <2>2 DEF Onward, Follows
  <2> QED BY <2>0, <2>1, <2>3, Idles
<1>21. ASSUME NEW r \in requests, DownloadEnds(r) PROVE Kept'
  <2>1. {r} \subseteq requests /\ SamePhone
    BY <1>21 DEF DownloadEnds, phoneSide, SamePhone, Downloads
  <2> QED BY <1>21, <2>1, HangUpIdles DEF DownloadEnds, presence, phoneSide
<1>22. ASSUME NEW status \in {"imported", "failed"}, Imports(status) PROVE Kept'
  BY <1>22, <1>0, SameGoesOn, Idles DEF Calls, Imports, phoneSide, presence, SamePhone
<1>23. ASSUME NEW u \in UploadIds, NEW total \in 1..MaxChunks, NEW g \in Gens, Starts(u, total, g) PROVE Kept'
  <2>0. /\ Calls' /\ requests' \subseteq Requests /\ Calls /\ PhoneTyped /\ requests \subseteq Requests
    BY <1>0 DEF Calls, UploadInv, TypeOK, PhoneTyped
  <2> DEFINE f == Request("begin", u, total, g)
  <2>1. /\ u = used + 1 /\ used' = u /\ requests' = requests \cup {f} /\ UNCHANGED <<spool, lock, told, held, mac>>
        /\ phone' = [st |-> "starting", u |-> u, i |-> 0, total |-> total, gen |-> g, resumed |-> FALSE]
    BY <1>23 DEF Starts, presence
  <2>2. f.op = "begin" /\ f.stage = "sent" /\ f.u = u /\ f.i = total /\ f.gen = g /\ used \in Nat
    BY DEF Request, UploadInv, TypeOK
  <2> HIDE DEF f
  <2>3. Live' = Live /\ session' = session /\ Bodies' = Bodies
    BY <2>1, <2>2 DEF spool, Live, Bodies
  <2>4. u \notin Live /\ told[u] = <<>>
    BY <2>1, <2>2 DEF UploadInv, Begun
  <2>5. \A v \in UploadIds : v > used' => v > used
    BY <2>1, <2>2 DEF UploadIds
  <2>6. SpoolTyped' /\ SpoolIsAccounted'
    BY <2>1, SpoolStays
  <2>7. \A b \in Begins' : b = f \/ b \in Begins
    BY <2>1 DEF Begins
  <2>8. Begun'
    BY <2>1, <2>2, <2>3, <2>4, <2>5, <2>7 DEF UploadInv, Begun
  <2>9. Bound'
    BY <2>1, <2>2, <2>7 DEF UploadInv, Bound
  <2>10. Reading'
    BY <2>1, <2>3 DEF UploadInv, Reading
  <2>11. Counted'
    BY <2>1, <2>2, <2>3, <2>4 DEF UploadInv, Counted
  <2> QED BY <2>6, <2>8, <2>9, <2>10, <2>11 DEF Kept
<1>24. ASSUME NEW r \in requests, CallFails(r) PROVE Kept'
  <2>1. {r} \subseteq requests /\ SamePhone
    BY <1>24, FailingDoes DEF CallFails, Failed, SamePhone, SameItem
  <2> QED BY <1>24, <2>1, HangUpIdles DEF CallFails, presence, phoneSide
<1>25. CASE Resumes
  <2>0. /\ Calls' /\ requests' \subseteq Requests /\ Calls /\ PhoneTyped /\ requests \subseteq Requests
    BY <1>0 DEF Calls, UploadInv, TypeOK, PhoneTyped
  <2>1. /\ phone.st = "paused" /\ phone' = [Sending(phone) EXCEPT !.resumed = TRUE]
        /\ requests' = requests \cup {FollowUp(phone)}
        /\ UNCHANGED <<spool, used, lock, told, held, mac>>
    BY <1>25 DEF Resumes, presence
  <2>2. phone.u # NoUpload /\ phone.gen # 0
    BY <2>0, <2>1 DEF Calls, Asked
  <2>3. phone = [phone EXCEPT !.i = phone.i] /\ phone.i \in 0..MaxChunks
    BY <2>0 DEF PhoneTyped
  <2>4. LET f == FollowUp(phone) IN
        /\ f \in Requests /\ f.op \in {"chunk", "finalize"} /\ f.stage = "sent"
        /\ f.u = phone.u /\ f.gen = phone.gen /\ (f.op = "chunk" => f.i = phone.i /\ phone.i < phone.total)
        /\ Sending(phone) = [phone EXCEPT !.i = phone.i, !.st = Sending(phone).st]
        /\ Sending(phone).st \in {"uploading", "finalizing"}
    BY <2>0, <2>2, <2>3, FollowUpIs
  <2>5. SamePhone
    BY <2>0, <2>1, <2>4 DEF SamePhone, PhoneTyped
  <2>6. Onward
    BY <2>1, <2>4 DEF Onward, Follows
  <2> QED BY <2>0, <2>1, <2>5, <2>6, Idles
<1>26. CASE Cancels
  <2>0. /\ Calls' /\ requests' \subseteq Requests /\ Calls /\ PhoneTyped /\ requests \subseteq Requests
    BY <1>0 DEF Calls, UploadInv, TypeOK, PhoneTyped
  <2> DEFINE d == [Request("delete", phone.u, 0, phone.gen) EXCEPT !.heard = FALSE]
  <2>1. /\ UNCHANGED <<spool, used, lock, told, held, mac>> /\ (\A q \in requests' : q \in HangUp(PhoneCalls) \/ q = d)
        /\ phone' = NoItem /\ PhoneCalls \subseteq requests
    BY <1>26 DEF Cancels, presence, PhoneCalls
  <2>2. d.op = "delete"
    BY DEF Request
  <2> HIDE DEF d
  <2>3. Onward
    BY <2>1, <2>2, HangUpGoesOn
  <2>4. SamePhone
    BY <2>1 DEF SamePhone, NoItem
  <2> QED BY <2>0, <2>1, <2>3, <2>4, Idles
<1>27. CASE Artifact
  BY <1>27, <1>0, SameGoesOn, Idles DEF Calls, Artifact, phoneSide, presence, SamePhone
<1>28. CASE Consumes
  <2>1. PhoneCalls \subseteq requests /\ SamePhone
    BY <1>28 DEF Consumes, NoItem, SamePhone, PhoneCalls
  <2> QED BY <1>28, <2>1, HangUpIdles DEF Consumes, presence, phoneSide
<1>29. CASE Invalidated
  <2>1. PhoneCalls \subseteq requests /\ SamePhone
    BY <1>29, PhoneIsTyped DEF Invalidated, SamePhone, PhoneTyped, PhoneCalls
  <2> QED BY <1>29, <2>1, HangUpIdles DEF Invalidated, presence, phoneSide
<1> QED BY <1>1, <1>2, <1>3, <1>4, <1>5, <1>6, <1>7, <1>8, <1>9, <1>10, <1>11, <1>12, <1>13, <1>14,
    <1>15, <1>16, <1>17, <1>18, <1>19, <1>20, <1>21, <1>22, <1>23, <1>24, <1>25, <1>26, <1>27,
    <1>28, <1>29 DEF UploadNext, NextHandler, NextSocket, NextCompanion, NextPhone

-----------------------------------------------------------------------------
(* The Mac an upload belongs to.                                           *)

GensStay == \A u \in Live' : u \in Live /\ session'[u].gen = session[u].gen

\* What a removal leaves belongs to the Mac it belonged to.
LEMMA RemoveGens ==
  ASSUME UploadInv, NEW U, Remove(U)
  PROVE  GensStay /\ Live' = Live \ U
  BY RemoveDoes DEF UploadInv, GensStay

\* So does everything when the spool is left alone.
LEMMA SpoolGens == ASSUME UNCHANGED spool PROVE GensStay
  BY DEF spool, GensStay, Live

\* No session changes hands while the Mac stays.
LEMMA MacStays ==
  ASSUME UploadInv, GensStay, UNCHANGED <<mac, socket>>
  PROVE  UploadsFollowTheMac'
  BY DEF UploadInv, UploadsFollowTheMac, GensStay

\* The sessions' Macs, through an answer or a step of the handlers.
LEMMA StateGens ==
  ASSUME UploadInv, NEW u \in UploadIds, u \in Live, NEW s, s.gen = session[u].gen,
         session' = [session EXCEPT ![u] = s], s.state # "none"
  PROVE  GensStay
  BY DEF UploadInv, TypeOK, GensStay, Live

\* Every step leaves each upload with its Mac or with a handler that aborts it.
LEMMA MacStep ==
  ASSUME UploadInv, UploadNext
  PROVE  UploadsFollowTheMac'
<1>1. ASSUME NEW r \in requests, BeginBinds(r) PROVE UploadsFollowTheMac'
  BY <1>1, SpoolGens, MacStays DEF BeginBinds, presence
<1>2. ASSUME NEW r \in requests, BeginCreates(r) PROVE UploadsFollowTheMac'
  <2>1. r \in Begins /\ mac = r.gen /\ r.u \in UploadIds /\ UNCHANGED <<mac, socket>>
    <3>1. r \in Begins
      BY <1>2 DEF BeginCreates, Begins
    <3>2. r.u \in UploadIds
      BY DEF UploadInv, TypeOK, Requests
    <3> QED BY <1>2, <3>1, <3>2 DEF BeginCreates, UploadInv, Bound, presence
  <2>2. PICK expired \in SUBSET Live :
          \/ session' = [u \in UploadIds |->
                    CASE u = r.u -> [state |-> "uploading", gen |-> r.gen, got |-> 0, total |-> r.i]
                      [] u \in expired -> NoSession
                      [] OTHER -> session[u]]
          \/ Remove(expired)
    BY <1>2 DEF BeginCreates
  <2>3. CASE Remove(expired)
    BY <2>1, <2>3, RemoveGens, MacStays
  <2>4. CASE session' = [u \in UploadIds |->
                    CASE u = r.u -> [state |-> "uploading", gen |-> r.gen, got |-> 0, total |-> r.i]
                      [] u \in expired -> NoSession
                      [] OTHER -> session[u]]
    <3> SUFFICES ASSUME NEW u \in Live'
                 PROVE  session'[u].gen = mac \/ (u \in Live /\ session'[u].gen = session[u].gen)
      BY <2>1 DEF UploadInv, UploadsFollowTheMac
    <3>1. u \in UploadIds /\ session'[u].state # "none"
      BY DEF Live
    <3>2. session'[u] = CASE u = r.u -> [state |-> "uploading", gen |-> r.gen, got |-> 0, total |-> r.i]
                          [] u \in expired -> NoSession
                          [] OTHER -> session[u]
      BY <2>4, <3>1
    <3>3. r.u \notin expired
      BY <2>1 DEF UploadInv, Begun
    <3>4. CASE u = r.u
      BY <2>1, <3>2, <3>3, <3>4
    <3>5. CASE u # r.u /\ u \in expired
      BY <3>1, <3>2, <3>5 DEF NoSession
    <3>6. CASE u # r.u /\ u \notin expired
      BY <3>1, <3>2, <3>6 DEF Live
    <3> QED BY <3>4, <3>5, <3>6
  <2> QED BY <2>2, <2>3, <2>4
<1>3. ASSUME NEW r \in requests, BindingChecked(r) PROVE UploadsFollowTheMac'
  BY <1>3, SpoolGens, MacStays DEF BindingChecked, presence
<1>4. ASSUME NEW r \in requests, ChunkAccepted(r) PROVE UploadsFollowTheMac'
  BY <1>4, SpoolGens, MacStays DEF ChunkAccepted, presence
<1>5. ASSUME NEW r \in requests, ChunkEnds(r) PROVE UploadsFollowTheMac'
  <2>1. UNCHANGED <<mac, socket>> /\ r.op = "chunk" /\ r.stage = "body"
    BY <1>5 DEF ChunkEnds, presence
  <2>2. CASE Remove({r.u})
    BY <2>1, <2>2, RemoveGens, MacStays
  <2>3. CASE session' = [session EXCEPT ![r.u].got = Recorded(session[r.u], r.i)]
    <3> DEFINE got == Recorded(session[r.u], r.i)
               s == [session[r.u] EXCEPT !.got = got]
    <3>1. session[r.u] \in Sessions /\ r.u \in UploadIds /\ r.u \in Live
      BY <2>1, ChunkRecorded
    <3>2. session' = [session EXCEPT ![r.u] = s]
      BY <2>3
    <3> HIDE DEF got
    <3>3. s.gen = session[r.u].gen /\ s.state # "none"
      BY <3>1 DEF Sessions
    <3> HIDE DEF s
    <3> QED BY <2>1, <3>1, <3>2, <3>3, StateGens, MacStays
  <2> QED BY <1>5, <2>2, <2>3 DEF ChunkEnds
<1>6. ASSUME NEW r \in requests, Finalizes(r) PROVE UploadsFollowTheMac'
  <2>1. UNCHANGED <<mac, socket>> /\ r.u \in UploadIds
    BY <1>6 DEF Finalizes, presence, UploadInv, TypeOK, Requests
  <2>2. CASE Remove({r.u})
    BY <2>1, <2>2, RemoveGens, MacStays
  <2>3. CASE session[r.u].state = "uploading" /\ session' = [session EXCEPT ![r.u].state = "ready"]
    <3> DEFINE s == [session[r.u] EXCEPT !.state = "ready"]
    <3>1. session[r.u] \in Sessions /\ r.u \in Live
      <4>1. session[r.u] \in Sessions \cup {NoSession}
        BY <2>1 DEF UploadInv, TypeOK
      <4> QED BY <2>1, <2>3, <4>1 DEF NoSession, Live
    <3>2. session' = [session EXCEPT ![r.u] = s]
      BY <2>3
    <3>3. s.gen = session[r.u].gen /\ s.state # "none"
      BY <3>1 DEF Sessions
    <3> HIDE DEF s
    <3> QED BY <2>1, <3>1, <3>2, <3>3, StateGens, MacStays
  <2>4. CASE UNCHANGED spool
    BY <2>1, <2>4, SpoolGens, MacStays
  <2> QED BY <1>6, <2>2, <2>3, <2>4 DEF Finalizes
<1>7. ASSUME NEW r \in requests, Rechecked(r) PROVE UploadsFollowTheMac'
  BY <1>7, SpoolGens, MacStays DEF Rechecked, presence
<1>8. ASSUME NEW r \in requests, Aborts(r) PROVE UploadsFollowTheMac'
  <2>1. Remove({r.u}) /\ UNCHANGED <<mac, socket>>
    BY <1>8 DEF Aborts, presence
  <2> QED BY <2>1, RemoveGens, MacStays
<1>9. ASSUME NEW r \in requests, StreamOpens(r) PROVE UploadsFollowTheMac'
  BY <1>9, SpoolGens, MacStays DEF StreamOpens, presence
<1>10. ASSUME NEW r \in requests, StreamEnds(r) PROVE UploadsFollowTheMac'
  BY <1>10, SpoolGens, MacStays DEF StreamEnds, presence
<1>11. ASSUME NEW u \in UploadIds, Cleanup(u) PROVE UploadsFollowTheMac'
  <2>1. Remove({u}) /\ UNCHANGED <<mac, socket>>
    BY <1>11 DEF Cleanup, presence
  <2> QED BY <2>1, RemoveGens, MacStays
<1>12. CASE AckHandled
  <2> DEFINE a == Head(acks)
  <2>1. mac' = mac /\ socket \in [Gens -> SocketStates] /\ socket[companion.gen] = "open"
    BY <1>12 DEF AckHandled, UploadInv, TypeOK
  <2>2. CASE UNCHANGED <<spool, socket>>
    BY <2>1, <2>2, SpoolGens, MacStays
  <2>3. CASE Acknowledged(a.u, a.gen) /\ UNCHANGED socket
    BY <2>1, <2>3, RemoveGens, MacStays DEF Acknowledged
  <2>4. CASE a.gen = companion.gen /\ socket' = [socket EXCEPT ![a.gen] = "ended"] /\ UNCHANGED spool
    <3>1. GensStay
      BY <2>4, SpoolGens
    <3> QED BY <2>1, <2>4, <3>1 DEF UploadInv, UploadsFollowTheMac, GensStay
  <2> HIDE DEF a
  <2> QED BY <1>12, <2>2, <2>3, <2>4 DEF AckHandled, a
<1>13. CASE Restart
  <2>1. Live' = {}
    BY <1>13 DEF Restart, Live, NoSession
  <2> QED BY <2>1 DEF UploadsFollowTheMac
<1>14. ASSUME NEW g \in Gens, MacRegisters(g) PROVE UploadsFollowTheMac'
  <2>1. UNCHANGED spool /\ socket[g] = "hello" /\ socket \in [Gens -> SocketStates]
    BY <1>14 DEF MacRegisters, spool, UploadInv, TypeOK
  <2>2. GensStay
    BY <2>1, SpoolGens
  <2>3. CASE socket' = [socket EXCEPT ![g] = "closed"] /\ UNCHANGED mac
    BY <2>1, <2>2, <2>3 DEF UploadInv, UploadsFollowTheMac, GensStay
  <2>4. CASE socket' = [socket EXCEPT ![g] = "clearing"] /\ mac' = g
    <3>1. socket'[g] = "clearing" /\ g \in Gens
      BY <2>1, <2>4
    <3> QED BY <2>4, <3>1 DEF UploadsFollowTheMac
  <2> QED BY <1>14, <2>3, <2>4 DEF MacRegisters
<1>15. ASSUME NEW g \in Gens, OthersAborted(g) PROVE UploadsFollowTheMac'
  <2>1. /\ Remove({u \in Live : session[u].gen # g}) /\ mac' = mac /\ socket[g] = "clearing"
        /\ socket' = [socket EXCEPT ![g] = "open"] /\ socket \in [Gens -> SocketStates]
    BY <1>15 DEF OthersAborted, UploadInv, TypeOK
  <2>2. GensStay /\ \A u \in Live' : session[u].gen = g
    BY <2>1, RemoveGens
  <2> QED BY <2>1, <2>2 DEF UploadInv, UploadsFollowTheMac, GensStay
<1>16. ASSUME NEW g \in Gens, SocketEnds(g) PROVE UploadsFollowTheMac'
  <2>1. UNCHANGED spool /\ socket[g] \in {"open", "ended"} /\ socket \in [Gens -> SocketStates]
    BY <1>16 DEF SocketEnds, spool, UploadInv, TypeOK
  <2>2. GensStay
    BY <2>1, SpoolGens
  <2>3. CASE mac = g /\ mac' = 0 /\ socket' = [socket EXCEPT ![g] = "draining"]
    BY <2>1, <2>2, <2>3 DEF UploadInv, UploadsFollowTheMac, GensStay
  <2>4. CASE mac # g /\ socket' = [socket EXCEPT ![g] = "closed"] /\ UNCHANGED mac
    BY <2>1, <2>2, <2>4 DEF UploadInv, UploadsFollowTheMac, GensStay
  <2> QED BY <1>16, <2>3, <2>4 DEF SocketEnds
<1>17. ASSUME NEW g \in Gens, BindingAborted(g) PROVE UploadsFollowTheMac'
  <2>1. /\ Remove({u \in Live : session[u].gen = g}) /\ mac' = mac /\ socket[g] = "draining"
        /\ socket' = [socket EXCEPT ![g] = "closed"] /\ socket \in [Gens -> SocketStates]
    BY <1>17 DEF BindingAborted, UploadInv, TypeOK
  <2>2. GensStay /\ \A u \in Live' : session[u].gen # g
    BY <2>1, RemoveGens
  <2> QED BY <2>1, <2>2 DEF UploadInv, UploadsFollowTheMac, GensStay
<1>18. CASE Connects
  <2> DEFINE g == companion.gen + 1
  <2>1. /\ UNCHANGED spool /\ socket' = [socket EXCEPT ![g] = "hello"] /\ mac' = mac
        /\ socket \in [Gens -> SocketStates] /\ companion.gen \in 0..MaxGen /\ companion.gen < MaxGen
    BY <1>18 DEF Connects, spool, UploadInv, TypeOK
  <2>2. GensStay
    BY <2>1, SpoolGens
  <2>3. g \in Gens /\ g > companion.gen
    BY <2>1, UploadsAssumption DEF Gens
  <2>4. socket[g] = "none"
    BY <2>3 DEF UploadInv, Downloading
  <2> HIDE DEF g
  <2> QED BY <2>1, <2>2, <2>4 DEF UploadInv, UploadsFollowTheMac, GensStay
<1>19. CASE Disconnects
  BY <1>19, SpoolGens, MacStays DEF Disconnects, presence
<1>20. CASE DownloadStarts
  BY <1>20, SpoolGens, MacStays DEF DownloadStarts, presence
<1>21. ASSUME NEW r \in requests, DownloadEnds(r) PROVE UploadsFollowTheMac'
  BY <1>21, SpoolGens, MacStays DEF DownloadEnds, presence
<1>22. ASSUME NEW status \in {"imported", "failed"}, Imports(status) PROVE UploadsFollowTheMac'
  BY <1>22, SpoolGens, MacStays DEF Imports, presence
<1>23. ASSUME NEW u \in UploadIds, NEW total \in 1..MaxChunks, NEW g \in Gens, Starts(u, total, g) PROVE UploadsFollowTheMac'
  BY <1>23, SpoolGens, MacStays DEF Starts, presence
<1>24. ASSUME NEW r \in requests, CallFails(r) PROVE UploadsFollowTheMac'
  BY <1>24, SpoolGens, MacStays DEF CallFails, presence
<1>25. CASE Resumes
  BY <1>25, SpoolGens, MacStays DEF Resumes, presence
<1>26. CASE Cancels
  BY <1>26, SpoolGens, MacStays DEF Cancels, presence
<1>27. CASE Artifact
  BY <1>27, SpoolGens, MacStays DEF Artifact, presence
<1>28. CASE Consumes
  BY <1>28, SpoolGens, MacStays DEF Consumes, presence
<1>29. CASE Invalidated
  BY <1>29, SpoolGens, MacStays DEF Invalidated, presence
<1> QED BY <1>1, <1>2, <1>3, <1>4, <1>5, <1>6, <1>7, <1>8, <1>9, <1>10, <1>11, <1>12, <1>13, <1>14,
    <1>15, <1>16, <1>17, <1>18, <1>19, <1>20, <1>21, <1>22, <1>23, <1>24, <1>25, <1>26, <1>27,
    <1>28, <1>29 DEF UploadNext, NextHandler, NextSocket, NextCompanion, NextPhone

-----------------------------------------------------------------------------
(* The Companion and its download.                                         *)

Streams ==
  /\ \A r, q \in Downloads : r = q
  /\ \A r \in Downloads : companion.work = [u |-> r.u, stage |-> "downloading"]

\* While the Companion does nothing it is enough to look at the requests.
LEMMA SteadyCompanion ==
  ASSUME UploadInv, UNCHANGED companion, Streams', phone'.gen <= companion.gen,
         \A q \in requests' : q.gen <= companion.gen,
         \A g \in Gens : g > companion.gen => socket'[g] = "none"
  PROVE  Downloading'
  BY DEF UploadInv, Downloading, Streams

\* A download that ends is no second download.
LEMMA StreamsShrink ==
  ASSUME UploadInv, Downloads' \subseteq Downloads, UNCHANGED companion PROVE Streams'
  BY DEF UploadInv, Downloading, Streams

\* A download that moves on is the same download.
LEMMA StreamMoves ==
  ASSUME UploadInv, UNCHANGED <<companion, phone>>, NEW r \in requests, NEW q \in Requests,
         requests' = (requests \ {r}) \cup {q},
         q.op = r.op, q.u = r.u, q.gen = r.gen, q.heard = r.heard
  PROVE  Streams' /\ phone'.gen <= companion.gen /\ \A p \in requests' : p.gen <= companion.gen
<1>1. \A p \in Downloads' : p = q \/ (p # r /\ p \in Downloads)
  BY DEF Downloads
<1>2. q \in Downloads' => r \in Downloads
  BY DEF Downloads
<1>3. Streams'
  BY <1>1, <1>2 DEF UploadInv, Downloading, Streams
<1> QED BY <1>3 DEF UploadInv, Downloading

\* An answer to the Companion ends no other download.
LEMMA StreamAnswers ==
  ASSUME UploadInv, UNCHANGED companion, NEW r \in requests, NEW ok, NEW i, Answers(r, ok, i),
         Continues(r), phone'.gen \in {phone.gen, 0}
  PROVE  Streams' /\ phone'.gen <= companion.gen /\ \A p \in requests' : p.gen <= companion.gen
<1>1. \A p \in requests' : p.gen <= companion.gen
  BY DEF Continues, UploadInv, Downloading
<1>2. ASSUME r.heard /\ r.op = "stream" PROVE Streams'
  <2> DEFINE q == [r EXCEPT !.stage = "done", !.ok = ok]
  <2>1. requests' = (requests \ {r}) \cup {q}
    BY <1>2 DEF Answers
  <2>2. q.op = r.op /\ q.u = r.u /\ q.heard = r.heard
    BY DEF UploadInv, TypeOK, Requests
  <2> HIDE DEF q
  <2>3. \A p \in Downloads' : p = q \/ (p # r /\ p \in Downloads)
    BY <2>1 DEF Downloads
  <2>4. r \in Downloads
    BY <1>2 DEF Downloads
  <2>5. \A p \in Downloads : p = r
    BY <2>4 DEF UploadInv, Downloading
  <2>6. companion'.work = [u |-> r.u, stage |-> "downloading"]
    BY <2>4 DEF UploadInv, Downloading
  <2>7. \A p \in Downloads' : p = q
    BY <2>3, <2>5
  <2> QED BY <2>2, <2>6, <2>7 DEF UploadInv, Downloading, Streams
<1>3. ASSUME ~(r.heard /\ r.op = "stream") PROVE Streams'
  <2>1. Downloads' \subseteq Downloads
    BY <1>3 DEF Continues, Downloads
  <2> QED BY <2>1, StreamsShrink
<1>4. phone'.gen <= companion.gen
  BY DEF UploadInv, TypeOK, Downloading
<1> QED BY <1>1, <1>2, <1>3, <1>4

\* Nobody starts a download by hanging up.
LEMMA StreamHangUps ==
  ASSUME UploadInv, UNCHANGED companion, NEW R, R \subseteq requests, requests' = HangUp(R),
         phone'.gen \in {phone.gen, 0}
  PROVE  Streams' /\ phone'.gen <= companion.gen /\ \A p \in requests' : p.gen <= companion.gen
<1>0. requests \subseteq Requests
  BY DEF UploadInv, TypeOK
<1>1. ASSUME NEW p \in requests'
      PROVE  p.gen <= companion.gen /\ (p.heard => p \in requests)
  <2>1. PICK r \in requests : p = IF r \in R THEN [r EXCEPT !.heard = FALSE] ELSE r
    BY <1>0, HangUpDoes
  <2>2. p.gen = r.gen /\ (p.heard => p = r)
    BY <1>0, <2>1 DEF Requests
  <2> QED BY <2>2 DEF UploadInv, Downloading
<1>2. Downloads' \subseteq Downloads
  BY <1>1 DEF Downloads
<1>3. phone'.gen <= companion.gen
  BY DEF UploadInv, TypeOK, Downloading
<1> QED BY <1>1, <1>2, <1>3, StreamsShrink

\* Nothing is downloaded unless the worker says so.
LEMMA NoDownload ==
  ASSUME UploadInv, companion.work.stage # "downloading" PROVE Downloads = {}
<1> SUFFICES ASSUME NEW r \in Downloads PROVE FALSE
  OBVIOUS
<1>1. companion.work = [u |-> r.u, stage |-> "downloading"]
  BY DEF UploadInv, Downloading
<1> QED BY <1>1

\* A handler goes on, gives a negative answer, or a caller hangs up: the
\* Companion's download is what it was.
LEMMA AtSteady ==
  ASSUME UploadInv, NEW r \in requests,
         NEW stage \in {"sent", "checked", "body", "stored", "aborting", "done"},
         requests' = At(r, stage), UNCHANGED <<phone, companion, socket>>
  PROVE  Downloading'
<1> DEFINE q == [r EXCEPT !.stage = stage]
<1>1. q \in Requests /\ q.op = r.op /\ q.u = r.u /\ q.gen = r.gen /\ q.heard = r.heard
  BY DEF UploadInv, TypeOK, Requests
<1>2. requests' = (requests \ {r}) \cup {q}
  BY DEF At
<1> HIDE DEF q
<1>3. Streams' /\ phone'.gen <= companion.gen /\ \A p \in requests' : p.gen <= companion.gen
  BY <1>1, <1>2, StreamMoves
<1> QED BY <1>3, SteadyCompanion DEF UploadInv, Downloading

\* An answer keeps the Companion's side in order.
LEMMA AnswerSteady ==
  ASSUME UploadInv, NEW r \in requests, NEW ok, NEW i, Answers(r, ok, i), Continues(r),
         phone'.gen \in {phone.gen, 0}, UNCHANGED <<companion, socket>>
  PROVE  Downloading'
  BY StreamAnswers, SteadyCompanion DEF UploadInv, Downloading

\* So does a refusal.
LEMMA NoSteady ==
  ASSUME UploadInv, NEW r \in requests, Answers(r, FALSE, 0), UNCHANGED <<companion, socket, used>>
  PROVE  Downloading'
  BY AnswersNo, AnswerSteady

\* So does a caller that hangs up.
LEMMA HangUpSteady ==
  ASSUME UploadInv, NEW R, R \subseteq requests, requests' = HangUp(R),
         phone'.gen \in {phone.gen, 0}, UNCHANGED <<companion, socket>>
  PROVE  Downloading'
  BY StreamHangUps, SteadyCompanion DEF UploadInv, Downloading

\* So does a step that makes no request.
LEMMA CallsSteady ==
  ASSUME UploadInv, UNCHANGED <<requests, companion>>,
         UNCHANGED phone \/ phone' = [phone EXCEPT !.st = "ready"],
         \A g \in Gens : g > companion.gen => socket'[g] = "none"
  PROVE  Downloading'
<1>1. phone'.gen = phone.gen
  BY PhoneIsTyped DEF PhoneTyped
<1>2. Streams'
  BY StreamsShrink DEF Downloads
<1> QED BY <1>1, <1>2, SteadyCompanion DEF UploadInv, Downloading

\* So does one that moves a socket already in use.
LEMMA SocketSteady ==
  ASSUME UploadInv, UNCHANGED <<requests, companion, phone>>, NEW g \in Gens, socket[g] # "none",
         NEW st, socket' = [socket EXCEPT ![g] = st]
  PROVE  Downloading'
<1>1. \A h \in Gens : h > companion.gen => h # g /\ socket[h] = "none"
  BY DEF UploadInv, Downloading
<1>2. \A h \in Gens : h # g => socket'[h] = socket[h]
  BY DEF UploadInv, TypeOK
<1> QED BY <1>1, <1>2, CallsSteady

\* Every step leaves the Companion with one download, of its own connection.
LEMMA CompanionStep ==
  ASSUME UploadInv, UploadNext
  PROVE  Downloading'
<1>1. ASSUME NEW r \in requests, BeginBinds(r) PROVE Downloading'
  BY <1>1, AtSteady, NoSteady DEF BeginBinds, macSide, presence
<1>2. ASSUME NEW r \in requests, BeginCreates(r) PROVE Downloading'
  <2>1. (Answers(r, TRUE, 0) \/ Answers(r, FALSE, 0)) /\ UNCHANGED <<companion, socket, used>> /\ r.op = "begin"
    BY <1>2 DEF BeginCreates, macSide, presence
  <2>2. TRUE \in BOOLEAN /\ 0 \in 0..MaxChunks /\ 0 <= phone.total
    BY UploadsAssumption, PhoneIsTyped DEF PhoneTyped
  <2>3. CASE Answers(r, TRUE, 0)
    <3>1. Continues(r) /\ phone'.gen \in {phone.gen, 0}
      BY <2>1, <2>2, <2>3, AnswersDo
    <3> QED BY <2>1, <2>3, <3>1, AnswerSteady
  <2>4. CASE Answers(r, FALSE, 0)
    BY <2>1, <2>4, NoSteady
  <2> QED BY <2>1, <2>3, <2>4
<1>3. ASSUME NEW r \in requests, BindingChecked(r) PROVE Downloading'
  BY <1>3, AtSteady, NoSteady DEF BindingChecked, macSide, presence
<1>4. ASSUME NEW r \in requests, ChunkAccepted(r) PROVE Downloading'
  BY <1>4, AtSteady, NoSteady DEF ChunkAccepted, macSide, presence
<1>5. ASSUME NEW r \in requests, ChunkEnds(r) PROVE Downloading'
  <2>1. /\ UNCHANGED <<companion, socket>> /\ requests \subseteq Requests /\ used' = used
        /\ r.op = "chunk" /\ \A g \in Gens : g > companion.gen => socket'[g] = "none"
    BY <1>5 DEF ChunkEnds, macSide, presence, UploadInv, TypeOK, Downloading
  <2>2. CASE Answers(r, FALSE, 0)
    <3>1. Continues(r) /\ phone'.gen \in {phone.gen, 0}
      BY <2>1, <2>2, AnswersNo
    <3>2. Streams' /\ phone'.gen <= companion.gen /\ \A p \in requests' : p.gen <= companion.gen
      BY <2>1, <2>2, <3>1, StreamAnswers
    <3> QED BY <2>1, <3>2, SteadyCompanion
  <2>3. CASE /\ requests' = (requests \ {r}) \cup {[r EXCEPT !.stage = "stored", !.i = session'[r.u].got]}
             /\ UNCHANGED phone
    <3> DEFINE q == [r EXCEPT !.stage = "stored", !.i = session'[r.u].got]
    <3>1. requests' = (requests \ {r}) \cup {q}
      BY <2>3
    <3>2. q.op = r.op /\ q.gen = r.gen
      BY <2>1 DEF Requests
    <3> HIDE DEF q
    <3>3. Downloads' \subseteq Downloads
      BY <2>1, <3>1, <3>2 DEF Downloads
    <3>4. Streams'
      BY <2>1, <3>3, StreamsShrink
    <3> QED BY <2>1, <2>3, <3>1, <3>2, <3>4, SteadyCompanion DEF UploadInv, Downloading
  <2> QED BY <1>5, <2>2, <2>3 DEF ChunkEnds
<1>6. ASSUME NEW r \in requests, Finalizes(r) PROVE Downloading'
  BY <1>6, AtSteady, NoSteady DEF Finalizes, macSide, presence
<1>7. ASSUME NEW r \in requests, Rechecked(r) PROVE Downloading'
  <2>1. /\ UNCHANGED socket /\ requests \subseteq Requests /\ used' = used /\ r.op \in {"chunk", "finalize"}
        /\ companion'.gen = companion.gen /\ companion'.work = companion.work /\ companion'.up = companion.up
    BY <1>7 DEF Rechecked, Available, presence, UploadInv, TypeOK
  <2>2. ASSUME NEW q \in requests' PROVE q.op # "stream" \/ q \in requests
    <3>1. CASE requests' = At(r, "aborting")
      <4> DEFINE p == [r EXCEPT !.stage = "aborting"]
      <4>1. p.op = r.op
        BY <2>1 DEF Requests
      <4>2. requests' = (requests \ {r}) \cup {p}
        BY <3>1 DEF At
      <4> HIDE DEF p
      <4> QED BY <2>1, <2>2, <4>1, <4>2
    <3>2. CASE Answers(r, TRUE, r.i)
      <4>1. Continues(r)
        <5>1. TRUE \in BOOLEAN /\ r.i \in 0..MaxChunks /\ (r.heard /\ r.op \in {"begin", "chunk"} => r.i <= phone.total)
          BY <2>1 DEF UploadInv, Asked, PhoneCalls, Requests
        <5> QED BY <2>1, <3>2, <5>1, AnswersDo
      <4> QED BY <2>1, <4>1 DEF Continues
    <3> QED BY <1>7, <3>1, <3>2 DEF Rechecked
  <2>3. Downloads' \subseteq Downloads
    BY <2>2 DEF Downloads
  <2>4. Streams'
    BY <2>1, <2>3 DEF UploadInv, Downloading, Streams
  <2>5. phone'.gen <= companion.gen /\ \A q \in requests' : q.gen <= companion.gen
    <3>1. CASE requests' = At(r, "aborting") /\ UNCHANGED phone
      <4> DEFINE p == [r EXCEPT !.stage = "aborting"]
      <4>1. p.gen = r.gen
        BY <2>1 DEF Requests
      <4>2. requests' = (requests \ {r}) \cup {p}
        BY <3>1 DEF At
      <4> HIDE DEF p
      <4> QED BY <3>1, <4>1, <4>2 DEF UploadInv, Downloading
    <3>2. CASE Answers(r, TRUE, r.i)
      <4>1. Continues(r) /\ phone'.gen \in {phone.gen, 0}
        <5>1. TRUE \in BOOLEAN /\ r.i \in 0..MaxChunks /\ (r.heard /\ r.op \in {"begin", "chunk"} => r.i <= phone.total)
          BY <2>1 DEF UploadInv, Asked, PhoneCalls, Requests
        <5> QED BY <2>1, <3>2, <5>1, AnswersDo
      <4>2. phone'.gen <= companion.gen
        BY <4>1 DEF UploadInv, TypeOK, Downloading
      <4>3. \A q \in requests' : \E p \in requests : q.gen = p.gen
        BY <4>1 DEF Continues
      <4> QED BY <4>2, <4>3 DEF UploadInv, Downloading
    <3> QED BY <1>7, <3>1, <3>2 DEF Rechecked
  <2> QED BY <2>1, <2>4, <2>5 DEF UploadInv, Downloading, Streams
<1>8. ASSUME NEW r \in requests, Aborts(r) PROVE Downloading'
  BY <1>8, NoSteady DEF Aborts, macSide, presence
<1>9. ASSUME NEW r \in requests, StreamOpens(r) PROVE Downloading'
  BY <1>9, AtSteady, NoSteady DEF StreamOpens, macSide, presence
<1>10. ASSUME NEW r \in requests, StreamEnds(r) PROVE Downloading'
  <2>1. CASE requests' = At(r, "aborting") /\ UNCHANGED phone
    BY <1>10, <2>1, AtSteady DEF StreamEnds, macSide, presence
  <2>2. CASE Answers(r, TRUE, 0)
    <3>1. TRUE \in BOOLEAN /\ 0 \in 0..MaxChunks /\ r.op = "stream" /\ UNCHANGED used
      BY <1>10, UploadsAssumption DEF StreamEnds
    <3>2. Continues(r) /\ phone'.gen \in {phone.gen, 0}
      BY <2>2, <3>1, AnswersDo
    <3> QED BY <1>10, <2>2, <3>2, AnswerSteady DEF StreamEnds, macSide, presence
  <2> QED BY <1>10, <2>1, <2>2 DEF StreamEnds
<1>11. ASSUME NEW u \in UploadIds, Cleanup(u) PROVE Downloading'
  BY <1>11, CallsSteady DEF Cleanup, phoneSide, macSide, presence, UploadInv, Downloading
<1>12. CASE AckHandled
  <2>1. UNCHANGED <<requests, companion, phone>> /\ socket[companion.gen] = "open" /\ companion.up
    BY <1>12 DEF AckHandled, phoneSide
  <2>2. UNCHANGED socket \/ socket' = [socket EXCEPT ![companion.gen] = "ended"]
    BY <1>12 DEF AckHandled
  <2>3. companion.gen \in Gens
    BY <2>1, UploadsAssumption DEF UploadInv, TypeOK, Downloading, Gens
  <2> QED BY <2>1, <2>2, <2>3, CallsSteady, SocketSteady DEF UploadInv, Downloading
<1>13. CASE Restart
  <2>1. UNCHANGED companion /\ requests \subseteq Requests /\ socket \in [Gens -> SocketStates]
    BY <1>13 DEF Restart, macSide, UploadInv, TypeOK
  <2>2. ASSUME NEW q \in requests'
        PROVE \E r \in Downloads : q = [r EXCEPT !.stage = "done", !.ok = FALSE] /\ q.u = r.u /\ q.gen = r.gen
    <3>1. PICK r \in Downloads : q = [r EXCEPT !.stage = "done", !.ok = FALSE]
      BY <1>13, <2>2 DEF Restart
    <3> QED BY <2>1, <3>1 DEF Downloads, Requests
  <2>3. Streams'
    <3>1. \A q \in Downloads' : q \in requests'
      BY DEF Downloads
    <3>2. \A q, p \in Downloads' : q = p
      <4> SUFFICES ASSUME NEW q \in Downloads', NEW p \in Downloads' PROVE q = p
        OBVIOUS
      <4>1. PICK r \in Downloads : q = [r EXCEPT !.stage = "done", !.ok = FALSE]
        BY <2>2, <3>1
      <4>2. PICK a \in Downloads : p = [a EXCEPT !.stage = "done", !.ok = FALSE]
        BY <2>2, <3>1
      <4>3. a = r
        BY DEF UploadInv, Downloading
      <4> QED BY <4>1, <4>2, <4>3
    <3>3. \A q \in Downloads' : companion.work = [u |-> q.u, stage |-> "downloading"]
      <4> SUFFICES ASSUME NEW q \in Downloads' PROVE companion.work = [u |-> q.u, stage |-> "downloading"]
        OBVIOUS
      <4>1. PICK r \in Downloads : q.u = r.u
        BY <2>2, <3>1
      <4> QED BY <4>1 DEF UploadInv, Downloading
    <3> QED BY <2>1, <3>2, <3>3 DEF Streams
  <2>4. \A q \in requests' : q.gen <= companion.gen
    BY <2>2 DEF UploadInv, Downloading, Downloads
  <2>5. phone'.gen <= companion.gen
    <3>1. UNCHANGED phone \/ \E r \in PhoneCalls : phone' = Failing(r)
      BY <1>13 DEF Restart
    <3>2. phone'.gen \in {phone.gen, 0}
      BY <3>1, FailingDoes DEF Failed, SameItem
    <3> QED BY <3>2 DEF UploadInv, TypeOK, Downloading
  <2>6. \A g \in Gens : g > companion.gen => socket'[g] = "none"
    BY <1>13, <2>1 DEF Restart, UploadInv, Downloading
  <2> QED BY <2>1, <2>3, <2>4, <2>5, <2>6, SteadyCompanion
<1>14. ASSUME NEW g \in Gens, MacRegisters(g) PROVE Downloading'
  BY <1>14, SocketSteady DEF MacRegisters, phoneSide, macSide
<1>15. ASSUME NEW g \in Gens, OthersAborted(g) PROVE Downloading'
  BY <1>15, SocketSteady DEF OthersAborted, phoneSide, macSide
<1>16. ASSUME NEW g \in Gens, SocketEnds(g) PROVE Downloading'
  BY <1>16, SocketSteady DEF SocketEnds, phoneSide, macSide
<1>17. ASSUME NEW g \in Gens, BindingAborted(g) PROVE Downloading'
  BY <1>17, SocketSteady DEF BindingAborted, phoneSide, macSide
<1>18. CASE Connects
  <2> DEFINE n == companion.gen + 1
  <2>1. /\ UNCHANGED <<requests, phone>> /\ ~companion.up /\ companion.gen \in 0..MaxGen /\ n \in Gens
        /\ companion'.gen = n /\ companion'.work = companion.work /\ companion'.up
        /\ socket' = [socket EXCEPT ![n] = "hello"] /\ socket \in [Gens -> SocketStates]
    <3>1. companion \in [gen : 0..MaxGen, starts : SUBSET Gens, up : BOOLEAN, queue : Seq(UploadIds),
                         work : [u : UploadIds \cup {NoUpload}, stage : {"idle", "downloading", "staged"}]]
      BY DEF UploadInv, TypeOK
    <3>2. \/ companion' = [companion EXCEPT !.gen = n, !.up = TRUE]
          \/ companion' = [companion EXCEPT !.gen = n, !.up = TRUE, !.starts = @ \cup {n}]
      BY <1>18 DEF Connects
    <3>3. companion'.gen = n /\ companion'.work = companion.work /\ companion'.up
      BY <3>1, <3>2
    <3>4. ~companion.up /\ companion.gen < MaxGen /\ UNCHANGED <<requests, phone>>
      BY <1>18 DEF Connects, phoneSide
    <3>5. companion.gen \in 0..MaxGen /\ n \in Gens
      BY <3>1, <3>4, UploadsAssumption DEF Gens
    <3> QED BY <1>18, <3>3, <3>4, <3>5 DEF Connects, UploadInv, TypeOK
  <2>2. Downloads' = Downloads
    BY <2>1 DEF Downloads
  <2>3. \A g \in Gens : g > n => g > companion.gen /\ g # n
    BY <2>1, UploadsAssumption DEF Gens
  <2>4. phone.gen \in Nat /\ \A q \in requests : q.gen \in Nat
    BY UploadsAssumption DEF UploadInv, TypeOK, Requests, Gens
  <2>5. phone.gen <= n /\ \A q \in requests : q.gen <= n
    BY <2>1, <2>4 DEF UploadInv, Downloading
  <2>6. n # 0 /\ companion.gen \in Nat
    BY <2>1
  <2> HIDE DEF n
  <2>7. \A g \in Gens : g > n => socket'[g] = "none"
    BY <2>1, <2>3 DEF UploadInv, Downloading
  <2> QED BY <2>1, <2>2, <2>5, <2>6, <2>7 DEF UploadInv, Downloading
<1>19. CASE Disconnects
  <2>1. /\ companion'.gen = companion.gen /\ ~companion'.up /\ companion'.work = Idle
        /\ requests' = HangUp(Downloads) /\ UNCHANGED <<phone, socket>> /\ requests \subseteq Requests
        /\ Downloads \subseteq requests
    BY <1>19 DEF Disconnects, phoneSide, presence, UploadInv, TypeOK, Downloads
  <2>2. ASSUME NEW q \in requests'
        PROVE q.gen <= companion.gen /\ ~(q.op = "stream" /\ q.heard)
    <3>1. PICK r \in requests : q = IF r \in Downloads THEN [r EXCEPT !.heard = FALSE] ELSE r
      BY <2>1, HangUpDoes
    <3>2. q.gen = r.gen /\ ~(q.op = "stream" /\ q.heard)
      BY <2>1, <3>1 DEF Requests, Downloads
    <3> QED BY <3>2 DEF UploadInv, Downloading
  <2>3. Downloads' = {}
    BY <2>2 DEF Downloads
  <2> QED BY <2>1, <2>2, <2>3 DEF UploadInv, Downloading, Idle
<1>20. CASE DownloadStarts
  <2> DEFINE u == Head(companion.queue)
             f == Request("stream", u, 0, companion.gen)
  <2>1. /\ companion'.gen = companion.gen /\ companion'.up = companion.up /\ companion.up
        /\ companion'.work = [u |-> u, stage |-> "downloading"] /\ companion.work = Idle
        /\ requests' = requests \cup {f} /\ UNCHANGED <<phone, socket>> /\ companion.queue # <<>>
        /\ companion.queue \in Seq(UploadIds)
    BY <1>20 DEF DownloadStarts, phoneSide, presence, UploadInv, TypeOK
  <2>2. f.u = u /\ f.gen = companion.gen /\ f.op = "stream"
    BY DEF Request
  <2>3. u \in UploadIds
    BY <2>1
  <2> HIDE DEF f, u
  <2>4. Downloads = {}
    BY <2>1, NoDownload DEF Idle
  <2>5. \A q \in Downloads' : q = f
    BY <2>1, <2>4 DEF Downloads
  <2>6. u # NoUpload /\ companion.gen \in Nat
    BY <2>3 DEF UploadIds, NoUpload, UploadInv, TypeOK
  <2>7. \A q \in requests' : q.gen <= companion.gen
    BY <2>1, <2>2, <2>6 DEF UploadInv, Downloading
  <2> QED BY <2>1, <2>2, <2>5, <2>6, <2>7 DEF UploadInv, Downloading
<1>21. ASSUME NEW r \in requests, DownloadEnds(r) PROVE Downloading'
  <2>1. /\ companion'.gen = companion.gen /\ companion'.up = companion.up
        /\ companion'.work = Idle \/ (companion'.work = [companion.work EXCEPT !.stage = "staged"])
        /\ requests' = HangUp({r}) /\ UNCHANGED <<phone, socket>> /\ requests \subseteq Requests
        /\ {r} \subseteq requests /\ r \in Downloads
    BY <1>21 DEF DownloadEnds, phoneSide, presence, UploadInv, TypeOK, Downloads
  <2>2. ASSUME NEW q \in requests'
        PROVE q.gen <= companion.gen /\ ~(q.op = "stream" /\ q.heard)
    <3>1. PICK a \in requests : q = IF a \in {r} THEN [a EXCEPT !.heard = FALSE] ELSE a
      BY <2>1, HangUpDoes
    <3>2. q.gen = a.gen /\ (q.op = "stream" /\ q.heard => a \in Downloads /\ a # r)
      BY <2>1, <3>1 DEF Requests, Downloads
    <3> QED BY <2>1, <3>2 DEF UploadInv, Downloading
  <2>3. Downloads' = {}
    BY <2>2 DEF Downloads
  <2>4. companion.work = [u |-> r.u, stage |-> "downloading"] /\ companion.gen # 0 /\ companion.work.u # NoUpload
    BY <2>1 DEF UploadInv, Downloading
  <2>5. companion'.work.stage # "idle" => companion'.work.u # NoUpload
    BY <2>1, <2>4 DEF Idle
  <2> QED BY <2>1, <2>2, <2>3, <2>4, <2>5 DEF UploadInv, Downloading
<1>22. ASSUME NEW status \in {"imported", "failed"}, Imports(status) PROVE Downloading'
  <2>1. /\ companion'.gen = companion.gen /\ companion'.up = companion.up /\ companion'.work = Idle
        /\ companion.work.stage = "staged" /\ UNCHANGED <<requests, phone, socket>>
    BY <1>22 DEF Imports, phoneSide, presence, UploadInv, TypeOK
  <2>2. Downloads' = {}
    BY <2>1, NoDownload DEF Downloads
  <2> QED BY <2>1, <2>2 DEF UploadInv, Downloading, Idle
<1>23. ASSUME NEW u \in UploadIds, NEW total \in 1..MaxChunks, NEW g \in Gens, Starts(u, total, g) PROVE Downloading'
  <2> DEFINE f == Request("begin", u, total, g)
  <2>1. requests' = requests \cup {f} /\ UNCHANGED <<companion, socket>> /\ phone'.gen = g /\ g <= companion.gen
    BY <1>23 DEF Starts, macSide, presence
  <2>2. f.op = "begin" /\ f.gen = g
    BY DEF Request
  <2> HIDE DEF f
  <2>3. Streams'
    BY <2>1, <2>2, StreamsShrink DEF Downloads
  <2> QED BY <2>1, <2>2, <2>3, SteadyCompanion DEF UploadInv, Downloading
<1>24. ASSUME NEW r \in requests, CallFails(r) PROVE Downloading'
  <2>1. /\ UNCHANGED <<companion, socket>> /\ requests \subseteq Requests
        /\ {r} \subseteq requests /\ requests' = HangUp({r})
        /\ \A g \in Gens : g > companion.gen => socket'[g] = "none"
    BY <1>24 DEF CallFails, macSide, presence, UploadInv, TypeOK, Downloading, PhoneCalls
  <2>2. phone'.gen \in {phone.gen, 0}
    BY <1>24, FailingDoes DEF CallFails, Failed, SameItem
  <2>3. Streams' /\ phone'.gen <= companion.gen /\ \A p \in requests' : p.gen <= companion.gen
    BY <2>1, <2>2, StreamHangUps
  <2> QED BY <2>1, <2>3, SteadyCompanion
<1>25. CASE Resumes
  <2>1. /\ phone.st = "paused" /\ phone' = [Sending(phone) EXCEPT !.resumed = TRUE]
        /\ requests' = requests \cup {FollowUp(phone)} /\ UNCHANGED <<companion, socket>>
    BY <1>25 DEF Resumes, presence, macSide
  <2>2. phone.u # NoUpload /\ phone.gen # 0 /\ PhoneTyped
    BY <2>1, PhoneIsTyped DEF UploadInv, Asked
  <2>3. phone = [phone EXCEPT !.i = phone.i] /\ phone.i \in 0..MaxChunks
    BY <2>2 DEF PhoneTyped
  <2>4. LET f == FollowUp(phone) IN
        /\ f \in Requests /\ f.op \in {"chunk", "finalize"} /\ f.stage = "sent"
        /\ f.u = phone.u /\ f.gen = phone.gen /\ (f.op = "chunk" => f.i = phone.i /\ phone.i < phone.total)
        /\ Sending(phone) = [phone EXCEPT !.i = phone.i, !.st = Sending(phone).st]
        /\ Sending(phone).st \in {"uploading", "finalizing"}
    BY <2>2, <2>3, FollowUpIs
  <2>5. phone'.gen = phone.gen
    BY <2>1, <2>2, <2>4 DEF PhoneTyped
  <2>6. Streams'
    BY <2>1, <2>4, StreamsShrink DEF Downloads
  <2> QED BY <2>1, <2>4, <2>5, <2>6, SteadyCompanion DEF UploadInv, Downloading
<1>26. CASE Cancels
  <2> DEFINE d == [Request("delete", phone.u, 0, phone.gen) EXCEPT !.heard = FALSE]
  <2>1. /\ UNCHANGED <<companion, socket>> /\ phone' = NoItem /\ PhoneCalls \subseteq requests
        /\ \A q \in requests' : q \in HangUp(PhoneCalls) \/ q = d
        /\ requests \subseteq Requests
    BY <1>26 DEF Cancels, presence, PhoneCalls, macSide, UploadInv, TypeOK
  <2>2. d.op = "delete" /\ d.gen = phone.gen
    BY DEF Request
  <2> HIDE DEF d
  <2>3. ASSUME NEW q \in HangUp(PhoneCalls) PROVE q.gen <= companion.gen /\ (q.heard => q \in requests)
    <3>1. PICK r \in requests : q = IF r \in PhoneCalls THEN [r EXCEPT !.heard = FALSE] ELSE r
      BY <2>1, HangUpDoes
    <3>2. q.gen = r.gen /\ (q.heard => q = r)
      BY <2>1, <3>1 DEF Requests
    <3> QED BY <3>2 DEF UploadInv, Downloading
  <2>4. Downloads' \subseteq Downloads
    BY <2>1, <2>2, <2>3 DEF Downloads
  <2>5. Streams'
    BY <2>1, <2>4, StreamsShrink
  <2>6. phone'.gen <= companion.gen
    BY <2>1 DEF NoItem, UploadInv, TypeOK
  <2>7. \A q \in requests' : q.gen <= companion.gen
    BY <2>1, <2>2, <2>3 DEF UploadInv, Downloading
  <2> QED BY <2>1, <2>5, <2>6, <2>7, SteadyCompanion DEF UploadInv, Downloading
<1>27. CASE Artifact
  BY <1>27, CallsSteady DEF Artifact, phoneSide, macSide, presence, UploadInv, Downloading
<1>28. CASE Consumes
  <2>1. /\ UNCHANGED <<companion, socket>> /\ requests \subseteq Requests
        /\ PhoneCalls \subseteq requests /\ requests' = HangUp(PhoneCalls)
        /\ \A g \in Gens : g > companion.gen => socket'[g] = "none"
    BY <1>28 DEF Consumes, macSide, presence, UploadInv, TypeOK, Downloading, PhoneCalls
  <2>2. phone'.gen \in {phone.gen, 0}
    BY <1>28 DEF Consumes, NoItem
  <2>3. Streams' /\ phone'.gen <= companion.gen /\ \A p \in requests' : p.gen <= companion.gen
    BY <2>1, <2>2, StreamHangUps
  <2> QED BY <2>1, <2>3, SteadyCompanion
<1>29. CASE Invalidated
  <2>1. /\ UNCHANGED <<companion, socket>> /\ requests \subseteq Requests
        /\ PhoneCalls \subseteq requests /\ requests' = HangUp(PhoneCalls)
        /\ \A g \in Gens : g > companion.gen => socket'[g] = "none"
    BY <1>29 DEF Invalidated, macSide, presence, UploadInv, TypeOK, Downloading, PhoneCalls
  <2>2. phone'.gen \in {phone.gen, 0}
    BY <1>29, PhoneIsTyped DEF Invalidated, PhoneTyped
  <2>3. Streams' /\ phone'.gen <= companion.gen /\ \A p \in requests' : p.gen <= companion.gen
    BY <2>1, <2>2, StreamHangUps
  <2> QED BY <2>1, <2>3, SteadyCompanion
<1> QED BY <1>1, <1>2, <1>3, <1>4, <1>5, <1>6, <1>7, <1>8, <1>9, <1>10, <1>11, <1>12, <1>13, <1>14,
    <1>15, <1>16, <1>17, <1>18, <1>19, <1>20, <1>21, <1>22, <1>23, <1>24, <1>25, <1>26, <1>27,
    <1>28, <1>29 DEF UploadNext, NextHandler, NextSocket, NextCompanion, NextPhone

-----------------------------------------------------------------------------
(* The acknowledgements and what the phones are told.                      *)

\* A sequence over a set is one over a larger set.
LEMMA SeqGrows == ASSUME NEW S, NEW T, S \subseteq T, NEW s \in Seq(S) PROVE s \in Seq(T)
<1>1. \A i \in 1..Len(s) : s[i] \in T
  BY ElementOfSeq
<1>2. SubSeq(s, 1, Len(s)) \in Seq(T)
  BY <1>1, SubSeqProperties, LenProperties
<1> QED BY <1>2, SubSeqFull

MacSideTyped ==
  /\ companion \in [gen : 0..MaxGen, starts : SUBSET Gens, up : BOOLEAN, queue : Seq(UploadIds),
                    work : [u : UploadIds \cup {NoUpload}, stage : {"idle", "downloading", "staged"}]]
  /\ acks \in Seq(TrueAcks) /\ staged \subseteq UploadIds /\ vault \subseteq UploadIds

\* A step without the Companion.
LEMMA MacSideStays ==
  ASSUME UploadInv, UNCHANGED macSide PROVE MacSideTyped' /\ vault \subseteq vault'
<1>1. UNCHANGED companion /\ UNCHANGED acks /\ UNCHANGED staged /\ UNCHANGED vault
  BY DEF macSide
<1> QED BY <1>1 DEF UploadInv, TypeOK, Acknowledging, MacSideTyped, TrueAcks

\* The Companion's side, from the invariant.
LEMMA MacSideIs == ASSUME UploadInv PROVE MacSideTyped
  BY DEF UploadInv, TypeOK, Acknowledging, MacSideTyped

\* A frame joins the queue of acknowledgements.
LEMMA AckAdded ==
  ASSUME UploadInv, NEW a \in TrueAcks', acks' = Append(acks, a), vault \subseteq vault'
  PROVE  acks' \in Seq(TrueAcks)'
<1>1. TrueAcks \subseteq TrueAcks'
  BY DEF TrueAcks
<1>2. acks \in Seq(TrueAcks')
  BY <1>1, SeqGrows DEF UploadInv, Acknowledging
<1> QED BY <1>2, AppendProperties

\* A failed upload is acknowledged whatever the vault holds.
LEMMA FailedAck ==
  ASSUME UploadInv, NEW u \in UploadIds, companion.gen # 0
  PROVE  Ack(u, "failed") \in TrueAcks /\ (vault \subseteq vault' => Ack(u, "failed") \in TrueAcks')
<1>1. companion.gen \in Gens
  BY UploadsAssumption DEF UploadInv, TypeOK, Gens
<1> QED BY <1>1 DEF Ack, TrueAcks, Acks

\* Every step leaves true acknowledgements, and no step loses a file of the vault.
LEMMA MacSideStep ==
  ASSUME UploadInv, UploadNext
  PROVE  MacSideTyped' /\ vault \subseteq vault'
<1>1. ASSUME NEW r \in requests, BeginBinds(r) PROVE MacSideTyped' /\ vault \subseteq vault'
  BY <1>1, MacSideStays DEF BeginBinds, macSide
<1>2. ASSUME NEW r \in requests, BeginCreates(r) PROVE MacSideTyped' /\ vault \subseteq vault'
  BY <1>2, MacSideStays DEF BeginCreates, macSide
<1>3. ASSUME NEW r \in requests, BindingChecked(r) PROVE MacSideTyped' /\ vault \subseteq vault'
  BY <1>3, MacSideStays DEF BindingChecked, macSide
<1>4. ASSUME NEW r \in requests, ChunkAccepted(r) PROVE MacSideTyped' /\ vault \subseteq vault'
  BY <1>4, MacSideStays DEF ChunkAccepted, macSide
<1>5. ASSUME NEW r \in requests, ChunkEnds(r) PROVE MacSideTyped' /\ vault \subseteq vault'
  BY <1>5, MacSideStays DEF ChunkEnds, macSide
<1>6. ASSUME NEW r \in requests, Finalizes(r) PROVE MacSideTyped' /\ vault \subseteq vault'
  BY <1>6, MacSideStays DEF Finalizes, macSide
<1>7. ASSUME NEW r \in requests, Rechecked(r) PROVE MacSideTyped' /\ vault \subseteq vault'
  <2>0. /\ companion \in [gen : 0..MaxGen, starts : SUBSET Gens, up : BOOLEAN, queue : Seq(UploadIds),
                          work : [u : UploadIds \cup {NoUpload}, stage : {"idle", "downloading", "staged"}]]
        /\ acks \in Seq(TrueAcks) /\ staged \subseteq UploadIds /\ vault \subseteq UploadIds
    BY MacSideIs DEF MacSideTyped
  <2>1. UNCHANGED <<staged, vault>> /\ (UNCHANGED <<companion, acks>> \/ (companion.up /\ Available(r.u)))
    BY <1>7 DEF Rechecked
  <2>2. CASE UNCHANGED <<companion, acks>>
    BY <2>1, <2>2, MacSideStays DEF macSide
  <2>3. CASE companion.up /\ Available(r.u)
    <3>1. r.u \in UploadIds /\ companion.gen # 0
      BY <2>3 DEF UploadInv, TypeOK, Requests, Downloading
    <3>2. CASE companion' = [companion EXCEPT !.queue = <<r.u>>] /\ UNCHANGED acks
      <4>1. <<r.u>> \in Seq(UploadIds)
        BY <3>1
      <4> QED BY <2>0, <2>1, <3>2, <4>1 DEF MacSideTyped, TrueAcks
    <3>3. CASE acks' = Append(acks, Ack(r.u, "failed")) /\ UNCHANGED companion
      <4>1. vault \subseteq vault' /\ Ack(r.u, "failed") \in TrueAcks'
        BY <2>1, <3>1, FailedAck
      <4> QED BY <2>0, <2>1, <3>3, <4>1, AckAdded DEF MacSideTyped
    <3> QED BY <2>3, <3>2, <3>3 DEF Available
  <2> QED BY <2>1, <2>2, <2>3
<1>8. ASSUME NEW r \in requests, Aborts(r) PROVE MacSideTyped' /\ vault \subseteq vault'
  BY <1>8, MacSideStays DEF Aborts, macSide
<1>9. ASSUME NEW r \in requests, StreamOpens(r) PROVE MacSideTyped' /\ vault \subseteq vault'
  BY <1>9, MacSideStays DEF StreamOpens, macSide
<1>10. ASSUME NEW r \in requests, StreamEnds(r) PROVE MacSideTyped' /\ vault \subseteq vault'
  BY <1>10, MacSideStays DEF StreamEnds, macSide
<1>11. ASSUME NEW u \in UploadIds, Cleanup(u) PROVE MacSideTyped' /\ vault \subseteq vault'
  BY <1>11, MacSideStays DEF Cleanup, macSide
<1>12. CASE AckHandled
  <2>0. /\ companion \in [gen : 0..MaxGen, starts : SUBSET Gens, up : BOOLEAN, queue : Seq(UploadIds),
                          work : [u : UploadIds \cup {NoUpload}, stage : {"idle", "downloading", "staged"}]]
        /\ acks \in Seq(TrueAcks) /\ staged \subseteq UploadIds /\ vault \subseteq UploadIds
    BY MacSideIs DEF MacSideTyped
  <2>1. acks # <<>> /\ acks' = Tail(acks) /\ UNCHANGED <<companion, staged, vault>>
    BY <1>12 DEF AckHandled
  <2>2. Tail(acks) \in Seq(TrueAcks)
    BY <2>0, <2>1, HeadTailProperties
  <2> QED BY <2>0, <2>1, <2>2 DEF MacSideTyped, TrueAcks
<1>13. CASE Restart
  BY <1>13, MacSideStays DEF Restart, macSide
<1>14. ASSUME NEW g \in Gens, MacRegisters(g) PROVE MacSideTyped' /\ vault \subseteq vault'
  BY <1>14, MacSideStays DEF MacRegisters, macSide
<1>15. ASSUME NEW g \in Gens, OthersAborted(g) PROVE MacSideTyped' /\ vault \subseteq vault'
  BY <1>15, MacSideStays DEF OthersAborted, macSide
<1>16. ASSUME NEW g \in Gens, SocketEnds(g) PROVE MacSideTyped' /\ vault \subseteq vault'
  BY <1>16, MacSideStays DEF SocketEnds, macSide
<1>17. ASSUME NEW g \in Gens, BindingAborted(g) PROVE MacSideTyped' /\ vault \subseteq vault'
  BY <1>17, MacSideStays DEF BindingAborted, macSide
<1>18. CASE Connects
  <2>0. /\ companion \in [gen : 0..MaxGen, starts : SUBSET Gens, up : BOOLEAN, queue : Seq(UploadIds),
                          work : [u : UploadIds \cup {NoUpload}, stage : {"idle", "downloading", "staged"}]]
        /\ acks \in Seq(TrueAcks) /\ staged \subseteq UploadIds /\ vault \subseteq UploadIds
    BY MacSideIs DEF MacSideTyped
  <2> DEFINE g == companion.gen + 1
  <2>1. /\ UNCHANGED <<staged, vault>> /\ companion.gen < MaxGen
        /\ acks' = acks \/ acks' = <<>>
        /\ \/ companion' = [companion EXCEPT !.gen = g, !.up = TRUE]
           \/ companion' = [companion EXCEPT !.gen = g, !.up = TRUE, !.starts = @ \cup {g}]
    BY <1>18 DEF Connects
  <2>2. g \in Gens /\ g \in 0..MaxGen /\ companion.starts \cup {g} \subseteq Gens
    BY <2>0, <2>1, UploadsAssumption DEF Gens
  <2> HIDE DEF g
  <2>3. acks' \in Seq(TrueAcks)
    <3>1. <<>> \in Seq(TrueAcks)
      BY EmptySeq
    <3> QED BY <2>0, <2>1, <3>1
  <2>4. companion' \in [gen : 0..MaxGen, starts : SUBSET Gens, up : BOOLEAN, queue : Seq(UploadIds),
                          work : [u : UploadIds \cup {NoUpload}, stage : {"idle", "downloading", "staged"}]]
    BY <2>0, <2>1, <2>2
  <2> QED BY <2>0, <2>1, <2>3, <2>4 DEF MacSideTyped, TrueAcks
<1>19. CASE Disconnects
  <2>0. /\ companion \in [gen : 0..MaxGen, starts : SUBSET Gens, up : BOOLEAN, queue : Seq(UploadIds),
                          work : [u : UploadIds \cup {NoUpload}, stage : {"idle", "downloading", "staged"}]]
        /\ acks \in Seq(TrueAcks) /\ staged \subseteq UploadIds /\ vault \subseteq UploadIds
    BY MacSideIs DEF MacSideTyped
  <2>1. /\ companion' = [companion EXCEPT !.up = FALSE, !.queue = <<>>, !.work = Idle]
        /\ staged' = {} /\ vault' \in {vault, vault \cup staged}
    BY <1>19 DEF Disconnects
  <2>2. PICK n \in 0..Len(acks) : acks' = SubSeq(acks, n + 1, Len(acks))
    BY <1>19 DEF Disconnects
  <2>3. vault \subseteq vault' /\ vault' \subseteq UploadIds
    BY <2>0, <2>1
  <2>4. TrueAcks \subseteq TrueAcks'
    BY <2>3 DEF TrueAcks
  <2>5. acks' \in Seq(TrueAcks')
    <3>1. Len(acks) \in Nat /\ \A k \in 1..Len(acks) : acks[k] \in TrueAcks'
      BY <2>0, <2>4, LenProperties, ElementOfSeq
    <3>2. \A k \in (n + 1)..Len(acks) : acks[k] \in TrueAcks'
      BY <3>1
    <3>3. n + 1 \in Int /\ Len(acks) \in Int
      BY <3>1
    <3> QED BY <2>2, <3>2, <3>3, SubSeqProperties
  <2>6. Idle \in [u : UploadIds \cup {NoUpload}, stage : {"idle", "downloading", "staged"}] /\ <<>> \in Seq(UploadIds)
    BY DEF Idle
  <2>7. companion' \in [gen : 0..MaxGen, starts : SUBSET Gens, up : BOOLEAN, queue : Seq(UploadIds),
                          work : [u : UploadIds \cup {NoUpload}, stage : {"idle", "downloading", "staged"}]]
    BY <2>0, <2>1, <2>6
  <2> QED BY <2>1, <2>3, <2>5, <2>7 DEF MacSideTyped
<1>20. CASE DownloadStarts
  <2>0. /\ companion \in [gen : 0..MaxGen, starts : SUBSET Gens, up : BOOLEAN, queue : Seq(UploadIds),
                          work : [u : UploadIds \cup {NoUpload}, stage : {"idle", "downloading", "staged"}]]
        /\ acks \in Seq(TrueAcks) /\ staged \subseteq UploadIds /\ vault \subseteq UploadIds
    BY MacSideIs DEF MacSideTyped
  <2> DEFINE u == Head(companion.queue)
  <2>1. /\ companion' = [companion EXCEPT !.queue = <<>>, !.work = [u |-> u, stage |-> "downloading"]]
        /\ UNCHANGED <<acks, staged, vault>> /\ companion.queue # <<>>
    BY <1>20 DEF DownloadStarts
  <2>2. u \in UploadIds /\ <<>> \in Seq(UploadIds)
    BY <2>0, <2>1
  <2> HIDE DEF u
  <2>3. companion' \in [gen : 0..MaxGen, starts : SUBSET Gens, up : BOOLEAN, queue : Seq(UploadIds),
                          work : [u : UploadIds \cup {NoUpload}, stage : {"idle", "downloading", "staged"}]]
    BY <2>0, <2>1, <2>2
  <2> QED BY <2>0, <2>1, <2>3 DEF MacSideTyped, TrueAcks
<1>21. ASSUME NEW r \in requests, DownloadEnds(r) PROVE MacSideTyped' /\ vault \subseteq vault'
  <2>0. /\ companion \in [gen : 0..MaxGen, starts : SUBSET Gens, up : BOOLEAN, queue : Seq(UploadIds),
                          work : [u : UploadIds \cup {NoUpload}, stage : {"idle", "downloading", "staged"}]]
        /\ acks \in Seq(TrueAcks) /\ staged \subseteq UploadIds /\ vault \subseteq UploadIds
    BY MacSideIs DEF MacSideTyped
  <2>1. r.u \in UploadIds /\ vault' = vault /\ r \in Downloads
    BY <1>21 DEF DownloadEnds, UploadInv, TypeOK, Requests
  <2>2. CASE staged' = staged \cup {r.u} /\ companion' = [companion EXCEPT !.work.stage = "staged"] /\ UNCHANGED acks
    BY <2>0, <2>1, <2>2 DEF MacSideTyped, TrueAcks
  <2>3. CASE companion' = [companion EXCEPT !.work = Idle] /\ acks' = Append(acks, Ack(r.u, "failed")) /\ UNCHANGED staged
    <3>1. companion.gen # 0
      <4>1. companion.work.stage = "downloading"
        <5>1. companion.work = [u |-> r.u, stage |-> "downloading"]
          BY <2>1 DEF UploadInv, Downloading
        <5> QED BY <5>1
      <4> QED BY <4>1 DEF UploadInv, Downloading
    <3>2. vault \subseteq vault' /\ Ack(r.u, "failed") \in TrueAcks'
      BY <2>1, <3>1, FailedAck
    <3>3. Idle \in [u : UploadIds \cup {NoUpload}, stage : {"idle", "downloading", "staged"}]
      BY DEF Idle
    <3>4. companion' \in [gen : 0..MaxGen, starts : SUBSET Gens, up : BOOLEAN, queue : Seq(UploadIds),
                          work : [u : UploadIds \cup {NoUpload}, stage : {"idle", "downloading", "staged"}]]
      BY <2>0, <2>3, <3>3
    <3> QED BY <2>0, <2>1, <2>3, <3>2, <3>4, AckAdded DEF MacSideTyped
  <2> QED BY <1>21, <2>2, <2>3 DEF DownloadEnds
<1>22. ASSUME NEW status \in {"imported", "failed"}, Imports(status) PROVE MacSideTyped' /\ vault \subseteq vault'
  <2>0. /\ companion \in [gen : 0..MaxGen, starts : SUBSET Gens, up : BOOLEAN, queue : Seq(UploadIds),
                          work : [u : UploadIds \cup {NoUpload}, stage : {"idle", "downloading", "staged"}]]
        /\ acks \in Seq(TrueAcks) /\ staged \subseteq UploadIds /\ vault \subseteq UploadIds
    BY MacSideIs DEF MacSideTyped
  <2> DEFINE u == companion.work.u
  <2>1. /\ companion.work.stage = "staged" /\ staged' = staged \ {u} /\ acks' = Append(acks, Ack(u, status))
        /\ companion' = [companion EXCEPT !.work = Idle]
        /\ IF status = "imported" THEN vault' = vault \cup {u} ELSE vault' \in {vault, vault \cup {u}}
    BY <1>22 DEF Imports
  <2>2. u \in UploadIds /\ companion.gen \in Gens
    BY <2>0, <2>1, UploadsAssumption DEF UploadInv, Downloading, Gens
  <2> HIDE DEF u
  <2>3. vault \subseteq vault' /\ vault' \subseteq UploadIds /\ (status = "imported" => u \in vault')
    BY <2>0, <2>1, <2>2
  <2>4. Ack(u, status) \in TrueAcks'
    BY <2>2, <2>3 DEF Ack, TrueAcks, Acks
  <2>5. Idle \in [u : UploadIds \cup {NoUpload}, stage : {"idle", "downloading", "staged"}]
    BY DEF Idle
  <2>6. companion' \in [gen : 0..MaxGen, starts : SUBSET Gens, up : BOOLEAN, queue : Seq(UploadIds),
                          work : [u : UploadIds \cup {NoUpload}, stage : {"idle", "downloading", "staged"}]]
    BY <2>0, <2>1, <2>5
  <2>7. acks' \in Seq(TrueAcks)'
    BY <2>1, <2>3, <2>4, AckAdded
  <2> QED BY <2>0, <2>1, <2>3, <2>6, <2>7 DEF MacSideTyped
<1>23. ASSUME NEW u \in UploadIds, NEW total \in 1..MaxChunks, NEW g \in Gens, Starts(u, total, g) PROVE MacSideTyped' /\ vault \subseteq vault'
  BY <1>23, MacSideStays DEF Starts, macSide
<1>24. ASSUME NEW r \in requests, CallFails(r) PROVE MacSideTyped' /\ vault \subseteq vault'
  BY <1>24, MacSideStays DEF CallFails, macSide
<1>25. CASE Resumes
  BY <1>25, MacSideStays DEF Resumes, macSide
<1>26. CASE Cancels
  BY <1>26, MacSideStays DEF Cancels, macSide
<1>27. CASE Artifact
  BY <1>27, MacSideStays DEF Artifact, macSide
<1>28. CASE Consumes
  BY <1>28, MacSideStays DEF Consumes, macSide
<1>29. CASE Invalidated
  BY <1>29, MacSideStays DEF Invalidated, macSide
<1> QED BY <1>1, <1>2, <1>3, <1>4, <1>5, <1>6, <1>7, <1>8, <1>9, <1>10, <1>11, <1>12, <1>13, <1>14,
    <1>15, <1>16, <1>17, <1>18, <1>19, <1>20, <1>21, <1>22, <1>23, <1>24, <1>25, <1>26, <1>27,
    <1>28, <1>29 DEF UploadNext, NextHandler, NextSocket, NextCompanion, NextPhone

\* What a step must leave of the phones' news.
ToldRight ==
  /\ told' \in [UploadIds -> Seq({"imported", "failed"})]
  /\ \A u \in UploadIds : told'[u] # <<>> => u \notin Live'
  /\ \A u \in UploadIds : Len(told'[u]) <= 1 /\ (told'[u] = <<"imported">> => u \in vault)

\* No news is told by a step that acknowledges nothing,
LEMMA ToldStays ==
  ASSUME UploadInv, UNCHANGED told, \A u \in Live' : u \in Live \/ told[u] = <<>>
  PROVE  ToldRight
  BY DEF UploadInv, TypeOK, Acknowledging, ToldOnce, ToldRight

\* In particular, they are not told anew when no session is begun.
LEMMA GensTold == ASSUME UploadInv, GensStay, UNCHANGED told PROVE ToldRight
  BY ToldStays DEF GensStay

\* Every step tells the phones no more than is true, and once.
LEMMA ToldStep ==
  ASSUME UploadInv, UploadNext
  PROVE  ToldRight
<1>1. ASSUME NEW r \in requests, BeginBinds(r) PROVE ToldRight
  BY <1>1, SpoolGens, GensTold DEF BeginBinds
<1>2. ASSUME NEW r \in requests, BeginCreates(r) PROVE ToldRight
  <2>1. told[r.u] = <<>> /\ UNCHANGED told
    <3>1. r \in Begins
      BY <1>2 DEF BeginCreates, Begins
    <3> QED BY <1>2, <3>1 DEF BeginCreates, UploadInv, Begun
  <2>2. PICK expired \in SUBSET Live :
          \/ session' = [u \in UploadIds |->
                    CASE u = r.u -> [state |-> "uploading", gen |-> r.gen, got |-> 0, total |-> r.i]
                      [] u \in expired -> NoSession
                      [] OTHER -> session[u]]
          \/ Remove(expired)
    BY <1>2 DEF BeginCreates
  <2>3. CASE Remove(expired)
    BY <2>1, <2>3, RemoveGens, GensTold
  <2>4. CASE session' = [u \in UploadIds |->
                    CASE u = r.u -> [state |-> "uploading", gen |-> r.gen, got |-> 0, total |-> r.i]
                      [] u \in expired -> NoSession
                      [] OTHER -> session[u]]
    <3> SUFFICES ASSUME NEW u \in Live', u # r.u PROVE u \in Live
      BY <2>1, ToldStays
    <3>1. u \in UploadIds /\ session'[u].state # "none"
      BY DEF Live
    <3>2. session'[u] = CASE u = r.u -> [state |-> "uploading", gen |-> r.gen, got |-> 0, total |-> r.i]
                          [] u \in expired -> NoSession
                          [] OTHER -> session[u]
      BY <2>4, <3>1
    <3>3. CASE u \in expired
      BY <3>3
    <3>4. CASE u \notin expired
      BY <3>1, <3>2, <3>4 DEF Live
    <3> QED BY <3>3, <3>4
  <2> QED BY <2>2, <2>3, <2>4
<1>3. ASSUME NEW r \in requests, BindingChecked(r) PROVE ToldRight
  BY <1>3, SpoolGens, GensTold DEF BindingChecked
<1>4. ASSUME NEW r \in requests, ChunkAccepted(r) PROVE ToldRight
  BY <1>4, SpoolGens, GensTold DEF ChunkAccepted
<1>5. ASSUME NEW r \in requests, ChunkEnds(r) PROVE ToldRight
  <2>1. UNCHANGED told /\ r.op = "chunk" /\ r.stage = "body"
    BY <1>5 DEF ChunkEnds, presence
  <2>2. CASE Remove({r.u})
    BY <2>1, <2>2, RemoveGens, GensTold
  <2>3. CASE session' = [session EXCEPT ![r.u].got = Recorded(session[r.u], r.i)]
    <3> DEFINE got == Recorded(session[r.u], r.i)
               s == [session[r.u] EXCEPT !.got = got]
    <3>1. session[r.u] \in Sessions /\ r.u \in UploadIds /\ r.u \in Live
      BY <2>1, ChunkRecorded
    <3>2. session' = [session EXCEPT ![r.u] = s]
      BY <2>3
    <3> HIDE DEF got
    <3>3. s.gen = session[r.u].gen /\ s.state # "none"
      BY <3>1 DEF Sessions
    <3> HIDE DEF s
    <3> QED BY <2>1, <3>1, <3>2, <3>3, StateGens, GensTold
  <2> QED BY <1>5, <2>2, <2>3 DEF ChunkEnds
<1>6. ASSUME NEW r \in requests, Finalizes(r) PROVE ToldRight
  <2>1. UNCHANGED told /\ r.u \in UploadIds
    BY <1>6 DEF Finalizes, presence, UploadInv, TypeOK, Requests
  <2>2. CASE Remove({r.u})
    BY <2>1, <2>2, RemoveGens, GensTold
  <2>3. CASE session[r.u].state = "uploading" /\ session' = [session EXCEPT ![r.u].state = "ready"]
    <3> DEFINE s == [session[r.u] EXCEPT !.state = "ready"]
    <3>1. session[r.u] \in Sessions /\ r.u \in Live
      <4>1. session[r.u] \in Sessions \cup {NoSession}
        BY <2>1 DEF UploadInv, TypeOK
      <4> QED BY <2>1, <2>3, <4>1 DEF NoSession, Live
    <3>2. session' = [session EXCEPT ![r.u] = s]
      BY <2>3
    <3>3. s.gen = session[r.u].gen /\ s.state # "none"
      BY <3>1 DEF Sessions
    <3> HIDE DEF s
    <3> QED BY <2>1, <3>1, <3>2, <3>3, StateGens, GensTold
  <2>4. CASE UNCHANGED spool
    BY <2>1, <2>4, SpoolGens, GensTold
  <2> QED BY <1>6, <2>2, <2>3, <2>4 DEF Finalizes
<1>7. ASSUME NEW r \in requests, Rechecked(r) PROVE ToldRight
  BY <1>7, SpoolGens, GensTold DEF Rechecked
<1>8. ASSUME NEW r \in requests, Aborts(r) PROVE ToldRight
  <2>1. Remove({r.u}) /\ UNCHANGED told
    BY <1>8 DEF Aborts, presence
  <2> QED BY <2>1, RemoveGens, GensTold
<1>9. ASSUME NEW r \in requests, StreamOpens(r) PROVE ToldRight
  BY <1>9, SpoolGens, GensTold DEF StreamOpens
<1>10. ASSUME NEW r \in requests, StreamEnds(r) PROVE ToldRight
  BY <1>10, SpoolGens, GensTold DEF StreamEnds
<1>11. ASSUME NEW u \in UploadIds, Cleanup(u) PROVE ToldRight
  <2>1. Remove({u}) /\ UNCHANGED told
    BY <1>11 DEF Cleanup, presence
  <2> QED BY <2>1, RemoveGens, GensTold
<1>12. CASE AckHandled
  <2> DEFINE a == Head(acks)
  <2>1. acks # <<>>
    BY <1>12 DEF AckHandled
  <2>2. a \in TrueAcks /\ a.u \in UploadIds /\ a.gen # 0 /\ a.status \in {"imported", "failed"}
    <3>1. a \in TrueAcks
      BY <2>1, MacSideIs, HeadTailProperties DEF MacSideTyped
    <3> HIDE DEF a
    <3>2. a.gen \in Gens
      BY <3>1 DEF TrueAcks, Acks
    <3> QED BY <3>1, <3>2, UploadsAssumption DEF TrueAcks, Acks, Gens
  <2> HIDE DEF a
  <2>3. CASE UNCHANGED spool /\ UNCHANGED told
    BY <2>3, SpoolGens, GensTold
  <2>4. CASE /\ session[a.u].gen = a.gen /\ Acknowledged(a.u, a.gen)
             /\ told' = [told EXCEPT ![a.u] = Append(@, a.status)]
    <3>1. a.u \in Live
      <4>1. session[a.u] \in Sessions \cup {NoSession}
        BY <2>2 DEF UploadInv, TypeOK
      <4>2. session[a.u] # NoSession
        BY <2>2, <2>4 DEF NoSession
      <4> QED BY <2>2, <4>1, <4>2 DEF Live, Sessions
    <3>2. told[a.u] = <<>> /\ told \in [UploadIds -> Seq({"imported", "failed"})]
      BY <2>2, <3>1 DEF UploadInv, TypeOK, Acknowledging
    <3>3. told'[a.u] = <<a.status>> /\ \A u \in UploadIds : u # a.u => told'[u] = told[u]
      BY <2>2, <2>4, <3>2
    <3>4. Live' = Live \ {a.u}
      BY <2>4, RemoveGens DEF Acknowledged
    <3>5. told' \in [UploadIds -> Seq({"imported", "failed"})]
      <4>1. Append(told[a.u], a.status) \in Seq({"imported", "failed"})
        BY <2>2, <3>2, AppendProperties
      <4> QED BY <2>2, <2>4, <3>2, <4>1
    <3>6. <<a.status>> = <<"imported">> => a.u \in vault
      BY <2>2 DEF TrueAcks
    <3>7. Len(<<a.status>>) = 1 /\ <<a.status>> # <<>>
      OBVIOUS
    <3>8. \A u \in UploadIds : told'[u] # <<>> => u \notin Live'
      BY <3>3, <3>4 DEF UploadInv, Acknowledging
    <3>9. \A u \in UploadIds : Len(told'[u]) <= 1 /\ (told'[u] = <<"imported">> => u \in vault)
      <4> SUFFICES ASSUME NEW u \in UploadIds
                   PROVE  Len(told'[u]) <= 1 /\ (told'[u] = <<"imported">> => u \in vault)
        OBVIOUS
      <4>1. CASE u = a.u
        <5>1. told'[u] = <<a.status>>
          BY <3>3, <4>1
        <5> QED BY <3>6, <3>7, <4>1, <5>1
      <4>2. CASE u # a.u
        BY <3>3, <4>2 DEF UploadInv, ToldOnce
      <4> QED BY <4>1, <4>2
    <3> QED BY <3>5, <3>8, <3>9 DEF ToldRight
  <2> QED BY <1>12, <2>3, <2>4 DEF AckHandled, a
<1>13. CASE Restart
  <2>1. Live' = {} /\ UNCHANGED told
    BY <1>13 DEF Restart, Live, NoSession
  <2> QED BY <2>1, ToldStays
<1>14. ASSUME NEW g \in Gens, MacRegisters(g) PROVE ToldRight
  BY <1>14, SpoolGens, GensTold DEF MacRegisters
<1>15. ASSUME NEW g \in Gens, OthersAborted(g) PROVE ToldRight
  <2>1. Remove({u \in Live : session[u].gen # g}) /\ UNCHANGED told
    BY <1>15 DEF OthersAborted
  <2> QED BY <2>1, RemoveGens, GensTold
<1>16. ASSUME NEW g \in Gens, SocketEnds(g) PROVE ToldRight
  BY <1>16, SpoolGens, GensTold DEF SocketEnds
<1>17. ASSUME NEW g \in Gens, BindingAborted(g) PROVE ToldRight
  <2>1. Remove({u \in Live : session[u].gen = g}) /\ UNCHANGED told
    BY <1>17 DEF BindingAborted
  <2> QED BY <2>1, RemoveGens, GensTold
<1>18. CASE Connects
  BY <1>18, SpoolGens, GensTold DEF Connects
<1>19. CASE Disconnects
  BY <1>19, SpoolGens, GensTold DEF Disconnects
<1>20. CASE DownloadStarts
  BY <1>20, SpoolGens, GensTold DEF DownloadStarts
<1>21. ASSUME NEW r \in requests, DownloadEnds(r) PROVE ToldRight
  BY <1>21, SpoolGens, GensTold DEF DownloadEnds
<1>22. ASSUME NEW status \in {"imported", "failed"}, Imports(status) PROVE ToldRight
  BY <1>22, SpoolGens, GensTold DEF Imports
<1>23. ASSUME NEW u \in UploadIds, NEW total \in 1..MaxChunks, NEW g \in Gens, Starts(u, total, g) PROVE ToldRight
  BY <1>23, SpoolGens, GensTold DEF Starts
<1>24. ASSUME NEW r \in requests, CallFails(r) PROVE ToldRight
  BY <1>24, SpoolGens, GensTold DEF CallFails
<1>25. CASE Resumes
  BY <1>25, SpoolGens, GensTold DEF Resumes
<1>26. CASE Cancels
  BY <1>26, SpoolGens, GensTold DEF Cancels
<1>27. CASE Artifact
  BY <1>27, SpoolGens, GensTold DEF Artifact
<1>28. CASE Consumes
  BY <1>28, SpoolGens, GensTold DEF Consumes
<1>29. CASE Invalidated
  BY <1>29, SpoolGens, GensTold DEF Invalidated
<1> QED BY <1>1, <1>2, <1>3, <1>4, <1>5, <1>6, <1>7, <1>8, <1>9, <1>10, <1>11, <1>12, <1>13, <1>14,
    <1>15, <1>16, <1>17, <1>18, <1>19, <1>20, <1>21, <1>22, <1>23, <1>24, <1>25, <1>26, <1>27,
    <1>28, <1>29 DEF UploadNext, NextHandler, NextSocket, NextCompanion, NextPhone

-----------------------------------------------------------------------------
(* The locks, the sockets and the counters.                                *)

Fixtures ==
  /\ tombs \in [UploadIds -> 0..MaxGen]
  /\ lock \in UploadIds \cup {NoUpload} /\ held \in UploadIds \cup {NoUpload}
  /\ mac \in 0..MaxGen /\ socket \in [Gens -> SocketStates] /\ used \in 0..MaxUploads

Others == Fixtures /\ faults \in 0..MaxFaults

\* The bound on faults.
LEMMA FaultsCount ==
  ASSUME UploadInv, Fault \/ UNCHANGED faults, Fixtures' PROVE Others'
<1>1. faults \in 0..MaxFaults
  BY DEF UploadInv, TypeOK
<1>2. faults' \in 0..MaxFaults
  BY <1>1, UploadsAssumption DEF Fault
<1> QED BY <1>2 DEF Others

\* A step that leaves locks, sockets and tombstones alone.
LEMMA FixturesStay ==
  ASSUME UploadInv, UNCHANGED <<tombs, lock, held, mac, socket, used>> PROVE Fixtures'
  BY DEF UploadInv, TypeOK, Fixtures

\* Every step keeps the types of locks, sockets, tombstones and counters.
LEMMA OthersStep ==
  ASSUME UploadInv, UploadNext
  PROVE  Others'
<1>1. ASSUME NEW r \in requests, BeginBinds(r) PROVE Others'
  <2>1. Fault \/ UNCHANGED faults
    BY <1>1 DEF BeginBinds, FaultUnless, Fault
  <2>2. Fixtures'
    <3>0. Fixtures
      BY DEF UploadInv, TypeOK, Fixtures
    <3>1. r.u \in UploadIds
      BY DEF UploadInv, TypeOK, Requests
    <3>2. UNCHANGED <<tombs, lock, mac, socket, used>> /\ held' \in {held, r.u, NoUpload}
      BY <1>1 DEF BeginBinds, presence
    <3> QED BY <3>0, <3>1, <3>2 DEF Fixtures
  <2> QED BY <2>1, <2>2, FaultsCount
<1>2. ASSUME NEW r \in requests, BeginCreates(r) PROVE Others'
  <2>1. Fault \/ UNCHANGED faults
    BY <1>2 DEF BeginCreates, FaultUnless, Fault
  <2>2. Fixtures'
    <3>0. Fixtures
      BY DEF UploadInv, TypeOK, Fixtures
    <3>1. r.u \in UploadIds
      BY DEF UploadInv, TypeOK, Requests
    <3>2. UNCHANGED <<tombs, lock, mac, socket, used>> /\ held' \in {held, r.u, NoUpload}
      BY <1>2 DEF BeginCreates, presence
    <3> QED BY <3>0, <3>1, <3>2 DEF Fixtures
  <2> QED BY <2>1, <2>2, FaultsCount
<1>3. ASSUME NEW r \in requests, BindingChecked(r) PROVE Others'
  BY <1>3, FixturesStay, FaultsCount DEF BindingChecked, FaultUnless, presence, phoneSide
<1>4. ASSUME NEW r \in requests, ChunkAccepted(r) PROVE Others'
  <2>1. Fault \/ UNCHANGED faults
    BY <1>4 DEF ChunkAccepted, FaultUnless, Fault
  <2>2. Fixtures'
    <3>0. Fixtures
      BY DEF UploadInv, TypeOK, Fixtures
    <3>1. r.u \in UploadIds
      BY DEF UploadInv, TypeOK, Requests
    <3>2. UNCHANGED <<tombs, held, mac, socket, used>> /\ lock' \in {lock, r.u, NoUpload}
      BY <1>4 DEF ChunkAccepted, presence
    <3> QED BY <3>0, <3>1, <3>2 DEF Fixtures
  <2> QED BY <2>1, <2>2, FaultsCount
<1>5. ASSUME NEW r \in requests, ChunkEnds(r) PROVE Others'
  <2>1. Fault \/ UNCHANGED faults
    BY <1>5 DEF ChunkEnds, FaultUnless, Fault
  <2>2. Fixtures'
    <3>0. Fixtures
      BY DEF UploadInv, TypeOK, Fixtures
    <3>1. r.u \in UploadIds
      BY DEF UploadInv, TypeOK, Requests
    <3>2. UNCHANGED <<tombs, held, mac, socket, used>> /\ lock' \in {lock, r.u, NoUpload}
      BY <1>5 DEF ChunkEnds, presence
    <3> QED BY <3>0, <3>1, <3>2 DEF Fixtures
  <2> QED BY <2>1, <2>2, FaultsCount
<1>6. ASSUME NEW r \in requests, Finalizes(r) PROVE Others'
  BY <1>6, FixturesStay, FaultsCount DEF Finalizes, FaultUnless, presence, phoneSide
<1>7. ASSUME NEW r \in requests, Rechecked(r) PROVE Others'
  BY <1>7, FixturesStay, FaultsCount DEF Rechecked, FaultUnless, presence, phoneSide
<1>8. ASSUME NEW r \in requests, Aborts(r) PROVE Others'
  BY <1>8, FixturesStay, FaultsCount DEF Aborts, FaultUnless, presence, phoneSide
<1>9. ASSUME NEW r \in requests, StreamOpens(r) PROVE Others'
  BY <1>9, FixturesStay, FaultsCount DEF StreamOpens, FaultUnless, presence, phoneSide
<1>10. ASSUME NEW r \in requests, StreamEnds(r) PROVE Others'
  BY <1>10, FixturesStay, FaultsCount DEF StreamEnds, FaultUnless, presence, phoneSide
<1>11. ASSUME NEW u \in UploadIds, Cleanup(u) PROVE Others'
  BY <1>11, FixturesStay, FaultsCount DEF Cleanup, FaultUnless, presence, phoneSide
<1>12. CASE AckHandled
  <2>1. Fault \/ UNCHANGED faults
    BY <1>12 DEF AckHandled, FaultUnless, Fault
  <2>2. Fixtures'
    <3>0. Fixtures
      BY DEF UploadInv, TypeOK, Fixtures
    <3> DEFINE a == Head(acks)
    <3>1. acks # <<>> /\ UNCHANGED <<lock, held, mac, used>>
      BY <1>12 DEF AckHandled, phoneSide
    <3>2. a.u \in UploadIds /\ a.gen \in Gens
      <4>1. a \in TrueAcks
        BY <3>1, MacSideIs, HeadTailProperties DEF MacSideTyped
      <4> QED BY <4>1 DEF TrueAcks, Acks
    <3> HIDE DEF a
    <3>3. tombs' \in {tombs, [tombs EXCEPT ![a.u] = a.gen]} /\ socket' \in {socket, [socket EXCEPT ![a.gen] = "ended"]}
      BY <1>12 DEF AckHandled, Acknowledged, a
    <3>4. a.gen \in 0..MaxGen
      BY <3>2, UploadsAssumption DEF Gens
    <3>5. tombs' \in [UploadIds -> 0..MaxGen]
      BY <3>0, <3>3, <3>4 DEF Fixtures
    <3>6. socket' \in [Gens -> SocketStates]
      BY <3>0, <3>3 DEF Fixtures, SocketStates
    <3> QED BY <3>0, <3>1, <3>5, <3>6 DEF Fixtures
  <2> QED BY <2>1, <2>2, FaultsCount
<1>13. CASE Restart
  <2>1. Fault \/ UNCHANGED faults
    BY <1>13 DEF Restart, FaultUnless, Fault
  <2>2. Fixtures'
    <3>0. Fixtures
      BY DEF UploadInv, TypeOK, Fixtures
    <3>1. /\ tombs' = [u \in UploadIds |-> 0] /\ lock' = NoUpload /\ held' = NoUpload /\ mac' = 0 /\ used' = used
          /\ socket' = [g \in Gens |-> IF socket[g] = "none" THEN "none" ELSE "closed"]
      BY <1>13 DEF Restart
    <3>2. 0 \in 0..MaxGen
      BY UploadsAssumption
    <3>3. socket' \in [Gens -> SocketStates]
      BY <3>1 DEF SocketStates
    <3> QED BY <3>0, <3>1, <3>2, <3>3 DEF Fixtures
  <2> QED BY <2>1, <2>2, FaultsCount
<1>14. ASSUME NEW g \in Gens, MacRegisters(g) PROVE Others'
  <2>1. Fault \/ UNCHANGED faults
    BY <1>14 DEF MacRegisters, FaultUnless, Fault
  <2>2. Fixtures'
    <3>0. Fixtures
      BY DEF UploadInv, TypeOK, Fixtures
    <3>1. /\ UNCHANGED <<tombs, lock, held, used>> /\ mac' \in {mac, g, 0}
          /\ \E st \in SocketStates : socket' = [socket EXCEPT ![g] = st]
      BY <1>14 DEF MacRegisters, phoneSide, SocketStates
    <3>2. g \in 0..MaxGen /\ 0 \in 0..MaxGen
      BY UploadsAssumption DEF Gens
    <3>3. socket' \in [Gens -> SocketStates]
      BY <3>0, <3>1 DEF Fixtures
    <3> QED BY <3>0, <3>1, <3>2, <3>3 DEF Fixtures
  <2> QED BY <2>1, <2>2, FaultsCount
<1>15. ASSUME NEW g \in Gens, OthersAborted(g) PROVE Others'
  <2>1. Fault \/ UNCHANGED faults
    BY <1>15 DEF OthersAborted, FaultUnless, Fault
  <2>2. Fixtures'
    <3>0. Fixtures
      BY DEF UploadInv, TypeOK, Fixtures
    <3>1. /\ UNCHANGED <<tombs, lock, held, used>> /\ mac' \in {mac, g, 0}
          /\ \E st \in SocketStates : socket' = [socket EXCEPT ![g] = st]
      BY <1>15 DEF OthersAborted, phoneSide, SocketStates
    <3>2. g \in 0..MaxGen /\ 0 \in 0..MaxGen
      BY UploadsAssumption DEF Gens
    <3>3. socket' \in [Gens -> SocketStates]
      BY <3>0, <3>1 DEF Fixtures
    <3> QED BY <3>0, <3>1, <3>2, <3>3 DEF Fixtures
  <2> QED BY <2>1, <2>2, FaultsCount
<1>16. ASSUME NEW g \in Gens, SocketEnds(g) PROVE Others'
  <2>1. Fault \/ UNCHANGED faults
    BY <1>16 DEF SocketEnds, FaultUnless, Fault
  <2>2. Fixtures'
    <3>0. Fixtures
      BY DEF UploadInv, TypeOK, Fixtures
    <3>1. /\ UNCHANGED <<tombs, lock, held, used>> /\ mac' \in {mac, g, 0}
          /\ \E st \in SocketStates : socket' = [socket EXCEPT ![g] = st]
      BY <1>16 DEF SocketEnds, phoneSide, SocketStates
    <3>2. g \in 0..MaxGen /\ 0 \in 0..MaxGen
      BY UploadsAssumption DEF Gens
    <3>3. socket' \in [Gens -> SocketStates]
      BY <3>0, <3>1 DEF Fixtures
    <3> QED BY <3>0, <3>1, <3>2, <3>3 DEF Fixtures
  <2> QED BY <2>1, <2>2, FaultsCount
<1>17. ASSUME NEW g \in Gens, BindingAborted(g) PROVE Others'
  <2>1. Fault \/ UNCHANGED faults
    BY <1>17 DEF BindingAborted, FaultUnless, Fault
  <2>2. Fixtures'
    <3>0. Fixtures
      BY DEF UploadInv, TypeOK, Fixtures
    <3>1. /\ UNCHANGED <<tombs, lock, held, used>> /\ mac' \in {mac, g, 0}
          /\ \E st \in SocketStates : socket' = [socket EXCEPT ![g] = st]
      BY <1>17 DEF BindingAborted, phoneSide, SocketStates
    <3>2. g \in 0..MaxGen /\ 0 \in 0..MaxGen
      BY UploadsAssumption DEF Gens
    <3>3. socket' \in [Gens -> SocketStates]
      BY <3>0, <3>1 DEF Fixtures
    <3> QED BY <3>0, <3>1, <3>2, <3>3 DEF Fixtures
  <2> QED BY <2>1, <2>2, FaultsCount
<1>18. CASE Connects
  <2>1. Fault \/ UNCHANGED faults
    BY <1>18 DEF Connects, FaultUnless, Fault
  <2>2. Fixtures'
    <3>0. Fixtures
      BY DEF UploadInv, TypeOK, Fixtures
    <3>1. /\ UNCHANGED <<tombs, lock, held, used, mac>>
          /\ socket' = [socket EXCEPT ![companion.gen + 1] = "hello"]
      BY <1>18 DEF Connects, phoneSide
    <3> QED BY <3>0, <3>1 DEF Fixtures, SocketStates
  <2> QED BY <2>1, <2>2, FaultsCount
<1>19. CASE Disconnects
  BY <1>19, FixturesStay, FaultsCount DEF Disconnects, FaultUnless, presence, phoneSide
<1>20. CASE DownloadStarts
  BY <1>20, FixturesStay, FaultsCount DEF DownloadStarts, FaultUnless, presence, phoneSide
<1>21. ASSUME NEW r \in requests, DownloadEnds(r) PROVE Others'
  BY <1>21, FixturesStay, FaultsCount DEF DownloadEnds, FaultUnless, presence, phoneSide
<1>22. ASSUME NEW status \in {"imported", "failed"}, Imports(status) PROVE Others'
  BY <1>22, FixturesStay, FaultsCount DEF Imports, FaultUnless, presence, phoneSide
<1>23. ASSUME NEW u \in UploadIds, NEW total \in 1..MaxChunks, NEW g \in Gens, Starts(u, total, g) PROVE Others'
  <2>1. Fault \/ UNCHANGED faults
    BY <1>23 DEF Starts, FaultUnless, Fault
  <2>2. Fixtures'
    <3>0. Fixtures
      BY DEF UploadInv, TypeOK, Fixtures
    <3>1. UNCHANGED <<tombs, lock, held, mac, socket>> /\ used' = u
      BY <1>23 DEF Starts, presence
    <3> QED BY <3>0, <3>1, UploadsAssumption DEF Fixtures, UploadIds
  <2> QED BY <2>1, <2>2, FaultsCount
<1>24. ASSUME NEW r \in requests, CallFails(r) PROVE Others'
  BY <1>24, FixturesStay, FaultsCount DEF CallFails, FaultUnless, presence, phoneSide
<1>25. CASE Resumes
  BY <1>25, FixturesStay, FaultsCount DEF Resumes, FaultUnless, presence, phoneSide
<1>26. CASE Cancels
  BY <1>26, FixturesStay, FaultsCount DEF Cancels, FaultUnless, presence, phoneSide
<1>27. CASE Artifact
  BY <1>27, FixturesStay, FaultsCount DEF Artifact, FaultUnless, presence, phoneSide
<1>28. CASE Consumes
  BY <1>28, FixturesStay, FaultsCount DEF Consumes, FaultUnless, presence, phoneSide
<1>29. CASE Invalidated
  BY <1>29, FixturesStay, FaultsCount DEF Invalidated, FaultUnless, presence, phoneSide
<1> QED BY <1>1, <1>2, <1>3, <1>4, <1>5, <1>6, <1>7, <1>8, <1>9, <1>10, <1>11, <1>12, <1>13, <1>14,
    <1>15, <1>16, <1>17, <1>18, <1>19, <1>20, <1>21, <1>22, <1>23, <1>24, <1>25, <1>26, <1>27,
    <1>28, <1>29 DEF UploadNext, NextHandler, NextSocket, NextCompanion, NextPhone

-----------------------------------------------------------------------------
(* The invariant and the theorems.                                         *)

\* The invariant holds at the start
LEMMA UploadInvInit == Init => UploadInv
<1> SUFFICES ASSUME Init PROVE UploadInv
  OBVIOUS
<1>1. /\ session = [u \in UploadIds |-> NoSession]
      /\ slots = {} /\ parts = {} /\ blobs = {} /\ tombs = [u \in UploadIds |-> 0]
      /\ lock = NoUpload /\ held = NoUpload /\ mac = 0 /\ socket = [g \in Gens |-> "none"]
      /\ requests = {} /\ phone = NoItem /\ used = 0
      /\ companion = [gen |-> 0, starts |-> {}, up |-> FALSE, queue |-> <<>>, work |-> Idle]
      /\ acks = <<>> /\ staged = {} /\ vault = {} /\ told = [u \in UploadIds |-> <<>>] /\ faults = 0
  BY DEF Init
<1>2. 0 \in 0..MaxGen /\ 0 \in 0..MaxChunks /\ 0 \in 0..MaxUploads /\ 0 \in 0..MaxFaults
  BY UploadsAssumption
<1>3. Live = {} /\ Begins = {} /\ Bodies = {} /\ PhoneCalls = {} /\ Downloads = {}
  BY <1>1 DEF Live, NoSession, Begins, Bodies, PhoneCalls, Downloads
<1>4. /\ phone.st = "idle" /\ phone.u = 0 /\ phone.i = 0 /\ phone.total = 0 /\ phone.gen = 0
      /\ ~phone.resumed /\ PhoneTyped
  BY <1>1, <1>2 DEF NoItem, NoUpload, PhoneTyped, ItemStates
<1>5. TypeOK
  <2>1. companion \in [gen : 0..MaxGen, starts : SUBSET Gens, up : BOOLEAN, queue : Seq(UploadIds),
                       work : [u : UploadIds \cup {NoUpload}, stage : {"idle", "downloading", "staged"}]]
    BY <1>1, <1>2, EmptySeq DEF Idle
  <2>2. acks \in Seq(Acks) /\ told \in [UploadIds -> Seq({"imported", "failed"})]
    BY <1>1, EmptySeq
  <2>3. socket \in [Gens -> SocketStates]
    BY <1>1 DEF SocketStates
  <2> QED BY <1>1, <1>2, <1>4, <2>1, <2>2, <2>3 DEF TypeOK, PhoneTyped
<1>6. Asked /\ Begun /\ Bound /\ Reading /\ Counted
  BY <1>1, <1>3, <1>4 DEF Asked, Begun, Bound, Reading, Counted, NoUpload
<1>7. Downloading
  BY <1>1, <1>3, <1>4 DEF Downloading, Idle
<1>8. Acknowledging /\ ToldOnce
  <2>1. acks \in Seq(TrueAcks)
    BY <1>1, EmptySeq
  <2>2. \A u \in UploadIds : told[u] = <<>>
    BY <1>1
  <2>3. Len(<<>>) = 0 /\ <<>> # <<"imported">>
    OBVIOUS
  <2>4. ToldOnce
    BY <2>2, <2>3 DEF ToldOnce
  <2> QED BY <2>1, <2>2, <2>4 DEF Acknowledging
<1>9. SpoolIsAccounted /\ UploadsFollowTheMac
  BY <1>1, <1>3, FS_EmptySet, UploadsAssumption DEF SpoolIsAccounted, UploadsFollowTheMac
<1> QED BY <1>5, <1>6, <1>7, <1>8, <1>9 DEF UploadInv

\* Every step keeps the invariant.
LEMMA UploadInvStep == UploadInv /\ [UploadNext]_vars => UploadInv'
<1>1. ASSUME UploadInv, UploadNext PROVE UploadInv'
  <2>1. Asked' /\ requests' \subseteq Requests /\ PhoneTyped'
    BY <1>1, CallsStep DEF Calls
  <2>2. SpoolTyped' /\ SpoolIsAccounted' /\ Begun' /\ Bound' /\ Reading' /\ Counted'
    BY <1>1, SessionsStep DEF Kept
  <2>3. UploadsFollowTheMac' /\ Downloading'
    BY <1>1, MacStep, CompanionStep
  <2>4. MacSideTyped' /\ vault \subseteq vault'
    BY <1>1, MacSideStep
  <2>5. ToldRight
    BY <1>1, ToldStep
  <2>6. Others'
    BY <1>1, OthersStep
  <2>7. acks' \in Seq(Acks)
    <3>1. TrueAcks' \subseteq Acks
      BY DEF TrueAcks, Acks
    <3> QED BY <2>4, <3>1, SeqGrows DEF MacSideTyped
  <2>8. TypeOK'
    BY <2>1, <2>2, <2>4, <2>5, <2>6, <2>7
       DEF TypeOK, PhoneTyped, SpoolTyped, MacSideTyped, ToldRight, Others, Fixtures, Acks
  <2>9. Acknowledging' /\ ToldOnce'
    BY <2>4, <2>5 DEF Acknowledging, MacSideTyped, ToldRight, ToldOnce
  <2> QED BY <2>1, <2>2, <2>3, <2>8, <2>9 DEF UploadInv
<1>2. ASSUME UploadInv, UNCHANGED vars PROVE UploadInv'
  <2>1. /\ UNCHANGED session /\ UNCHANGED slots /\ UNCHANGED parts /\ UNCHANGED blobs /\ UNCHANGED tombs
        /\ UNCHANGED lock /\ UNCHANGED held /\ UNCHANGED mac /\ UNCHANGED socket /\ UNCHANGED requests
        /\ UNCHANGED phone /\ UNCHANGED used /\ UNCHANGED companion /\ UNCHANGED acks
        /\ UNCHANGED staged /\ UNCHANGED vault /\ UNCHANGED told /\ UNCHANGED faults
    BY <1>2 DEF vars
  <2>2. Live' = Live /\ Begins' = Begins /\ Bodies' = Bodies /\ PhoneCalls' = PhoneCalls
        /\ Downloads' = Downloads /\ TrueAcks' = TrueAcks /\ Acks' = Acks
    BY <2>1 DEF Live, Begins, Bodies, PhoneCalls, Downloads, TrueAcks, Acks
  <2>3. TypeOK'
    BY <1>2, <2>1, <2>2 DEF UploadInv, TypeOK
  <2>4. Asked' /\ Begun' /\ Bound' /\ Reading' /\ Counted'
    BY <1>2, <2>1, <2>2 DEF UploadInv, Asked, Begun, Bound, Reading, Counted
  <2>5. Downloading' /\ Acknowledging' /\ ToldOnce'
    BY <1>2, <2>1, <2>2 DEF UploadInv, Downloading, Acknowledging, ToldOnce
  <2>6. SpoolIsAccounted' /\ UploadsFollowTheMac'
    BY <1>2, <2>1, <2>2 DEF UploadInv, SpoolIsAccounted, UploadsFollowTheMac
  <2> QED BY <2>3, <2>4, <2>5, <2>6 DEF UploadInv
<1> QED BY <1>1, <1>2

\* The phone, the handlers, the spool and the Companion keep the shape of their
\* state for any number of uploads, chunks, connections and requests.
THEOREM UploadsAreTyped == Spec => []TypeOK
<1>1. UploadInv => TypeOK
  BY DEF UploadInv
<1> QED BY <1>1, UploadInvInit, UploadInvStep, PTL DEF Spec

\* Sessions, slots and files of the spool agree at every moment, whoever hangs
\* up, dies or restarts, and the limit of an installation holds.
THEOREM SpoolStaysAccounted == Spec => []SpoolIsAccounted
<1>1. UploadInv => SpoolIsAccounted
  BY DEF UploadInv
<1> QED BY <1>1, UploadInvInit, UploadInvStep, PTL DEF Spec

\* No upload outlives the connection of its Mac without a handler that is
\* about to abort it.
THEOREM UploadsStayWithTheMac == Spec => []UploadsFollowTheMac
<1>1. UploadInv => UploadsFollowTheMac
  BY DEF UploadInv
<1> QED BY <1>1, UploadInvInit, UploadInvStep, PTL DEF Spec

\* The phones hear of an upload once at most, and of an import only when the
\* vault has the file.
THEOREM PhonesAreToldOnce == Spec => []ToldOnce
<1>1. UploadInv => ToldOnce
  BY DEF UploadInv
<1> QED BY <1>1, UploadInvInit, UploadInvStep, PTL DEF Spec

=============================================================================
