---------------------------- MODULE DeviceAccess ----------------------------
(***************************************************************************)
(* How a phone gets a credential, uses it and loses it:                    *)
(*   gateway/relay/pairing.py       claims, credentials, the delivery slot *)
(*   gateway/relay/auth.py          verifiers, tickets, command boundary   *)
(*   gateway/relay/app.py           the handlers, and mobile_websocket     *)
(*   gateway/relay/websocket_hub.py the registered mobiles of a device     *)
(*   src/mobile/pairing-controller.js, src/storage/device-store.js         *)
(* A claim made on the Mac is redeemed once; redemption inserts the        *)
(* credential at once and leaves its secret in a slot of the process,      *)
(* which a second request empties.  Revocation runs beside tickets that    *)
(* were asked for, sockets that are registering and commands on their way. *)
(* A credential is named by its claim; the record in the database and the  *)
(* authenticator's change in one step of the event loop, so one variable   *)
(* stands for both, and the generation, which moves only with a            *)
(* revocation, for its revoked flag.  One device pairs and pairs again.    *)
(***************************************************************************)
EXTENDS Integers, FiniteSets

CONSTANTS
    MaxClaims,      \* bound: claims made on the Mac
    MaxSockets,     \* bound: connections of the device at one time
    MaxAttempts,    \* max_attempts of a claim and of a requester
    MaxCalls,       \* bound: requests of the pairing under way
    MaxFaults       \* bound: lost answers, restarts, failed writes

ASSUME DeviceAssumption ==
    /\ MaxClaims \in Nat /\ MaxSockets \in Nat /\ MaxAttempts \in Nat \ {0}
    /\ MaxCalls \in Nat /\ MaxFaults \in Nat

VARIABLES
    claims,     \* pairing_claims: state, failed attempts, expires_at passed
    creds,      \* device_credentials and TokenAuthenticator._records
    slot,       \* _issuance: secrets that wait to be collected
    window,     \* _request_attempts of each requester
    sockets,    \* the phone's connections, from the ticket on
    mobiles,    \* WebSocketHub._mobiles
    command,    \* a command on its way through its handler
    closing,    \* revoke_pairing_device is between revocation and closing
    phone,      \* the plugin: stored identity, token in memory, pending claim
    calls,      \* redeem and complete requests under way
    faults      \* counter of the bound

pairing == <<claims, creds, slot, window>>
access == <<sockets, mobiles, command, closing>>
vars == <<claims, creds, slot, window, sockets, mobiles, command, closing,
          phone, calls, faults>>

Claims == 1..MaxClaims
None == 0
Sockets == 1..MaxSockets
Requesters == {"phone"}   \* the address the phone shares with whoever guesses
ClaimStates == {"none", "created", "pending_approval", "approved", "issued", "rejected",
                "expired", "attempts_exhausted", "credential_delivery_expired", "deleted"}
TerminalStatuses == {"issued", "rejected", "expired", "attempts_exhausted",
                     "credential_delivery_expired"}
SocketStates == {"none", "ticket", "admitted", "registered", "open"}
NoSocket == [st |-> "none", cred |-> None]
NoCommand == [st |-> "none", cred |-> None]

ClaimRecord == [st : ClaimStates, tries : 0..MaxAttempts, due : BOOLEAN]
Socket == [st : SocketStates, cred : Claims \cup {None}]
Phone == [identity : Claims \cup {None}, token : Claims \cup {None},
          pending : Claims \cup {None}, poll : {"off", "wait", "call"}]
Call == [op : {"redeem", "complete"}, claim : Claims, live : BOOLEAN, heard : BOOLEAN]

PairingTypeOK ==
    /\ claims \in [Claims -> ClaimRecord]
    /\ creds \in [Claims -> {"none", "active", "revoked"}]
    /\ slot \subseteq Claims
    /\ window \in [Requesters -> 0..MaxAttempts]

AccessTypeOK ==
    /\ sockets \in [Sockets -> Socket]
    /\ mobiles \subseteq Sockets
    /\ command \in [st : {"none", "sent", "routing"}, cred : Claims \cup {None}]
    /\ closing \in BOOLEAN

PhoneTypeOK == phone \in Phone /\ calls \subseteq Call

TypeOK == PairingTypeOK /\ AccessTypeOK /\ PhoneTypeOK /\ faults \in 0..MaxFaults

\* A relay that still waited for approvals may have left a claim behind.
Init ==
    /\ \E L \in SUBSET (Claims \cap {1}) :
          /\ claims = [c \in Claims |->
                 [st |-> IF c \in L THEN "pending_approval" ELSE "none", tries |-> 0,
                  due |-> FALSE]]
          /\ phone = [identity |-> None, token |-> None,
                      pending |-> IF L = {} THEN None ELSE 1,
                      poll |-> IF L = {} THEN "off" ELSE "wait"]
    /\ creds = [c \in Claims |-> "none"]
    /\ slot = {} /\ window = [q \in Requesters |-> 0]
    /\ sockets = [k \in Sockets |-> NoSocket] /\ mobiles = {}
    /\ command = NoCommand /\ closing = FALSE
    /\ calls = {} /\ faults = 0

Fault == faults < MaxFaults /\ faults' = faults + 1
Active(c) == c \in Claims /\ creds[c] = "active"
Revoked(C) == [c \in Claims |->
    IF c \in C /\ creds[c] = "active" THEN "revoked" ELSE creds[c]]

----------------------------------------------------------------------------
(* PairingStore.  Every operation holds its lock and awaits nothing else.  *)

CreateClaim(c) ==
    /\ claims[c].st = "none" /\ \A b \in 1..(c - 1) : claims[b].st # "none"
    /\ claims' = [claims EXCEPT ![c].st = "created"]
    /\ UNCHANGED <<creds, slot, window, access, phone, calls, faults>>

Lapses(c) ==
    /\ claims[c].st \in {"created", "pending_approval", "approved"} /\ ~claims[c].due
    /\ claims' = [claims EXCEPT ![c].due = TRUE]
    /\ UNCHANGED <<creds, slot, window, access, phone, calls, faults>>

Due == {c \in Claims : claims[c].due /\
            claims[c].st \in {"created", "pending_approval", "approved"}}

\* What expiry makes of a claim: an undelivered credential is revoked.
Ended(st) == IF st = "approved" THEN "credential_delivery_expired" ELSE "expired"
Expire(C) ==
    /\ claims' = [c \in Claims |-> IF c \in C THEN [claims[c] EXCEPT !.st = Ended(@)]
                                   ELSE claims[c]]
    /\ slot' = slot \ C
    /\ creds' = Revoked({c \in C : claims[c].st = "approved"})

\* The prune loop, once a minute.  Mutant: it deletes only.
ExpireClaimsUnredeemed ==
    /\ Due # {} /\ Expire({c \in Due : claims[c].st = "created"})
    /\ UNCHANGED <<window, access, phone, calls, faults>>
ExpireClaims ==
    /\ Due # {} /\ Expire(Due)
    /\ UNCHANGED <<window, access, phone, calls, faults>>

\* prune_claims after expire_claims: claims retained long enough, windows over.
PruneClaims(c) ==
    /\ claims[c].st \in TerminalStatuses
    /\ claims' = [claims EXCEPT ![c] = [st |-> "deleted", tries |-> 0, due |-> FALSE]]
    /\ UNCHANGED <<creds, slot, window, access, phone, calls, faults>>

WindowEnds(q) ==
    /\ window[q] > 0 /\ window' = [window EXCEPT ![q] = 0]
    /\ UNCHANGED <<claims, creds, slot, access, phone, calls, faults>>

\* _requester_blocked.
Blocked(q) == window[q] >= MaxAttempts
InvalidAttempt(q) == window' = [window EXCEPT ![q] = @ + 1]

\* redeem with the id of a claim and a wrong token, or with a code no claim
\* has (c = None): attempts are counted on the claim and on the requester.
WrongAttempt(q, c) ==
    /\ IF Blocked(q) THEN UNCHANGED <<claims, window>>
       ELSE IF c \notin Claims \/ claims[c].st # "created"
       THEN InvalidAttempt(q) /\ UNCHANGED claims
       ELSE IF claims[c].tries + 1 >= MaxAttempts
       THEN /\ claims' = [claims EXCEPT ![c].st = "attempts_exhausted",
                              ![c].tries = MaxAttempts]
            /\ window' = [window EXCEPT ![q] = MaxAttempts]
       ELSE claims' = [claims EXCEPT ![c].tries = @ + 1] /\ InvalidAttempt(q)
    /\ UNCHANGED <<creds, slot, access, phone, calls, faults>>

\* _issue_locked: the credential and the claim in one transaction, then the
\* authenticator and the slot.
Issue(c) ==
    /\ claims' = [claims EXCEPT ![c].st = "approved"]
    /\ creds' = [creds EXCEPT ![c] = "active"]
    /\ slot' = slot \cup {c}

\* approve and reject, for claims of the older protocol.
Approve(c) ==
    /\ claims[c].st = "pending_approval"
    /\ IF claims[c].due THEN Expire({c}) ELSE Issue(c)
    /\ UNCHANGED <<window, access, phone, calls, faults>>

Reject(c) ==
    /\ claims[c].st = "pending_approval"
    /\ claims' = [claims EXCEPT ![c].st = "rejected"]
    /\ slot' = slot \ {c}
    /\ UNCHANGED <<creds, window, access, phone, calls, faults>>

----------------------------------------------------------------------------
(* The phone's MobilePairingController and the relay's answers to it.      *)

\* Another attempt of the loop is no longer the live one.
Superseded(C) == {[k EXCEPT !.live = FALSE] : k \in C}
Cancelled == [phone EXCEPT !.pending = None, !.poll = "off"]
LoopEnds(call) == [phone EXCEPT !.poll = IF call.live THEN "off" ELSE @]

\* A code or a link is entered; a used one would change nothing.
Redeems(c) ==
    /\ claims[c].st \notin {"none", "pending_approval"}
    /\ Cardinality(calls) < MaxCalls /\ creds[c] = "none"
    /\ calls' = calls \cup {[op |-> "redeem", claim |-> c, live |-> FALSE, heard |-> TRUE]}
    /\ UNCHANGED <<pairing, access, phone, faults>>

\* redeem: the claim is consumed, and the phone polls for the credential.
Redeemed(call) ==
    /\ call.op = "redeem"
    /\ LET c == call.claim
           open == ~Blocked("phone") /\ claims[c].st = "created"
       IN  IF open /\ ~claims[c].due
           THEN /\ Issue(c) /\ window' = [window EXCEPT !["phone"] = 0]
                /\ IF call.heard
                   THEN /\ phone' = [phone EXCEPT !.pending = c, !.poll = "wait"]
                        /\ calls' = Superseded(calls \ {call})
                   ELSE calls' = calls \ {call} /\ UNCHANGED phone
           ELSE /\ IF open THEN Expire({c}) ELSE UNCHANGED <<claims, creds, slot>>
                /\ calls' = calls \ {call}
                /\ UNCHANGED <<window, phone>>
    /\ UNCHANGED <<access, faults>>

\* The next turn of pollUntilComplete, or a tap on the button.
Polls(live) ==
    /\ phone.pending # None
    /\ Cardinality(calls) < MaxCalls
    /\ live => phone.poll = "wait"
    /\ phone' = [phone EXCEPT !.poll = IF live THEN "call" ELSE @]
    /\ calls' = calls \cup {[op |-> "complete", claim |-> phone.pending, live |-> live,
                             heard |-> TRUE]}
    /\ UNCHANGED <<pairing, access, faults>>

\* complete, by the claim's state.  The secret leaves the slot; the plugin
\* clears what it had, stores the identity and forgets what was pending,
\* though that may be a newer claim.  When it cannot store, it has none.
Collected(call) ==
    /\ call.op = "complete" /\ claims[call.claim].st = "approved"
    /\ ~claims[call.claim].due /\ call.claim \in slot
    /\ slot' = slot \ {call.claim}
    /\ claims' = [claims EXCEPT ![call.claim].st = "issued"]
    /\ \/ /\ call.heard
          /\ phone' = [Cancelled EXCEPT !.identity = call.claim, !.token = call.claim]
          /\ calls' = Superseded(calls \ {call})
          /\ UNCHANGED faults
       \/ /\ call.heard /\ Fault
          /\ phone' = [LoopEnds(call) EXCEPT !.identity = None]
          /\ calls' = calls \ {call}
       \/ ~call.heard /\ calls' = calls \ {call} /\ UNCHANGED <<phone, faults>>
    /\ UNCHANGED <<creds, window, access>>

\* The answers after which the phone gives the claim up.
Refused(call) ==
    /\ call.op = "complete"
    /\ LET c == call.claim IN
       \/ /\ claims[c].st = "approved" /\ (claims[c].due \/ c \notin slot)
          /\ Expire({c})
       \/ /\ claims[c].st \notin {"approved", "pending_approval"}
          /\ UNCHANGED <<claims, creds, slot>>
    /\ IF call.heard THEN phone' = Cancelled /\ calls' = Superseded(calls \ {call})
       ELSE UNCHANGED phone /\ calls' = calls \ {call}
    /\ UNCHANGED <<window, access, faults>>

StillPending(call) ==
    /\ call.op = "complete" /\ claims[call.claim].st = "pending_approval"
    /\ calls' = calls \ {call}
    /\ phone' = [phone EXCEPT !.poll = IF call.live THEN "wait" ELSE @]
    /\ UNCHANGED <<pairing, access, faults>>

\* No answer within fifteen seconds; the relay may still get the request.
CallFails(call) ==
    /\ call.heard /\ Fault
    /\ calls' \in {calls \ {call},
                   (calls \ {call}) \cup {[call EXCEPT !.heard = FALSE, !.live = FALSE]}}
    /\ phone' = LoopEnds(call)
    /\ UNCHANGED <<pairing, access>>

Cancels ==
    /\ phone.pending # None
    /\ phone' = Cancelled /\ calls' = Superseded(calls)
    /\ UNCHANGED <<pairing, access, faults>>

\* The plugin is loaded again.
Reloads ==
    /\ Fault
    /\ phone' = [Cancelled EXCEPT !.token = phone.identity]
    /\ calls' = {[k EXCEPT !.heard = FALSE, !.live = FALSE] : k \in calls}
    /\ UNCHANGED <<pairing, access>>

----------------------------------------------------------------------------
(* The credential in use.                                                  *)

\* issue_ticket: authenticated at once, the ticket stored after the body.  The
\* ticket has no check of its own and no use but the socket's first frame.
AsksTicket(k) ==
    /\ sockets[k] = NoSocket /\ \A j \in 1..(k - 1) : sockets[j] # NoSocket
    /\ Active(phone.token)
    /\ sockets' = [sockets EXCEPT ![k] = [st |-> "ticket", cred |-> phone.token]]
    /\ UNCHANGED <<pairing, mobiles, command, closing, phone, calls, faults>>

\* mobile_websocket: the ticket is taken and its credential must be active.
Admitted(k) ==
    /\ sockets[k].st = "ticket"
    /\ sockets' = [sockets EXCEPT ![k] =
           IF Active(@.cred) THEN [@ EXCEPT !.st = "admitted"] ELSE NoSocket]
    /\ UNCHANGED <<pairing, mobiles, command, closing, phone, calls, faults>>

\* register_mobile: seen by close_mobile_device from here on.
Registers(k) ==
    /\ sockets[k].st = "admitted"
    /\ sockets' = [sockets EXCEPT ![k].st = "registered"]
    /\ mobiles' = mobiles \cup {k}
    /\ UNCHANGED <<pairing, command, closing, phone, calls, faults>>

\* The second assert_active, after the replay.  Mutant: there is none.
SecondCheckSkipped(k) ==
    /\ sockets[k].st = "registered"
    /\ sockets' = [sockets EXCEPT ![k].st = "open"]
    /\ UNCHANGED <<pairing, mobiles, command, closing, phone, calls, faults>>
SecondCheck(k) ==
    /\ sockets[k].st = "registered"
    /\ IF Active(sockets[k].cred)
       THEN sockets' = [sockets EXCEPT ![k].st = "open"] /\ UNCHANGED mobiles
       ELSE /\ sockets' = [sockets EXCEPT ![k] = NoSocket]
            /\ mobiles' = mobiles \ {k}
    /\ UNCHANGED <<pairing, command, closing, phone, calls, faults>>

\* Either side closes, a ticket expires, or the hub closed the client.
SocketEnds(k) ==
    /\ sockets[k] # NoSocket
    /\ sockets' = [sockets EXCEPT ![k] = NoSocket]
    /\ mobiles' = mobiles \ {k}
    /\ UNCHANGED <<pairing, command, closing, phone, calls, faults>>

\* submit_command authenticates before it reads the body; a socket's reader
\* has the credential of its ticket.
CommandArrives(c) ==
    /\ command.st = "none"
    /\ \/ c = phone.token /\ Active(c)
       \/ \E k \in mobiles : sockets[k].st = "open" /\ sockets[k].cred = c
    /\ command' = [st |-> "sent", cred |-> c]
    /\ UNCHANGED <<pairing, sockets, mobiles, closing, phone, calls, faults>>

\* Under the command boundary, until the command is at the Mac's queue.
CommandAuthorized ==
    /\ command.st = "sent"
    /\ command' = IF Active(command.cred) THEN [command EXCEPT !.st = "routing"]
                  ELSE NoCommand
    /\ UNCHANGED <<pairing, sockets, mobiles, closing, phone, calls, faults>>

CommandRouted ==
    /\ command.st = "routing" /\ command' = NoCommand
    /\ UNCHANGED <<pairing, sockets, mobiles, closing, phone, calls, faults>>

\* revoke_device, under the boundary.  Mutant: without it.
RevokesAnyTime ==
    /\ ~closing /\ \E c \in Claims : Active(c)
    /\ creds' = Revoked(Claims) /\ closing' = TRUE
    /\ UNCHANGED <<claims, slot, window, sockets, mobiles, command, phone, calls,
                   faults>>
Revokes ==
    /\ ~closing /\ command.st # "routing" /\ \E c \in Claims : Active(c)
    /\ creds' = Revoked(Claims) /\ closing' = TRUE
    /\ UNCHANGED <<claims, slot, window, sockets, mobiles, command, phone, calls,
                   faults>>

\* close_mobile_device: every registered client of the device, whichever
\* credential it came with.
ClosesDevice ==
    /\ closing /\ closing' = FALSE
    /\ mobiles' = {}
    /\ sockets' = [k \in Sockets |->
           IF k \in mobiles /\ sockets[k].st = "open" THEN NoSocket ELSE sockets[k]]
    /\ UNCHANGED <<pairing, command, phone, calls, faults>>

\* The relay stops anywhere and starts.  PairingStore.start: approved claims
\* have lost their slot.  Mutant: only claims that are due are looked at.
Stopped ==
    /\ slot' = {} /\ window' = [q \in Requesters |-> 0]
    /\ sockets' = [k \in Sockets |-> NoSocket]
    /\ mobiles' = {} /\ command' = NoCommand /\ closing' = FALSE
    /\ calls' = {} /\ phone' = [phone EXCEPT !.poll = IF @ = "call" THEN "off" ELSE @]
DueInDelivery == {c \in Claims : claims[c].st = "approved" /\ claims[c].due}
LostInDelivery == {c \in Claims : claims[c].st = "approved"}
Restart ==
    /\ Fault
    /\ Stopped
    /\ claims' = [c \in Claims |->
           IF c \in LostInDelivery \cup Due THEN [claims[c] EXCEPT !.st = Ended(@)]
           ELSE claims[c]]
    /\ creds' = Revoked(LostInDelivery)

----------------------------------------------------------------------------
\* The relay's handlers that need nothing of the phone: the Mac's create,
\* approve and reject, and a redemption that names a wrong token or code.
PairingRequests ==
    \/ \E c \in Claims : CreateClaim(c) \/ Approve(c) \/ Reject(c)
    \/ \E q \in Requesters, c \in Claims \cup {None} : WrongAttempt(q, c)

NextPairing ==
    \/ PairingRequests
    \/ \E c \in Claims : Lapses(c) \/ PruneClaims(c)
    \/ ExpireClaims
    \/ \E q \in Requesters : WindowEnds(q)
NextPhone ==
    \/ \E c \in Claims : Redeems(c)
    \/ \E call \in calls :
          \/ Redeemed(call) \/ Collected(call) \/ Refused(call) \/ StillPending(call)
          \/ CallFails(call)
    \/ \E live \in BOOLEAN : Polls(live)
    \/ Cancels \/ Reloads
NextAccess ==
    \/ \E k \in Sockets :
          \/ AsksTicket(k) \/ Admitted(k) \/ Registers(k)
          \/ SecondCheck(k) \/ SocketEnds(k)
    \/ \E c \in Claims : CommandArrives(c)
    \/ CommandAuthorized \/ CommandRouted
    \/ Revokes \/ ClosesDevice
DeviceNext == NextPairing \/ NextPhone \/ NextAccess \/ Restart

\* Time passes and the prune loop runs.
Fairness ==
    /\ \A c \in Claims : WF_vars(Lapses(c))
    /\ WF_vars(ExpireClaims)

Spec == Init /\ [][DeviceNext]_vars /\ Fairness

----------------------------------------------------------------------------
(* What must hold.                                                         *)

\* A credential that nobody has collected can still be collected, or it is
\* revoked: not through a crash, an expiry or a lost slot does an active
\* credential remain that no phone ever received.  (the comment in
\* PairingStore.start; complete, expire_claims)
NoActiveOrphan ==
    \A c \in Claims :
        creds[c] = "active" =>
            \/ claims[c].st = "approved" /\ c \in slot
            \/ claims[c].st \in {"issued", "deleted"}

\* A registered socket of a revoked credential is about to be closed: by the
\* revocation, that has yet to look at the hub, or by its own second check.
\* (the comment in mobile_websocket; revoke_pairing_device)
RevokedSocketIsSeen ==
    \A k \in mobiles :
        creds[sockets[k].cred] = "revoked" => closing \/ sockets[k].st = "registered"

\* No command of a revoked credential reaches the Mac, though its handler was
\* authenticated before the revocation and a claim may expire without the
\* boundary.  (command_boundary, expire_claims)
RoutedIsAuthorized == command.st = "routing" => creds[command.cred] = "active"

\* Redemption ends in time: the phone has collected its credential, or it
\* does not stay active.  (expire_claims)
CollectedOrRevoked ==
    \A c \in Claims : c \in slot ~> c \notin slot
============================================================================
