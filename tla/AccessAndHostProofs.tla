------------------------ MODULE AccessAndHostProofs -------------------------
(***************************************************************************)
(* Theorems about who may use an installation and about the operations on  *)
(* its host, which share no state.                                         *)
(*                                                                         *)
(* Pairing and the credentials in use, for any number of claims, sockets,  *)
(* attempts and calls, and however often answers are lost and the relay    *)
(* restarts.  The argument turns on one fact, Held: whatever the phone, a  *)
(* socket or a command carries was delivered, and expiry only ever revokes *)
(* what was not.                                                           *)
(*                                                                         *)
(* The deployment to a VPS, the remote retirement and the removal of an    *)
(* installation: each for any number of kills and failures and any set of  *)
(* phones.                                                                 *)
(***************************************************************************)
EXTENDS DeviceAccess, VpsDeployment, RetirementDispatch, Uninstall, TLAPS

-----------------------------------------------------------------------------
(* Pairing and credentials: what the proof adds to the invariants.         *)

Delivered(c) == c = None \/ claims[c].st \in {"issued", "deleted"}

\* A credential in use is one whose claim was answered.
Held ==
    /\ Delivered(phone.identity) /\ Delivered(phone.token)
    /\ Delivered(command.cred)
    /\ \A k \in Sockets : Delivered(sockets[k].cred)

\* What is under way in the relay carries a credential.
Carried ==
    /\ command.st # "none" => command.cred # None
    /\ \A k \in Sockets : sockets[k].st # "none" => sockets[k].cred # None
    /\ \A k \in mobiles : sockets[k].st \in {"registered", "open"}

-----------------------------------------------------------------------------
(* Types.                                                                  *)

LEMMA TypeInit == Init => TypeOK
<1> SUFFICES ASSUME Init PROVE TypeOK
  OBVIOUS
<1>1. PICK L \in SUBSET (Claims \cap {1}) :
          /\ claims = [c \in Claims |->
                 [st |-> IF c \in L THEN "pending_approval" ELSE "none", tries |-> 0,
                  due |-> FALSE]]
          /\ phone = [identity |-> None, token |-> None,
                      pending |-> IF L = {} THEN None ELSE 1,
                      poll |-> IF L = {} THEN "off" ELSE "wait"]
  BY DEF Init
<1>2. claims \in [Claims -> ClaimRecord]
  BY <1>1, DeviceAssumption DEF ClaimStates, ClaimRecord
<1>3. L # {} => 1 \in Claims
  OBVIOUS
<1>4. phone \in Phone
  BY <1>1, <1>3 DEF Phone
<1>5. PairingTypeOK
  BY <1>2, DeviceAssumption DEF Init, PairingTypeOK
<1>6. AccessTypeOK
  <2>1. NoSocket \in Socket
    BY DEF NoSocket, Socket, SocketStates
  <2> QED BY <2>1 DEF Init, AccessTypeOK, NoCommand
<1> QED BY <1>4, <1>5, <1>6, DeviceAssumption DEF Init, TypeOK, PhoneTypeOK

\* The relay's side of pairing.
LEMMA PairingTypes == PairingTypeOK /\ PhoneTypeOK /\ [DeviceNext]_vars => PairingTypeOK'
<1> SUFFICES ASSUME PairingTypeOK, PhoneTypeOK, [DeviceNext]_vars PROVE PairingTypeOK'
  OBVIOUS
<1> USE DeviceAssumption DEF PairingTypeOK
<1> DEFINE Rows == /\ claims' \in [Claims -> ClaimRecord]
                   /\ creds' \in [Claims -> {"none", "active", "revoked"}]
                   /\ slot' \subseteq Claims
<1>1. ASSUME NEW C \in SUBSET Claims, Expire(C) PROVE Rows
  <2>1. \A c \in Claims : [claims[c] EXCEPT !.st = Ended(@)] \in ClaimRecord
    BY DEF Ended, ClaimRecord, ClaimStates
  <2>2. claims' \in [Claims -> ClaimRecord]
    BY <1>1, <2>1 DEF Expire
  <2> QED BY <1>1, <2>2 DEF Expire, Revoked
<1>2. ASSUME NEW c \in Claims, Issue(c) PROVE Rows
  BY <1>2 DEF Issue, ClaimRecord, ClaimStates
<1>3. ASSUME NEW c \in Claims, CreateClaim(c) \/ Lapses(c) \/ PruneClaims(c)
      PROVE PairingTypeOK'
  <2>1. CASE CreateClaim(c)
    BY <2>1 DEF CreateClaim, ClaimRecord, ClaimStates
  <2>2. CASE Lapses(c)
    BY <2>2 DEF Lapses, ClaimRecord, ClaimStates
  <2>3. CASE PruneClaims(c)
    <3>1. [st |-> "deleted", tries |-> 0, due |-> FALSE] \in ClaimRecord
      BY DEF ClaimRecord, ClaimStates
    <3> QED BY <2>3, <3>1 DEF PruneClaims
  <2> QED BY <1>3, <2>1, <2>2, <2>3
<1>4. ASSUME NEW q \in Requesters, WindowEnds(q) PROVE PairingTypeOK'
  BY <1>4 DEF WindowEnds
<1>5. ASSUME NEW q \in Requesters, NEW c \in Claims \cup {None}, WrongAttempt(q, c)
      PROVE PairingTypeOK'
  <2>1. CASE Blocked(q)
    BY <1>5, <2>1 DEF WrongAttempt
  <2>2. CASE ~Blocked(q)
    <3>1. window[q] + 1 \in 0..MaxAttempts
      BY <2>2 DEF Blocked
    <3>2. window' \in [Requesters -> 0..MaxAttempts]
      BY <1>5, <2>2, <3>1 DEF WrongAttempt, InvalidAttempt
    <3>3. claims' \in [Claims -> ClaimRecord]
      BY <1>5, <2>2 DEF WrongAttempt, ClaimRecord, ClaimStates
    <3> QED BY <1>5, <3>2, <3>3 DEF WrongAttempt
  <2> QED BY <2>1, <2>2
<1>6. CASE ExpireClaims
  BY <1>1, <1>6 DEF ExpireClaims, Due
<1>7. ASSUME NEW c \in Claims, Approve(c) \/ Reject(c) PROVE PairingTypeOK'
  <2>1. CASE Approve(c)
    BY <1>1, <1>2, <2>1 DEF Approve
  <2>2. CASE Reject(c)
    BY <2>2 DEF Reject, ClaimRecord, ClaimStates
  <2> QED BY <1>7, <2>1, <2>2
<1>8. ASSUME NEW call \in calls, Redeemed(call) PROVE PairingTypeOK'
  <2>1. call.claim \in Claims
    BY DEF PhoneTypeOK, Call
  <2>2. Rows
    BY <1>1, <1>2, <1>8, <2>1 DEF Redeemed
  <2>3. window' \in [Requesters -> 0..MaxAttempts]
    BY <1>8 DEF Redeemed, Requesters
  <2> QED BY <2>2, <2>3
<1>9. ASSUME NEW call \in calls, Collected(call) PROVE PairingTypeOK'
  BY <1>9 DEF Collected, ClaimRecord, ClaimStates
<1>10. ASSUME NEW call \in calls, Refused(call) PROVE PairingTypeOK'
  <2>1. call.claim \in Claims
    BY DEF PhoneTypeOK, Call
  <2> QED BY <1>1, <1>10, <2>1 DEF Refused
<1>11. CASE Revokes
  BY <1>11 DEF Revokes, Revoked
<1>12. CASE Restart
  <2>1. \A c \in Claims : [claims[c] EXCEPT !.st = Ended(@)] \in ClaimRecord
    BY DEF Ended, ClaimRecord, ClaimStates
  <2>2. claims' \in [Claims -> ClaimRecord]
    BY <1>12, <2>1 DEF Restart
  <2> QED BY <1>12, <2>2 DEF Restart, Stopped, Revoked
<1>13. CASE UNCHANGED pairing
  BY <1>13 DEF pairing
<1> QED
  BY <1>3, <1>4, <1>5, <1>6, <1>7, <1>8, <1>9, <1>10, <1>11, <1>12, <1>13
     DEF DeviceNext, NextPairing, PairingRequests, NextPhone, NextAccess, vars, pairing,
         Redeems, StillPending, CallFails, Polls, Cancels, Reloads, AsksTicket, Admitted,
         Registers, SecondCheck, SocketEnds, CommandArrives, CommandAuthorized,
         CommandRouted, ClosesDevice

\* Sockets and commands.
LEMMA AccessTypes == TypeOK /\ [DeviceNext]_vars => AccessTypeOK'
<1> SUFFICES ASSUME TypeOK, [DeviceNext]_vars PROVE AccessTypeOK'
  OBVIOUS
<1> USE DEF AccessTypeOK
<1>0. /\ sockets \in [Sockets -> Socket] /\ mobiles \subseteq Sockets
      /\ NoSocket \in Socket /\ phone.token \in Claims \cup {None}
  BY DEF TypeOK, PhoneTypeOK, Phone, NoSocket, Socket, SocketStates
<1>1. ASSUME NEW k \in Sockets, AsksTicket(k) PROVE AccessTypeOK'
  BY <1>0, <1>1 DEF AsksTicket, TypeOK, Socket, SocketStates
<1>2. ASSUME NEW k \in Sockets, NEW st \in SocketStates
      PROVE [sockets[k] EXCEPT !.st = st] \in Socket
  BY <1>0 DEF Socket
<1>3. ASSUME NEW k \in Sockets, Admitted(k) \/ Registers(k) PROVE AccessTypeOK'
  BY <1>0, <1>2, <1>3 DEF Admitted, Registers, TypeOK, SocketStates
<1>4. ASSUME NEW k \in Sockets, SecondCheck(k) PROVE AccessTypeOK'
  BY <1>0, <1>2, <1>4 DEF SecondCheck, TypeOK, SocketStates
<1>5. ASSUME NEW k \in Sockets, SocketEnds(k) PROVE AccessTypeOK'
  BY <1>0, <1>5 DEF SocketEnds, TypeOK
<1>6. ASSUME NEW c \in Claims, CommandArrives(c) PROVE AccessTypeOK'
  BY <1>6 DEF CommandArrives, TypeOK
<1>7. CASE CommandAuthorized \/ CommandRouted
  BY <1>7 DEF CommandAuthorized, CommandRouted, NoCommand, TypeOK
<1>8. CASE Revokes
  BY <1>8 DEF Revokes, TypeOK
<1>9. CASE ClosesDevice
  BY <1>0, <1>9 DEF ClosesDevice, TypeOK
<1>10. CASE Restart
  BY <1>0, <1>10 DEF Restart, Stopped, NoCommand
<1>11. CASE UNCHANGED access
  BY <1>11 DEF access, TypeOK
<1> QED
  BY <1>1, <1>3, <1>4, <1>5, <1>6, <1>7, <1>8, <1>9, <1>10, <1>11
     DEF DeviceNext, NextPairing, PairingRequests, NextPhone, NextAccess, vars,
         CreateClaim, Lapses, PruneClaims, ExpireClaims, WindowEnds, WrongAttempt, Approve,
         Reject, Redeems, Redeemed, Polls, Collected, Refused, StillPending, CallFails,
         Cancels, Reloads, access

\* The phone and its requests.
LEMMA PhoneTypes == TypeOK /\ [DeviceNext]_vars => PhoneTypeOK'
<1> SUFFICES ASSUME TypeOK, [DeviceNext]_vars PROVE PhoneTypeOK'
  OBVIOUS
<1>0. phone \in Phone /\ calls \subseteq Call
  BY DEF TypeOK, PhoneTypeOK
<1>1. ASSUME NEW C, C \subseteq Call PROVE Superseded(C) \subseteq Call
  BY <1>1 DEF Superseded, Call
<1>2. Cancelled \in Phone
  BY <1>0 DEF Cancelled, Phone
<1>3. ASSUME NEW call \in calls PROVE LoopEnds(call) \in Phone
  BY <1>0 DEF LoopEnds, Phone
<1>4. ASSUME NEW c \in Claims, Redeems(c) PROVE PhoneTypeOK'
  <2>1. [op |-> "redeem", claim |-> c, live |-> FALSE, heard |-> TRUE] \in Call
    BY DEF Call
  <2> QED BY <1>0, <1>4, <2>1 DEF Redeems, PhoneTypeOK
<1>5. ASSUME NEW call \in calls, Redeemed(call) PROVE PhoneTypeOK'
  <2>1. [phone EXCEPT !.pending = call.claim, !.poll = "wait"] \in Phone
    BY <1>0 DEF Phone, Call
  <2> QED BY <1>0, <1>1, <1>5, <2>1 DEF Redeemed, PhoneTypeOK
<1>6. ASSUME NEW call \in calls, Collected(call) PROVE PhoneTypeOK'
  <2>1. [Cancelled EXCEPT !.identity = call.claim, !.token = call.claim] \in Phone
    BY <1>0, <1>2 DEF Phone, Call
  <2>2. [LoopEnds(call) EXCEPT !.identity = None] \in Phone
    BY <1>3 DEF Phone
  <2> QED BY <1>0, <1>1, <1>6, <2>1, <2>2 DEF Collected, PhoneTypeOK
<1>7. ASSUME NEW call \in calls, Refused(call) PROVE PhoneTypeOK'
  BY <1>0, <1>1, <1>2, <1>7 DEF Refused, PhoneTypeOK
<1>8. ASSUME NEW call \in calls, StillPending(call) PROVE PhoneTypeOK'
  BY <1>0, <1>8 DEF StillPending, PhoneTypeOK, Phone
<1>9. ASSUME NEW call \in calls, CallFails(call) PROVE PhoneTypeOK'
  <2>1. [call EXCEPT !.heard = FALSE, !.live = FALSE] \in Call
    BY <1>0 DEF Call
  <2> QED BY <1>0, <1>3, <1>9, <2>1 DEF CallFails, PhoneTypeOK
<1>10. ASSUME NEW live \in BOOLEAN, Polls(live) PROVE PhoneTypeOK'
  <2>1. phone.pending # None
        => [op |-> "complete", claim |-> phone.pending, live |-> live, heard |-> TRUE] \in Call
    BY <1>0 DEF Phone, Call
  <2>2. phone' \in Phone
    BY <1>0, <1>10 DEF Polls, Phone
  <2> QED BY <1>0, <1>10, <2>1, <2>2 DEF Polls, PhoneTypeOK
<1>11. CASE Cancels
  BY <1>0, <1>1, <1>2, <1>11 DEF Cancels, PhoneTypeOK
<1>12. CASE Reloads
  <2>1. {[k EXCEPT !.heard = FALSE, !.live = FALSE] : k \in calls} \subseteq Call
    BY <1>0 DEF Call
  <2>2. [Cancelled EXCEPT !.token = phone.identity] \in Phone
    BY <1>0, <1>2 DEF Phone
  <2> QED BY <1>12, <2>1, <2>2 DEF Reloads, PhoneTypeOK
<1>13. CASE Restart
  BY <1>0, <1>13 DEF Restart, Stopped, PhoneTypeOK, Phone
<1>14. CASE UNCHANGED <<phone, calls>>
  BY <1>0, <1>14 DEF PhoneTypeOK
<1> QED
  BY <1>4, <1>5, <1>6, <1>7, <1>8, <1>9, <1>10, <1>11, <1>12, <1>13, <1>14
     DEF DeviceNext, NextPairing, PairingRequests, NextPhone, NextAccess, vars,
         CreateClaim, Lapses, PruneClaims, ExpireClaims, WindowEnds, WrongAttempt, Approve,
         Reject, AsksTicket, Admitted, Registers, SecondCheck, SocketEnds, CommandArrives,
         CommandAuthorized, CommandRouted, Revokes, ClosesDevice

LEMMA TypeStep == TypeOK /\ [DeviceNext]_vars => TypeOK'
<1>1. [DeviceNext]_vars => Fault \/ faults' = faults
  <2>1. NextPairing => faults' = faults
    BY DEF NextPairing, PairingRequests, CreateClaim, Lapses, PruneClaims, ExpireClaims,
           WindowEnds, WrongAttempt, Approve, Reject
  <2>2. ASSUME NEW call \in calls, Collected(call) PROVE Fault \/ faults' = faults
    BY <2>2 DEF Collected
  <2>3. NextPhone => Fault \/ faults' = faults
    BY <2>2 DEF NextPhone, Redeems, Redeemed, Refused, StillPending, CallFails, Polls,
                Cancels, Reloads
  <2>4. NextAccess => faults' = faults
    BY DEF NextAccess, AsksTicket, Admitted, Registers, SecondCheck, SocketEnds,
           CommandArrives, CommandAuthorized, CommandRouted, Revokes, ClosesDevice
  <2> QED BY <2>1, <2>3, <2>4 DEF DeviceNext, Restart, vars
<1>2. TypeOK /\ (Fault \/ faults' = faults) => faults' \in 0..MaxFaults
  BY DeviceAssumption DEF TypeOK, Fault
<1> QED BY <1>1, <1>2, PairingTypes, AccessTypes, PhoneTypes DEF TypeOK

\* Every variable has its type, whatever the bounds.
THEOREM TypeCorrect == Spec => []TypeOK
BY TypeInit, TypeStep, PTL DEF Spec

-----------------------------------------------------------------------------
(* What a step does to claims and credentials.                             *)

\* A delivered claim stays delivered, and only a revocation touches its
\* credential.
Steady ==
    \A c \in Claims : claims[c].st \in {"issued", "deleted"} =>
        /\ claims'[c].st \in {"issued", "deleted"}
        /\ Revokes \/ creds'[c] = creds[c]

LEMMA ClaimsStep ==
  TypeOK /\ NoActiveOrphan /\ [DeviceNext]_vars => NoActiveOrphan' /\ Steady
<1> SUFFICES ASSUME TypeOK, NoActiveOrphan, [DeviceNext]_vars
             PROVE  NoActiveOrphan' /\ Steady
  OBVIOUS
<1> USE DEF NoActiveOrphan, Steady
<1>0. /\ claims \in [Claims -> ClaimRecord] /\ creds \in [Claims -> {"none", "active", "revoked"}]
      /\ slot \subseteq Claims
      /\ \A call \in calls : call.claim \in Claims
  BY DEF TypeOK, PairingTypeOK, PhoneTypeOK, Call
<1>1. ASSUME NEW C \in SUBSET Claims, Expire(C),
             \A c \in C : claims[c].st \in {"created", "pending_approval", "approved"}
      PROVE  NoActiveOrphan' /\ Steady
  <2>1. \A c \in C : claims'[c].st = Ended(claims[c].st)
    BY <1>0, <1>1 DEF Expire, ClaimRecord
  <2>2. \A c \in Claims \ C : claims'[c] = claims[c]
    BY <1>0, <1>1 DEF Expire
  <2>3. \A c \in C : creds'[c] # "active"
    BY <1>0, <1>1 DEF Expire, Revoked
  <2>4. \A c \in Claims \ C : creds'[c] = creds[c]
    BY <1>0, <1>1 DEF Expire, Revoked
  <2>5. slot' = slot \ C
    BY <1>1 DEF Expire
  <2> QED BY <1>1, <2>1, <2>2, <2>3, <2>4, <2>5 DEF Ended
<1>2. ASSUME NEW c \in Claims, Issue(c), claims[c].st \in {"created", "pending_approval"}
      PROVE  NoActiveOrphan' /\ Steady
  BY <1>0, <1>2 DEF Issue, ClaimRecord
<1>3. ASSUME NEW c \in Claims, CreateClaim(c) PROVE NoActiveOrphan' /\ Steady
  BY <1>0, <1>3 DEF CreateClaim, ClaimRecord
<1>4. ASSUME NEW c \in Claims, Lapses(c) PROVE NoActiveOrphan' /\ Steady
  BY <1>0, <1>4 DEF Lapses, ClaimRecord
<1>5. ASSUME NEW c \in Claims, PruneClaims(c) PROVE NoActiveOrphan' /\ Steady
  BY <1>0, <1>5 DEF PruneClaims, ClaimRecord, TerminalStatuses
<1>6. ASSUME NEW q \in Requesters, NEW c \in Claims \cup {None}, WrongAttempt(q, c)
      PROVE  NoActiveOrphan' /\ Steady
  <2>1. CASE claims' = claims
    BY <1>6, <2>1 DEF WrongAttempt
  <2>2. CASE claims' # claims
    <3>1. c \in Claims /\ claims[c].st = "created"
      BY <1>6, <2>2 DEF WrongAttempt
    <3>2. creds[c] # "active"
      BY <3>1
    <3>3. /\ creds' = creds /\ slot' = slot
          /\ \A d \in Claims \ {c} : claims'[d] = claims[d]
      BY <1>0, <1>6, <3>1 DEF WrongAttempt
    <3> QED BY <3>1, <3>2, <3>3
  <2> QED BY <2>1, <2>2
<1>7. CASE ExpireClaims
  BY <1>1, <1>7 DEF ExpireClaims, Due
<1>8. ASSUME NEW c \in Claims, Approve(c) PROVE NoActiveOrphan' /\ Steady
  BY <1>1, <1>2, <1>8 DEF Approve
<1>9. ASSUME NEW c \in Claims, Reject(c) PROVE NoActiveOrphan' /\ Steady
  BY <1>0, <1>9 DEF Reject, ClaimRecord
<1>10. ASSUME NEW call \in calls, Redeemed(call) PROVE NoActiveOrphan' /\ Steady
  <2>1. CASE UNCHANGED <<claims, creds, slot>>
    BY <2>1
  <2>2. CASE Expire({call.claim}) /\ claims[call.claim].st = "created"
    BY <1>0, <1>1, <2>2
  <2>3. CASE Issue(call.claim) /\ claims[call.claim].st = "created"
    BY <1>0, <1>2, <2>3
  <2> QED BY <1>10, <2>1, <2>2, <2>3 DEF Redeemed
<1>11. ASSUME NEW call \in calls, Collected(call) PROVE NoActiveOrphan' /\ Steady
  BY <1>0, <1>11 DEF Collected, ClaimRecord
<1>12. ASSUME NEW call \in calls, Refused(call) PROVE NoActiveOrphan' /\ Steady
  <2>1. CASE UNCHANGED <<claims, creds, slot>>
    BY <2>1
  <2>2. CASE Expire({call.claim}) /\ claims[call.claim].st = "approved"
    BY <1>0, <1>1, <2>2
  <2> QED BY <1>12, <2>1, <2>2 DEF Refused
<1>13. CASE Revokes
  BY <1>0, <1>13 DEF Revokes, Revoked
<1>14. CASE Restart
  <2>1. \A c \in LostInDelivery \cup Due : /\ claims'[c].st = Ended(claims[c].st)
                                           /\ creds'[c] # "active"
    BY <1>0, <1>14 DEF Restart, LostInDelivery, Due, Revoked, ClaimRecord
  <2>2. \A c \in Claims \ (LostInDelivery \cup Due) :
            claims'[c] = claims[c] /\ creds'[c] = creds[c]
    BY <1>0, <1>14 DEF Restart, LostInDelivery, Revoked
  <2> QED BY <2>1, <2>2 DEF LostInDelivery, Due, Ended
<1>15. CASE UNCHANGED <<claims, creds, slot>>
  BY <1>15
<1> QED
  BY <1>3, <1>4, <1>5, <1>6, <1>7, <1>8, <1>9, <1>10, <1>11, <1>12, <1>13, <1>14, <1>15
     DEF DeviceNext, NextPairing, PairingRequests, NextPhone, NextAccess, vars, pairing,
         WindowEnds, Redeems, StillPending, CallFails, Polls, Cancels, Reloads, AsksTicket,
         Admitted, Registers, SecondCheck, SocketEnds, CommandArrives, CommandAuthorized,
         CommandRouted, ClosesDevice

LEMMA OrphanInit == Init => NoActiveOrphan
BY DEF Init, NoActiveOrphan

\* No credential stays active for nobody: a crash, an expiry or a lost slot
\* in any number ends it with its claim.
THEOREM NoOrphan == Spec => []NoActiveOrphan
<1>1. TypeOK /\ NoActiveOrphan /\ [DeviceNext]_vars => NoActiveOrphan'
  BY ClaimsStep
<1> QED BY OrphanInit, TypeCorrect, <1>1, PTL DEF Spec

-----------------------------------------------------------------------------
(* Credentials in use.                                                     *)

LEMMA CarriedStep == TypeOK /\ Carried /\ [DeviceNext]_vars => Carried'
<1> SUFFICES ASSUME TypeOK, Carried, [DeviceNext]_vars PROVE Carried'
  OBVIOUS
<1> USE DEF Carried
<1>0. /\ sockets \in [Sockets -> Socket] /\ mobiles \subseteq Sockets
      /\ command \in [st : {"none", "sent", "routing"}, cred : Claims \cup {None}]
  BY DEF TypeOK, AccessTypeOK
<1>1. ASSUME NEW k \in Sockets, AsksTicket(k) PROVE Carried'
  <2>1. phone.token # None
    BY <1>1, DeviceAssumption DEF AsksTicket, Active, Claims, None
  <2>2. k \notin mobiles
    BY <1>0, <1>1 DEF AsksTicket, NoSocket
  <2>3. /\ sockets'[k] = [st |-> "ticket", cred |-> phone.token]
        /\ \A j \in Sockets \ {k} : sockets'[j] = sockets[j]
    BY <1>0, <1>1 DEF AsksTicket
  <2> QED BY <1>1, <2>1, <2>2, <2>3 DEF AsksTicket
<1>2. ASSUME NEW k \in Sockets, Admitted(k) \/ Registers(k) \/ SecondCheck(k) PROVE Carried'
  <2>1. \A j \in Sockets \ {k} : sockets'[j] = sockets[j]
    BY <1>0, <1>2 DEF Admitted, Registers, SecondCheck
  <2>2. CASE Admitted(k)
    <3>1. sockets'[k] \in {[sockets[k] EXCEPT !.st = "admitted"], NoSocket}
      BY <1>0, <2>2 DEF Admitted
    <3>2. sockets'[k].st # "none" => sockets'[k].cred = sockets[k].cred
      BY <1>0, <3>1 DEF NoSocket, Socket
    <3> QED BY <1>0, <2>1, <2>2, <3>2 DEF Admitted
  <2>3. CASE Registers(k)
    <3>1. sockets'[k] = [sockets[k] EXCEPT !.st = "registered"]
      BY <1>0, <2>3 DEF Registers
    <3>2. sockets'[k].st = "registered" /\ sockets'[k].cred = sockets[k].cred
      BY <1>0, <3>1 DEF Socket
    <3> QED BY <1>0, <2>1, <2>3, <3>2 DEF Registers
  <2>4. CASE SecondCheck(k)
    <3>1. CASE Active(sockets[k].cred)
      <4>1. sockets'[k] = [sockets[k] EXCEPT !.st = "open"]
        BY <1>0, <2>4, <3>1 DEF SecondCheck
      <4>2. sockets'[k].st = "open" /\ sockets'[k].cred = sockets[k].cred
        BY <1>0, <4>1 DEF Socket
      <4> QED BY <1>0, <2>1, <2>4, <3>1, <4>2 DEF SecondCheck
    <3>2. CASE ~Active(sockets[k].cred)
      BY <1>0, <2>4, <3>2 DEF SecondCheck, NoSocket
    <3> QED BY <3>1, <3>2
  <2> QED BY <1>2, <2>2, <2>3, <2>4
<1>3. ASSUME NEW k \in Sockets, SocketEnds(k) PROVE Carried'
  BY <1>0, <1>3 DEF SocketEnds, NoSocket
<1>4. ASSUME NEW c \in Claims, CommandArrives(c) PROVE Carried'
  BY <1>4, DeviceAssumption DEF CommandArrives, Claims, None
<1>5. CASE CommandAuthorized
  BY <1>0, <1>5 DEF CommandAuthorized, NoCommand
<1>6. CASE CommandRouted
  BY <1>6 DEF CommandRouted, NoCommand
<1>7. CASE ClosesDevice
  BY <1>0, <1>7 DEF ClosesDevice, NoSocket
<1>8. CASE Restart
  BY <1>8 DEF Restart, Stopped, NoSocket, NoCommand
<1>9. CASE UNCHANGED <<sockets, mobiles, command>>
  BY <1>9
<1> QED
  BY <1>1, <1>2, <1>3, <1>4, <1>5, <1>6, <1>7, <1>8, <1>9
     DEF DeviceNext, NextPairing, PairingRequests, NextPhone, NextAccess, vars, access,
         CreateClaim, Lapses, PruneClaims, ExpireClaims, WindowEnds, WrongAttempt, Approve,
         Reject, Redeems, Redeemed, Polls, Collected, Refused, StillPending, CallFails,
         Cancels, Reloads, Revokes

LEMMA HeldStep ==
  TypeOK /\ NoActiveOrphan /\ Held /\ Steady /\ [DeviceNext]_vars => Held'
<1> SUFFICES ASSUME TypeOK, NoActiveOrphan, Held, Steady, [DeviceNext]_vars PROVE Held'
  OBVIOUS
<1>0. /\ phone \in Phone
      /\ sockets \in [Sockets -> Socket]
      /\ command \in [st : {"none", "sent", "routing"}, cred : Claims \cup {None}]
  BY DEF TypeOK, AccessTypeOK, PhoneTypeOK
<1> DEFINE Was(c) == c = None \/ claims'[c].st \in {"issued", "deleted"}
<1>1. /\ Was(phone.identity) /\ Was(phone.token) /\ Was(command.cred)
      /\ \A k \in Sockets : Was(sockets[k].cred)
  BY <1>0 DEF Held, Delivered, Steady, Phone, Socket
<1>2. Was(phone'.identity) /\ Was(phone'.token)
  <2>1. ASSUME NEW call \in calls, Collected(call)
        PROVE  Was(phone'.identity) /\ Was(phone'.token)
    <3>1. call.claim \in Claims /\ claims \in [Claims -> ClaimRecord]
      BY DEF TypeOK, PairingTypeOK, PhoneTypeOK, Call
    <3>2. claims'[call.claim].st = "issued"
      BY <2>1, <3>1 DEF Collected, ClaimRecord
    <3>3. \/ phone'.identity = call.claim /\ phone'.token = call.claim
          \/ phone'.identity = None /\ phone'.token = phone.token
          \/ phone' = phone
      BY <1>0, <2>1 DEF Collected, Cancelled, LoopEnds, Phone
    <3> QED BY <1>1, <3>2, <3>3
  <2>2. CASE Reloads
    BY <1>0, <1>1, <2>2 DEF Reloads, Cancelled, Phone
  <2>3. CASE phone'.identity = phone.identity /\ phone'.token = phone.token
    BY <1>1, <2>3
  <2>4. ASSUME NEW call \in calls,
               Redeemed(call) \/ Refused(call) \/ StillPending(call) \/ CallFails(call)
        PROVE  phone'.identity = phone.identity /\ phone'.token = phone.token
    BY <1>0, <2>4 DEF Redeemed, Refused, StillPending, CallFails, Cancelled, LoopEnds, Phone
  <2>5. ASSUME NEW live \in BOOLEAN, Polls(live)
        PROVE  phone'.identity = phone.identity /\ phone'.token = phone.token
    BY <1>0, <2>5 DEF Polls, Phone
  <2>6. Cancels \/ Restart => phone'.identity = phone.identity /\ phone'.token = phone.token
    BY <1>0 DEF Cancels, Cancelled, Restart, Stopped, Phone
  <2>7. CASE UNCHANGED phone
    BY <2>7, <1>1
  <2> QED
    BY <2>1, <2>2, <2>3, <2>4, <2>5, <2>6, <2>7
       DEF DeviceNext, NextPairing, PairingRequests, NextPhone, NextAccess, vars,
           CreateClaim, Lapses, PruneClaims, ExpireClaims, WindowEnds, WrongAttempt, Approve,
           Reject, Redeems, AsksTicket, Admitted, Registers, SecondCheck, SocketEnds,
           CommandArrives, CommandAuthorized, CommandRouted, Revokes, ClosesDevice
<1>3. \A k \in Sockets : Was(sockets'[k].cred)
  <2>1. ASSUME NEW k \in Sockets
        PROVE  sockets'[k].cred \in {None, phone.token, sockets[k].cred}
    <3>1. ASSUME NEW j \in Sockets, AsksTicket(j)
          PROVE  sockets'[k].cred \in {phone.token, sockets[k].cred}
      BY <1>0, <3>1 DEF AsksTicket
    <3>2. ASSUME NEW j \in Sockets,
                 Admitted(j) \/ Registers(j) \/ SecondCheck(j) \/ SocketEnds(j)
          PROVE  sockets'[k].cred \in {None, sockets[k].cred}
      BY <1>0, <3>2 DEF Admitted, Registers, SecondCheck, SocketEnds, NoSocket, Socket
    <3>3. CASE ClosesDevice \/ Restart
      BY <1>0, <3>3 DEF ClosesDevice, Restart, Stopped, NoSocket
    <3>4. CASE UNCHANGED sockets
      BY <3>4
    <3> QED
      BY <3>1, <3>2, <3>3, <3>4
         DEF DeviceNext, NextPairing, PairingRequests, NextPhone, NextAccess, vars, access,
             CreateClaim, Lapses, PruneClaims, ExpireClaims, WindowEnds, WrongAttempt,
             Approve, Reject, Redeems, Redeemed, Polls, Collected, Refused, StillPending,
             CallFails, Cancels, Reloads, CommandArrives, CommandAuthorized, CommandRouted,
             Revokes
  <2> QED BY <1>1, <2>1
<1>4. Was(command'.cred)
  <2>1. ASSUME NEW c \in Claims, CommandArrives(c) PROVE Was(command'.cred)
    <3>1. command'.cred = c
      BY <2>1 DEF CommandArrives
    <3>2. c = phone.token \/ \E k \in Sockets : sockets[k].cred = c
      BY <2>1 DEF CommandArrives, TypeOK, AccessTypeOK
    <3> QED BY <1>1, <3>1, <3>2
  <2>2. CASE CommandAuthorized
    BY <1>0, <1>1, <2>2 DEF CommandAuthorized, NoCommand
  <2>3. CASE CommandRouted \/ Restart
    BY <2>3 DEF CommandRouted, Restart, Stopped, NoCommand
  <2>4. CASE UNCHANGED command
    BY <1>1, <2>4
  <2> QED
    BY <2>1, <2>2, <2>3, <2>4
       DEF DeviceNext, NextPairing, PairingRequests, NextPhone, NextAccess, vars, access,
           CreateClaim, Lapses, PruneClaims, ExpireClaims, WindowEnds, WrongAttempt, Approve,
           Reject, Redeems, Redeemed, Polls, Collected, Refused, StillPending, CallFails,
           Cancels, Reloads, AsksTicket, Admitted, Registers, SecondCheck, SocketEnds,
           Revokes, ClosesDevice
<1> QED BY <1>2, <1>3, <1>4 DEF Held, Delivered

LEMMA UseStep ==
  TypeOK /\ Held /\ Carried /\ Steady /\ RevokedSocketIsSeen /\ RoutedIsAuthorized
    /\ [DeviceNext]_vars
  => RevokedSocketIsSeen' /\ RoutedIsAuthorized'
<1> SUFFICES ASSUME TypeOK, Held, Carried, Steady, RevokedSocketIsSeen,
                    RoutedIsAuthorized, [DeviceNext]_vars
             PROVE  RevokedSocketIsSeen' /\ RoutedIsAuthorized'
  OBVIOUS
<1> USE DEF RevokedSocketIsSeen, RoutedIsAuthorized
<1>0. /\ sockets \in [Sockets -> Socket] /\ mobiles \subseteq Sockets
      /\ command \in [st : {"none", "sent", "routing"}, cred : Claims \cup {None}]
  BY DEF TypeOK, AccessTypeOK
\* Expiry leaves what is in use alone.
<1>1. ASSUME ~Revokes, NEW k \in mobiles PROVE creds'[sockets[k].cred] = creds[sockets[k].cred]
  BY <1>0, <1>1 DEF Carried, Held, Delivered, Steady, Socket
<1>2. ASSUME ~Revokes, command.st # "none" PROVE creds'[command.cred] = creds[command.cred]
  BY <1>0, <1>2 DEF Carried, Held, Delivered, Steady
<1>3. CASE Revokes
  BY <1>3 DEF Revokes
<1>4. ASSUME ~Revokes, UNCHANGED <<sockets, mobiles, closing>> PROVE RevokedSocketIsSeen'
  BY <1>1, <1>4
<1>5. ASSUME ~Revokes, UNCHANGED command PROVE RoutedIsAuthorized'
  BY <1>2, <1>5
<1>6. ASSUME NEW k \in Sockets, AsksTicket(k) \/ Admitted(k) \/ Registers(k) \/ SecondCheck(k)
                                  \/ SocketEnds(k), ~Revokes
      PROVE RevokedSocketIsSeen' /\ RoutedIsAuthorized'
  <2>1. /\ closing' = closing /\ command' = command
        /\ \A j \in Sockets \ {k} : sockets'[j] = sockets[j]
        /\ mobiles' \subseteq mobiles \cup {k}
    BY <1>0, <1>6 DEF AsksTicket, Admitted, Registers, SecondCheck, SocketEnds
  <2>2. ASSUME NEW j \in mobiles', j # k, creds'[sockets'[j].cred] = "revoked"
        PROVE  closing' \/ sockets'[j].st = "registered"
    BY <1>0, <1>1, <1>6, <2>1, <2>2
  <2>3. ASSUME k \in mobiles', creds'[sockets'[k].cred] = "revoked"
        PROVE  closing' \/ sockets'[k].st = "registered"
    <3>1. CASE AsksTicket(k) \/ Admitted(k)
      <4>1. k \notin mobiles /\ mobiles' = mobiles
        BY <1>0, <3>1 DEF AsksTicket, Admitted, Carried, NoSocket
      <4> QED BY <2>3, <4>1
    <3>2. CASE Registers(k)
      BY <1>0, <3>2 DEF Registers, Socket
    <3>3. CASE SecondCheck(k)
      <4>1. Active(sockets[k].cred) /\ k \in mobiles
        BY <1>0, <2>3, <3>3 DEF SecondCheck
      <4>2. sockets'[k].cred = sockets[k].cred
        BY <1>0, <3>3, <4>1 DEF SecondCheck, Socket
      <4>3. creds'[sockets[k].cred] = "active"
        BY <1>1, <1>6, <4>1 DEF Active
      <4> QED BY <2>3, <4>2, <4>3
    <3>4. CASE SocketEnds(k)
      BY <2>3, <3>4 DEF SocketEnds
    <3> QED BY <1>6, <3>1, <3>2, <3>3, <3>4
  <2> QED BY <1>5, <1>6, <2>1, <2>2, <2>3
<1>7. ASSUME ~Revokes, CommandAuthorized PROVE RoutedIsAuthorized'
  BY <1>0, <1>2, <1>7 DEF CommandAuthorized, Active, NoCommand
<1>8. ASSUME ~Revokes, NEW c \in Claims, CommandArrives(c) PROVE RoutedIsAuthorized'
  BY <1>8 DEF CommandArrives
<1>9. CommandRouted => RoutedIsAuthorized'
  BY DEF CommandRouted, NoCommand
<1>10. ClosesDevice \/ Restart => RevokedSocketIsSeen'
  BY DEF ClosesDevice, Restart, Stopped
<1>11. Restart => RoutedIsAuthorized'
  BY DEF Restart, Stopped, NoCommand
<1>12. CASE NextPairing \/ NextPhone \/ UNCHANGED vars
  <2>1. UNCHANGED access
    BY <1>12
       DEF NextPairing, PairingRequests, NextPhone, CreateClaim, Lapses, PruneClaims,
           ExpireClaims, WindowEnds, WrongAttempt, Approve, Reject, Redeems, Redeemed, Polls,
           Collected, Refused, StillPending, CallFails, Cancels, Reloads, vars, access
  <2> QED BY <1>3, <1>4, <1>5, <2>1 DEF access
<1>13. CASE NextAccess
  BY <1>3, <1>4, <1>5, <1>6, <1>7, <1>8, <1>9, <1>10, <1>13
     DEF NextAccess, CommandArrives, CommandAuthorized, CommandRouted, ClosesDevice
<1>14. CASE Restart
  BY <1>10, <1>11, <1>14
<1> QED BY <1>12, <1>13, <1>14 DEF DeviceNext

AccessInv ==
    /\ TypeOK /\ NoActiveOrphan /\ Held /\ Carried
    /\ RevokedSocketIsSeen /\ RoutedIsAuthorized

LEMMA AccessInvariant == Spec => []AccessInv
<1>1. Init => AccessInv
  <2>1. Init => Held /\ Carried
    BY DEF Init, Held, Carried, Delivered, NoSocket, NoCommand
  <2>2. Init => RevokedSocketIsSeen /\ RoutedIsAuthorized
    BY DEF Init, RevokedSocketIsSeen, RoutedIsAuthorized, NoCommand
  <2> QED BY TypeInit, OrphanInit, <2>1, <2>2 DEF AccessInv
<1>2. TypeOK /\ [DeviceNext]_vars => TypeOK'
  BY TypeStep
<1>3. AccessInv /\ [DeviceNext]_vars => AccessInv'
  BY <1>2, ClaimsStep, CarriedStep, HeldStep, UseStep DEF AccessInv
<1> QED BY <1>1, <1>3, PTL DEF Spec

\* A socket whose credential was revoked is always still to be looked at, by
\* the revocation or by its own second check, however the two interleave.
THEOREM RevokedSocketSeen == Spec => []RevokedSocketIsSeen
<1>1. AccessInv => RevokedSocketIsSeen
  BY DEF AccessInv
<1> QED BY AccessInvariant, <1>1, PTL

\* A command is routed only under a credential that is active at that very
\* moment, though claims expire without the command boundary.
THEOREM RoutedAuthorized == Spec => []RoutedIsAuthorized
<1>1. AccessInv => RoutedIsAuthorized
  BY DEF AccessInv
<1> QED BY AccessInvariant, <1>1, PTL

-----------------------------------------------------------------------------
(* The deployment.  The journal and the host tell the same story, up to    *)
(* the one step that is being taken or undone.                             *)

\* The host is where the first n forward steps leave it.
At(n, h) ==
  /\ h.staged <=> n >= 1
  /\ h.serving = IF n >= 2 THEN "staged" ELSE "previous"
  /\ h.mac = IF n >= 3 THEN "staged" ELSE "previous"
  /\ h.previous <=> n < 4

\* The host is at step n of the journal, or at the next one, which a kill
\* or an exception left unrecorded.  The retirement never is.
UpTo(n, h) ==
  /\ n <= 3
  /\ At(n, h) \/ (n < 3 /\ At(n + 1, h))

\* What has not been undone yet is still to be undone.
ToUndo(todo, h) ==
  /\ h.staged => "remove_staged" \in todo
  /\ h.serving # "previous" => "restore_previous" \in todo
  /\ h.mac = "staged" => "restore_mac" \in todo

\* Where the executor is.
InPlace ==
  /\ exec.pc # "idle" => saga.phase \notin Terminal
  /\ exec.pc \in {"before", "perform", "after"} => saga.steps <= 3

\* Way forward: nothing has been undone.
OnTheWay ==
  saga.phase \notin Terminal /\ exec.pc # "undo" =>
    /\ saga.undone = {}
    /\ exec.pc \in {"idle", "before", "perform"} => UpTo(saga.steps, vps)
    /\ exec.pc = "after" => saga.steps <= 3 /\ At(saga.steps + 1, vps)
    /\ exec.pc = "verify" => saga.steps = 3 /\ At(3, vps)
    /\ exec.pc = "finish" => saga.steps = 4 /\ At(4, vps)

\* Way back: while no compensation has failed, the journal lists all that is
\* left to undo, and before the first one the host is where the way ended.
OnTheWayBack ==
  exec.pc = "undo" =>
    /\ vps.previous
    /\ ~exec.failed => ToUndo(exec.todo, vps)
    /\ ~exec.failed /\ saga.undone = {} => UpTo(saga.steps, vps)

AtTheEnd ==
  /\ saga.phase = "ready" => At(4, vps)
  /\ saga.phase = "rolled_back" => At(0, vps)
  /\ ~vps.previous => At(4, vps)

DeployInv ==
  /\ DeployTypeOK
  /\ InPlace
  /\ ~torn => OnTheWay /\ OnTheWayBack /\ AtTheEnd

HostType ==
  [staged : BOOLEAN, serving : {"previous", "staged", "none"},
   mac : {"previous", "staged"}, previous : BOOLEAN]

\* The start of the way back has every compensation of the steps it undoes.
LEMMA TodoCovers ==
  ASSUME NEW n \in 0..4, NEW undone
  PROVE  /\ Todo(n, undone) \subseteq Actions
         /\ undone = {} =>
              /\ n >= 1 => "remove_staged" \in Todo(n, undone)
              /\ n >= 2 => "restore_previous" \in Todo(n, undone)
              /\ n >= 3 => "restore_mac" \in Todo(n, undone)
<1>1. /\ n >= 1 => 1 \in 1..n
      /\ n >= 2 => 2 \in 1..n
      /\ n >= 3 => 3 \in 1..n
  OBVIOUS
<1>2. /\ Compensations[Forward[1]] = {"remove_staged"}
      /\ Compensations[Forward[2]] = {"stop_staged", "restore_previous"}
      /\ Compensations[Forward[3]] = {"restore_mac"}
      /\ Compensations[Forward[4]] = {}
  <2>1. Forward[1] = "deploy" /\ Forward[2] = "activate" /\ Forward[3] = "switch" /\ Forward[4] = "retire"
    BY DEF Forward
  <2> QED BY <2>1 DEF Compensations
<1>3. Actions = {"restore_mac", "stop_staged", "restore_previous", "remove_staged"}
  BY DEF Actions, Rank
<1>4. \A i \in 1..n : Compensations[Forward[i]] \subseteq Actions
  <2> TAKE i \in 1..n
  <2>1. i = 1 \/ i = 2 \/ i = 3 \/ i = 4
    OBVIOUS
  <2> QED BY <2>1, <1>2, <1>3
<1>5. Todo(n, undone) \subseteq Actions
  BY <1>4 DEF Todo
<1>6. undone = {} => \A i \in 1..n : Compensations[Forward[i]] \subseteq Todo(n, undone)
  BY DEF Todo
<1> QED BY <1>1, <1>2, <1>5, <1>6

\* A deployment starts with the types in order.
LEMMA DeployTypeInit == DeployInit => DeployTypeOK
<1> SUFFICES ASSUME DeployInit PROVE DeployTypeOK
  OBVIOUS
<1>1. saga \in [phase : Terminal \union {"prepared", "before", "after", "awaiting_mobile_convergence"},
               steps : 0..4, undone : SUBSET Actions]
  BY DEF DeployInit
<1>2. exec \in [pc : {"idle", "before", "perform", "after", "verify", "finish", "undo"},
               todo : SUBSET Actions, failed : BOOLEAN]
  BY DEF DeployInit, Idle
<1>3. vps \in [staged : BOOLEAN, serving : {"previous", "staged", "none"},
              mac : {"previous", "staged"}, previous : BOOLEAN]
  BY DEF DeployInit
<1>4. stops \in 0..MaxStops
  BY StopsAssumption DEF DeployInit
<1> QED BY <1>1, <1>2, <1>3, <1>4 DEF DeployTypeOK, DeployInit

\* A deployment starts with the invariant.
LEMMA DeployInvInit == DeployInit => DeployInv
<1> SUFFICES ASSUME DeployInit PROVE DeployInv
  OBVIOUS
<1>1. DeployTypeOK
  BY DeployTypeInit
<1>2. InPlace
  BY DEF DeployInit, InPlace, Idle, Terminal
<1>3. /\ vps.staged = FALSE /\ vps.serving = "previous"
      /\ vps.mac = "previous" /\ vps.previous = TRUE
  BY DEF DeployInit
<1>4. At(0, vps)
  BY <1>3 DEF At
<1>5. OnTheWay
  BY <1>4 DEF DeployInit, OnTheWay, Idle, UpTo
<1>6. OnTheWayBack /\ AtTheEnd
  BY <1>3 DEF DeployInit, OnTheWayBack, AtTheEnd, Idle
<1> QED BY <1>1, <1>2, <1>5, <1>6 DEF DeployInv

\* What a step or a compensation does keeps the host's type.
LEMMA EffectType ==
  ASSUME NEW h \in HostType,
         NEW a \in {"deploy", "activate", "switch", "retire"} \union Actions
  PROVE  Effect(a, h) \in HostType
<1>1. a \in {"deploy", "activate", "switch", "retire",
            "restore_mac", "stop_staged", "restore_previous", "remove_staged"}
  BY DEF Actions, Rank
<1> QED BY <1>1 DEF Effect, HostType

\* Before the last step, what comes next is one of the four.
LEMMA StepIsForward ==
  ASSUME saga.steps \in 0..3
  PROVE  /\ Step \in {"deploy", "activate", "switch", "retire"}
         /\ Step = "retire" <=> saga.steps = 3
         /\ saga.steps = 0 => Step = "deploy"
         /\ saga.steps = 1 => Step = "activate"
         /\ saga.steps = 2 => Step = "switch"
<1>1. saga.steps = 0 \/ saga.steps = 1 \/ saga.steps = 2 \/ saga.steps = 3
  OBVIOUS
<1> QED BY <1>1 DEF Step, Forward

\* The step that comes next takes the host from where it is, or already was
\* taken by an attempt before.
LEMMA StepEffect ==
  ASSUME saga.steps \in 0..3, NEW h \in HostType,
         At(saga.steps, h) \/ At(saga.steps + 1, h)
  PROVE  At(saga.steps + 1, Effect(Step, h))
<1>1. CASE saga.steps = 0
  BY <1>1, StepIsForward DEF Effect, At, HostType
<1>2. CASE saga.steps = 1
  BY <1>2, StepIsForward DEF Effect, At, HostType
<1>3. CASE saga.steps = 2
  BY <1>3, StepIsForward DEF Effect, At, HostType
<1>4. CASE saga.steps = 3
  BY <1>4, StepIsForward DEF Effect, At, HostType
<1> QED BY <1>1, <1>2, <1>3, <1>4

\* The deployment's variables keep their types, and its executor its place.
LEMMA DeployTypeStep ==
  ASSUME DeployTypeOK, InPlace, [DeployNext]_deployVars
  PROVE  DeployTypeOK' /\ InPlace'
<1>t. DeployTypeOK /\ vps \in HostType
  BY DEF DeployTypeOK, HostType
<1>e. \A a \in {"deploy", "activate", "switch", "retire"} \union Actions : Effect(a, vps) \in HostType
  BY <1>t, EffectType
<1>l. \A a \in {"deploy", "activate", "switch", "retire"} \union Actions : Landed(a, vps) \subseteq HostType
  BY <1>t, <1>e DEF Landed
<1>s. exec.pc \in {"perform", "after"} =>
        saga.steps \in 0..3 /\ Step \in {"deploy", "activate", "switch", "retire"}
  BY <1>t, StepIsForward DEF DeployTypeOK, InPlace
<1>u. \A n \in 0..4 : Undoing(n) \in [pc : {"undo"}, todo : SUBSET Actions, failed : BOOLEAN]
  BY TodoCovers DEF Undoing
<1>1. CASE Plan
  BY <1>1 DEF Plan, DeployTypeOK, InPlace
<1>2. CASE Execute
  BY <1>2 DEF Execute, DeployTypeOK, InPlace
<1>3. CASE Before
  BY <1>3 DEF Before, DeployTypeOK, InPlace, Terminal
<1>4. CASE Perform
  BY <1>4, <1>e, <1>s DEF Perform, DeployTypeOK, InPlace, HostType
<1>5. CASE PerformRaises
  <2>1. vps' \in HostType
    BY <1>5, <1>l, <1>s DEF PerformRaises
  <2>2. saga.phase \notin Terminal /\ saga.steps \in 0..3
    BY <1>5, <1>s DEF PerformRaises, InPlace
  <2>3. CASE Step = "retire"
    <3>1. saga' = [saga EXCEPT !.phase = "recovery_required"] /\ exec' = Idle
          /\ UNCHANGED <<admitted, stops, torn>>
      BY <1>5, <2>3 DEF PerformRaises
    <3> QED BY <2>1, <3>1 DEF DeployTypeOK, InPlace, Idle, Terminal, HostType
  <2>4. CASE Step # "retire"
    <3>1. exec' = Undoing(saga.steps + 1) /\ UNCHANGED <<saga, admitted, stops, torn>>
      BY <1>5, <2>4 DEF PerformRaises
    <3>2. exec' \in [pc : {"undo"}, todo : SUBSET Actions, failed : BOOLEAN]
      BY <2>2, <3>1, <1>u
    <3> QED BY <2>1, <2>2, <3>1, <3>2 DEF DeployTypeOK, InPlace, HostType
  <2> QED BY <2>3, <2>4
<1>6. CASE After
  <2>1. saga.phase \notin Terminal /\ saga.steps \in 0..3 /\ saga.steps + 1 \in 0..4
    BY <1>6, <1>s DEF After, InPlace
  <2>2. saga' = [saga EXCEPT !.phase = "after", !.steps = saga.steps + 1]
    BY <1>6 DEF After
  <2>3. \E where \in {"before", "verify", "finish"} :
           /\ exec' = [exec EXCEPT !.pc = where]
           /\ where = "before" => saga.steps + 1 < 3
    BY <1>6 DEF After
  <2>4. UNCHANGED <<admitted, vps, stops, torn>>
    BY <1>6 DEF After
  <2>5. DeployTypeOK'
    BY <2>1, <2>2, <2>3, <2>4 DEF DeployTypeOK
  <2>6. InPlace'
    BY <2>1, <2>2, <2>3 DEF DeployTypeOK, InPlace, Terminal
  <2> QED BY <2>5, <2>6
<1>7. CASE Verify
  <2>1. saga.phase \notin Terminal /\ saga.steps \in 0..4
    BY <1>7 DEF Verify, InPlace, DeployTypeOK
  <2>2. UNCHANGED <<admitted, vps, stops, torn>>
    BY <1>7 DEF Verify
  <2>3. CASE exec' = Undoing(saga.steps) /\ UNCHANGED saga
    BY <2>1, <2>2, <2>3, <1>u DEF DeployTypeOK, InPlace
  <2>4. CASE saga' = [saga EXCEPT !.phase = "awaiting_mobile_convergence"] /\ exec' = Idle
    BY <2>2, <2>4 DEF DeployTypeOK, InPlace, Idle
  <2>5. CASE exec' = [exec EXCEPT !.pc = IF saga.steps = 3 THEN "before" ELSE "finish"] /\ UNCHANGED saga
    BY <2>1, <2>2, <2>5 DEF DeployTypeOK, InPlace
  <2> QED BY <1>7, <2>3, <2>4, <2>5 DEF Verify
<1>8. CASE Finish
  BY <1>8 DEF Finish, DeployTypeOK, InPlace, Idle, Terminal
<1>9. CASE Undo
  BY <1>9, <1>e DEF Undo, DeployTypeOK, InPlace, HostType
<1>10. CASE UndoRaises
  BY <1>10, <1>l DEF UndoRaises, DeployTypeOK, InPlace, HostType
<1>11. CASE UndoEnds
  BY <1>11 DEF UndoEnds, DeployTypeOK, InPlace, Idle, Terminal
<1>12. CASE Stop
  <2>1. vps' \in HostType /\ torn' \in BOOLEAN
    BY <1>12, <1>t, <1>l DEF Stop, DeployTypeOK
  <2>2. /\ UNCHANGED <<admitted, saga>> /\ exec' = Idle
        /\ stops < MaxStops /\ stops' = stops + 1
    BY <1>12 DEF Stop
  <2> QED BY <2>1, <2>2, StopsAssumption DEF DeployTypeOK, InPlace, Idle, HostType
<1>13. CASE UNCHANGED deployVars
  BY <1>13 DEF deployVars, DeployTypeOK, InPlace
<1> QED
  BY <1>1, <1>2, <1>3, <1>4, <1>5, <1>6, <1>7, <1>8, <1>9, <1>10, <1>11, <1>12, <1>13 DEF DeployNext

\* A host some forward steps led to has nothing to undo but what those left.
LEMMA AtIsCovered ==
  ASSUME NEW n \in 0..4, NEW m \in 0..4, m <= n, NEW h \in HostType, At(m, h)
  PROVE  ToUndo(Todo(n, {}), h)
<1>1. /\ n >= 1 => "remove_staged" \in Todo(n, {})
      /\ n >= 2 => "restore_previous" \in Todo(n, {})
      /\ n >= 3 => "restore_mac" \in Todo(n, {})
  BY TodoCovers
<1> QED BY <1>1 DEF At, ToUndo, HostType

\* A compensation leaves the previous release where it is, and nothing to
\* undo that is not still listed.
LEMMA EffectIsUndone ==
  ASSUME NEW h \in HostType, NEW todo \in SUBSET Actions, NEW a \in todo
  PROVE  /\ Effect(a, h).previous = h.previous
         /\ ToUndo(todo, h) => ToUndo(todo \ {a}, Effect(a, h))
<1>1. a \in {"restore_mac", "stop_staged", "restore_previous", "remove_staged"}
  BY DEF Actions, Rank
<1>2. CASE a = "restore_mac"
  BY <1>2 DEF Effect, HostType, ToUndo
<1>3. CASE a = "stop_staged"
  BY <1>3 DEF Effect, HostType, ToUndo
<1>4. CASE a = "restore_previous"
  BY <1>4 DEF Effect, HostType, ToUndo
<1>5. CASE a = "remove_staged"
  BY <1>5 DEF Effect, HostType, ToUndo
<1> QED BY <1>1, <1>2, <1>3, <1>4, <1>5

\* A step that raised left the host where it was, or one step further.
LEMMA LandedIsNear ==
  ASSUME saga.steps \in 0..3, NEW h \in HostType, UpTo(saga.steps, h),
         NEW g \in Landed(Step, h)
  PROVE  At(saga.steps, g) \/ At(saga.steps + 1, g)
<1>1. At(saga.steps, h) \/ At(saga.steps + 1, h)
  BY DEF UpTo
<1>2. g = h \/ g = Effect(Step, h)
  BY DEF Landed
<1> QED BY <1>1, <1>2, StepEffect

\* One step keeps the journal and the host together.
LEMMA DeployInvStep ==
  ASSUME DeployInv, [DeployNext]_deployVars
  PROVE  DeployInv'
<1>t. DeployTypeOK /\ InPlace /\ vps \in HostType /\ saga.steps \in 0..4
  BY DEF DeployInv, DeployTypeOK, HostType
<1>n. DeployTypeOK' /\ InPlace' /\ vps' \in HostType
  <2>1. DeployTypeOK' /\ InPlace'
    BY <1>t, DeployTypeStep
  <2> QED BY <2>1 DEF DeployTypeOK, HostType
<1> SUFFICES ASSUME ~torn' PROVE OnTheWay' /\ OnTheWayBack' /\ AtTheEnd'
  BY <1>n DEF DeployInv
<1>h. ~torn
  BY DEF DeployNext, deployVars, Plan, Execute, Before, Perform, PerformRaises, After, Verify,
         Finish, Undo, UndoRaises, UndoEnds, Stop
<1>i. OnTheWay /\ OnTheWayBack /\ AtTheEnd
  BY <1>h DEF DeployInv
<1>p. exec.pc # "idle" => saga.phase \notin Terminal
  BY <1>t DEF InPlace
<1>1. CASE Plan
  BY <1>1, <1>i DEF Plan, OnTheWay, OnTheWayBack, AtTheEnd
<1>2. CASE Execute
  <2>1. UpTo(saga.steps, vps) /\ saga.undone = {}
    BY <1>2, <1>i DEF Execute, OnTheWay
  <2>2. /\ exec'.pc = IF saga.steps < 3 THEN "before" ELSE "verify"
        /\ UNCHANGED <<saga, vps>>
    BY <1>2, <1>t DEF Execute, DeployTypeOK
  <2>3. saga.steps >= 3 => saga.steps = 3 /\ At(3, vps)
    BY <2>1, <1>t DEF UpTo
  <2> QED BY <2>1, <2>2, <2>3, <1>i, <1>t DEF OnTheWay, OnTheWayBack, AtTheEnd
<1>3. CASE Before
  <2>1. UpTo(saga.steps, vps) /\ saga.undone = {}
    BY <1>3, <1>i, <1>p DEF Before, OnTheWay
  <2>2. exec'.pc = "perform" /\ saga'.steps = saga.steps /\ saga'.undone = saga.undone
        /\ saga'.phase = "before" /\ vps' = vps
    BY <1>3, <1>t DEF Before, DeployTypeOK
  <2> QED BY <2>1, <2>2, <1>i DEF OnTheWay, OnTheWayBack, AtTheEnd
<1>4. CASE Perform
  <2>1. UpTo(saga.steps, vps) /\ saga.undone = {} /\ saga.steps \in 0..3
    BY <1>4, <1>i, <1>p, <1>t DEF Perform, OnTheWay, InPlace
  <2>2. exec'.pc = "after" /\ saga' = saga /\ vps' = Effect(Step, vps)
    BY <1>4, <1>t DEF Perform, DeployTypeOK
  <2>3. At(saga.steps + 1, vps')
    BY <2>1, <2>2, <1>t, StepEffect DEF UpTo
  <2>4. ~vps'.previous => At(4, vps')
    <3>1. ~vps'.previous => saga.steps = 3
      BY <2>1, <2>3 DEF At
    <3> QED BY <3>1, <2>3
  <2> QED BY <2>1, <2>2, <2>3, <2>4, <1>4, <1>p DEF Perform, OnTheWay, OnTheWayBack, AtTheEnd, Terminal
<1>5. CASE PerformRaises
  <2>1. UpTo(saga.steps, vps) /\ saga.undone = {} /\ saga.steps \in 0..3 /\ saga.phase \notin Terminal
    BY <1>5, <1>i, <1>p, <1>t DEF PerformRaises, OnTheWay, InPlace
  <2>2. At(saga.steps, vps') \/ At(saga.steps + 1, vps')
    BY <1>5, <2>1, <1>t, LandedIsNear DEF PerformRaises
  <2>3. CASE Step = "retire"
    <3>1. saga'.phase = "recovery_required" /\ exec'.pc = "idle"
      BY <1>5, <2>3, <1>t DEF PerformRaises, Idle, DeployTypeOK
    <3>2. saga.steps = 3
      BY <2>1, <2>3, StepIsForward
    <3>3. At(3, vps') \/ At(4, vps')
      BY <2>2, <3>2
    <3> QED BY <3>1, <3>3 DEF OnTheWay, OnTheWayBack, AtTheEnd, Terminal, At
  <2>4. CASE Step # "retire"
    <3>1. exec' = Undoing(saga.steps + 1) /\ saga' = saga
      BY <1>5, <2>4 DEF PerformRaises
    <3>2. saga.steps \in 0..2
      BY <2>1, <2>4, StepIsForward
    <3>3. exec'.pc = "undo" /\ exec'.todo = Todo(saga.steps + 1, {}) /\ exec'.failed = FALSE
      BY <3>1, <2>1 DEF Undoing
    <3>4. UpTo(saga.steps, vps') /\ vps'.previous
      BY <3>2, <2>2 DEF UpTo, At
    <3>5. ToUndo(exec'.todo, vps')
      <4>1. saga.steps \in 0..4 /\ saga.steps + 1 \in 0..4
        BY <3>2
      <4> QED BY <4>1, <2>2, <3>3, <1>n, AtIsCovered
    <3> QED BY <3>1, <3>3, <3>4, <3>5, <2>1 DEF OnTheWay, OnTheWayBack, AtTheEnd, Terminal
  <2> QED BY <2>3, <2>4
<1>6. CASE After
  <2>1. saga.undone = {} /\ saga.steps \in 0..3 /\ At(saga.steps + 1, vps)
    BY <1>6, <1>i, <1>p, <1>t DEF After, OnTheWay
  <2>2. /\ saga'.steps = saga.steps + 1 /\ saga'.phase = "after" /\ saga'.undone = saga.undone
        /\ vps' = vps
    BY <1>6, <1>t DEF After, DeployTypeOK
  <2>3. /\ saga.steps + 1 < 3 => exec'.pc = "before"
        /\ saga.steps + 1 = 3 => exec'.pc = "verify"
        /\ saga.steps + 1 = 4 => exec'.pc = "finish"
    BY <1>6, <1>t DEF After, DeployTypeOK
  <2>4. saga.steps + 1 < 3 \/ saga.steps + 1 = 3 \/ saga.steps + 1 = 4
    BY <2>1
  <2> QED BY <2>1, <2>2, <2>3, <2>4, <1>i DEF OnTheWay, OnTheWayBack, AtTheEnd, UpTo, Terminal
<1>7. CASE Verify
  <2>1. saga.undone = {} /\ saga.steps = 3 /\ At(3, vps) /\ saga.phase \notin Terminal /\ vps' = vps
    BY <1>7, <1>i, <1>p DEF Verify, OnTheWay
  <2>3. CASE exec' = Undoing(saga.steps) /\ UNCHANGED saga
    <3>1. exec'.pc = "undo" /\ exec'.todo = Todo(3, {}) /\ exec'.failed = FALSE
      BY <2>1, <2>3 DEF Undoing
    <3>2. ToUndo(exec'.todo, vps')
      BY <2>1, <3>1, <1>t, AtIsCovered
    <3> QED BY <2>1, <2>3, <3>1, <3>2 DEF OnTheWay, OnTheWayBack, AtTheEnd, UpTo, Terminal, At
  <2>4. CASE saga' = [saga EXCEPT !.phase = "awaiting_mobile_convergence"] /\ exec' = Idle
    <3>1. saga'.phase = "awaiting_mobile_convergence" /\ saga'.steps = 3 /\ saga'.undone = {}
          /\ exec'.pc = "idle"
      BY <2>1, <2>4, <1>t DEF Idle, DeployTypeOK
    <3> QED BY <2>1, <3>1 DEF OnTheWay, OnTheWayBack, AtTheEnd, UpTo, Terminal, At
  <2>5. CASE exec' = [exec EXCEPT !.pc = IF saga.steps = 3 THEN "before" ELSE "finish"] /\ UNCHANGED saga
    <3>1. exec'.pc = "before" /\ saga' = saga
      BY <2>1, <2>5, <1>t DEF DeployTypeOK
    <3> QED BY <2>1, <3>1 DEF OnTheWay, OnTheWayBack, AtTheEnd, UpTo, Terminal, At
  <2> QED BY <1>7, <2>3, <2>4, <2>5 DEF Verify
<1>8. CASE Finish
  <2>1. At(4, vps) /\ vps' = vps /\ saga'.phase = "ready" /\ exec'.pc = "idle"
    BY <1>8, <1>i, <1>p, <1>t DEF Finish, OnTheWay, Idle, DeployTypeOK
  <2> QED BY <2>1 DEF OnTheWay, OnTheWayBack, AtTheEnd, Terminal
<1>9. CASE Undo
  <2>1. PICK a \in exec.todo :
           /\ vps' = Effect(a, vps)
           /\ saga' = [saga EXCEPT !.undone = @ \union {a}]
           /\ exec' = [exec EXCEPT !.todo = @ \ {a}]
    BY <1>9 DEF Undo
  <2>2. /\ saga'.phase = saga.phase /\ saga'.undone # {}
        /\ exec'.pc = "undo" /\ exec'.failed = exec.failed /\ exec'.todo = exec.todo \ {a}
    BY <1>9, <2>1, <1>t DEF Undo, DeployTypeOK
  <2>3. exec.todo \in SUBSET Actions
    BY <1>t DEF DeployTypeOK
  <2>4. vps'.previous = vps.previous /\ (ToUndo(exec.todo, vps) => ToUndo(exec'.todo, vps'))
    <3>1. vps \in HostType
      BY <1>t DEF DeployTypeOK, HostType
    <3>2. /\ Effect(a, vps).previous = vps.previous
          /\ ToUndo(exec.todo, vps) => ToUndo(exec.todo \ {a}, Effect(a, vps))
      BY <2>3, <3>1, EffectIsUndone
    <3> QED BY <2>1, <2>2, <3>2
  <2> QED BY <1>9, <2>2, <2>4, <1>i, <1>p DEF Undo, OnTheWay, OnTheWayBack, AtTheEnd, Terminal
<1>10. CASE UndoRaises
  <2>1. PICK a \in exec.todo :
           /\ vps' \in Landed(a, vps)
           /\ exec' = [exec EXCEPT !.todo = @ \ {a}, !.failed = TRUE]
    BY <1>10 DEF UndoRaises
  <2>2. exec'.pc = "undo" /\ exec'.failed /\ saga' = saga
    BY <1>10, <2>1, <1>t DEF UndoRaises, DeployTypeOK
  <2>3. exec.todo \in SUBSET Actions
    BY <1>t DEF DeployTypeOK
  <2>4. vps' = vps \/ vps' = Effect(a, vps)
    BY <2>1 DEF Landed
  <2>5. vps'.previous = vps.previous
    BY <2>3, <2>4, <1>t, EffectIsUndone
  <2> QED BY <1>10, <2>2, <2>5, <1>i, <1>p DEF UndoRaises, OnTheWay, OnTheWayBack, AtTheEnd, Terminal
<1>11. CASE UndoEnds
  <2>1. /\ saga'.phase = IF exec.failed THEN "recovery_required" ELSE "rolled_back"
        /\ exec'.pc = "idle" /\ vps' = vps /\ exec.todo = {} /\ exec.pc = "undo"
    BY <1>11, <1>t DEF UndoEnds, Idle, DeployTypeOK
  <2>2. vps.previous /\ (~exec.failed => At(0, vps))
    BY <2>1, <1>i, <1>t DEF OnTheWayBack, ToUndo, At, HostType
  <2> QED BY <2>1, <2>2 DEF OnTheWay, OnTheWayBack, AtTheEnd, Terminal
<1>12. CASE Stop
  <2>1. /\ saga' = saga /\ vps' = vps /\ vps.previous /\ exec.pc # "idle" /\ exec'.pc = "idle"
        /\ exec.pc = "undo" => ~exec.failed /\ saga.undone = {}
    BY <1>12, <1>t DEF Stop, Idle, DeployTypeOK
  <2>2. saga.undone = {} /\ UpTo(saga.steps, vps)
    <3>1. CASE exec.pc = "undo"
      BY <2>1, <3>1, <1>i DEF OnTheWayBack
    <3>2. CASE exec.pc \in {"before", "perform"}
      BY <2>1, <3>2, <1>i, <1>p DEF OnTheWay
    <3>3. CASE exec.pc = "after"
      BY <2>1, <3>3, <1>i, <1>p, <1>t DEF OnTheWay, UpTo, At
    <3>4. CASE exec.pc = "verify"
      BY <2>1, <3>4, <1>i, <1>p DEF OnTheWay, UpTo
    <3>5. CASE exec.pc = "finish"
      BY <2>1, <3>5, <1>i, <1>p DEF OnTheWay, At
    <3> QED BY <2>1, <3>1, <3>2, <3>3, <3>4, <3>5, <1>t DEF DeployTypeOK
  <2> QED BY <2>1, <2>2, <1>i DEF OnTheWay, OnTheWayBack, AtTheEnd
<1>13. CASE UNCHANGED deployVars
  BY <1>13, <1>i DEF deployVars, OnTheWay, OnTheWayBack, AtTheEnd
<1> QED
  BY <1>1, <1>2, <1>3, <1>4, <1>5, <1>6, <1>7, <1>8, <1>9, <1>10, <1>11, <1>12, <1>13 DEF DeployNext

\* Every reachable state of a deployment is well typed: whatever raises and
\* however often the process is killed, the journal of VpsSagaExecutor and
\* the host hold nothing else.
THEOREM DeploymentIsTyped == DeploySpec => []DeployTypeOK
<1>1. DeployInv => DeployTypeOK
  BY DEF DeployInv
<1> QED BY <1>1, DeployInvInit, DeployInvStep, PTL DEF DeploySpec

\* For any number of kills: "ready" is only written with the staged relay
\* serving and the Mac on it, "rolled_back" only with everything as before,
\* unless a kill cut a compensation of vps.py in two.
THEOREM DeploymentSettlesWhole == DeploySpec => []SettledIsWhole
<1>1. DeployInv => SettledIsWhole
  <2> SUFFICES ASSUME DeployInv, ~torn
               PROVE  /\ saga.phase = "ready" =>
                           vps = [staged |-> TRUE, serving |-> "staged", mac |-> "staged", previous |-> FALSE]
                      /\ saga.phase = "rolled_back" =>
                           vps = [staged |-> FALSE, serving |-> "previous", mac |-> "previous", previous |-> TRUE]
    BY DEF SettledIsWhole
  <2>1. AtTheEnd /\ vps \in HostType
    BY DEF DeployInv, DeployTypeOK, HostType
  <2>2. vps.staged \in BOOLEAN /\ vps.previous \in BOOLEAN
    BY <2>1 DEF HostType
  <2>3. ASSUME NEW x \in BOOLEAN, x PROVE x = TRUE
    BY <2>3
  <2>4. ASSUME NEW x \in BOOLEAN, ~x PROVE x = FALSE
    BY <2>4
  <2>5. ASSUME NEW b \in BOOLEAN, NEW r, NEW m, NEW p \in BOOLEAN,
               vps.staged = b, vps.serving = r, vps.mac = m, vps.previous = p
        PROVE  vps = [staged |-> b, serving |-> r, mac |-> m, previous |-> p]
    BY <2>1, <2>5 DEF HostType
  <2>6. ASSUME At(4, vps)
        PROVE  vps = [staged |-> TRUE, serving |-> "staged", mac |-> "staged", previous |-> FALSE]
    <3>1. vps.staged /\ ~vps.previous /\ vps.serving = "staged" /\ vps.mac = "staged"
      BY <2>6 DEF At
    <3>2. vps.staged = TRUE /\ vps.previous = FALSE
      BY <2>2, <2>3, <2>4, <3>1, Zenon
    <3> QED BY <2>5, <3>1, <3>2, Zenon
  <2>7. ASSUME At(0, vps)
        PROVE  vps = [staged |-> FALSE, serving |-> "previous", mac |-> "previous", previous |-> TRUE]
    <3>1. ~vps.staged /\ vps.previous /\ vps.serving = "previous" /\ vps.mac = "previous"
      BY <2>7 DEF At
    <3>2. vps.staged = FALSE /\ vps.previous = TRUE
      BY <2>2, <2>3, <2>4, <3>1, Zenon
    <3> QED BY <2>5, <3>1, <3>2, Zenon
  <2> QED BY <2>1, <2>6, <2>7, Zenon DEF AtTheEnd
<1> QED BY <1>1, DeployInvInit, DeployInvStep, PTL DEF DeploySpec

\* For any number of kills: the previous release is only gone from the host
\* once the staged one serves and the Mac uses it, so there is always a
\* relay to start, unless a kill cut a compensation in two.
THEOREM DeploymentLeavesARelay == DeploySpec => []ARelayIsLeft
<1>1. DeployInv => ARelayIsLeft
  BY DEF DeployInv, ARelayIsLeft, AtTheEnd, At
<1> QED BY <1>1, DeployInvInit, DeployInvStep, PTL DEF DeploySpec

-----------------------------------------------------------------------------
(* The retirement.  Where execute() is says what the journal says, and the *)
(* journal says whether the command was sent.                              *)

\* Nothing was sent, and none can be on its way.
NothingSent == sent = 0 /\ flying = 0 /\ ~remote.retired

RetireInv ==
  /\ RetireTypeOK
  /\ pc \in {"stage", "staged", "preflight", "journal", "compensate"} \union Settled =>
       phase \in {"prepared", "staged"}
  /\ pc = "dispatch" => phase = "dispatching" /\ NothingSent
  /\ pc = "answer" => phase = "dispatching"
  /\ pc = "reconcile" => phase = "retirement_outcome_unknown"
  /\ phase \in Settled \union {"prepared", "staged"} => NothingSent
  /\ sent <= 1
  /\ pc \in {"journal", "dispatch"} \/ sent > 0 => remote.helper
  /\ ProofIsTrue

\* A dispatch starts with the invariant.
LEMMA RetireInvInit == RetireInit => RetireInv
<1> SUFFICES ASSUME RetireInit PROVE RetireInv
  OBVIOUS
<1>1. RetireTypeOK
  BY KillsAssumption DEF RetireInit, RetireTypeOK, Settled
<1> QED BY <1>1 DEF RetireInit, RetireInv, NothingSent, ProofIsTrue, Settled

\* One step keeps the types of the retirement's variables.
LEMMA RetireTypeStep ==
  ASSUME RetireTypeOK, [RetireNext]_retireVars
  PROVE  RetireTypeOK'
<1> USE DEF RetireTypeOK
<1>1. CASE Start
  BY <1>1 DEF Start
<1>2. CASE Reconcile
  BY <1>2 DEF Reconcile, Return
<1>3. CASE Stage
  BY <1>3 DEF Stage
<1>4. CASE SaveStaged
  BY <1>4 DEF SaveStaged
<1>5. CASE Preflight
  BY <1>5 DEF Preflight
<1>6. CASE CompensateStage
  BY <1>6 DEF CompensateStage, Settled
<1>7. CASE SaveCompensated
  BY <1>7 DEF SaveCompensated, Return
<1>8. CASE JournalDispatch
  BY <1>8 DEF JournalDispatch
<1>9. CASE Dispatch
  BY <1>9 DEF Dispatch
<1>10. CASE HostRuns
  BY <1>10 DEF HostRuns
<1>11. CASE Answer
  BY <1>11 DEF Answer, Return
<1>12. CASE Kill
  BY <1>12, KillsAssumption DEF Kill, Return
<1>13. CASE ChangeSource
  BY <1>13 DEF ChangeSource
<1>14. CASE UNCHANGED retireVars
  BY <1>14 DEF retireVars
<1> QED BY <1>1, <1>2, <1>3, <1>4, <1>5, <1>6, <1>7, <1>8, <1>9, <1>10, <1>11, <1>12, <1>13, <1>14
  DEF RetireNext

\* Every step of a dispatch keeps it.
LEMMA RetireInvStep ==
  ASSUME RetireInv, [RetireNext]_retireVars
  PROVE  RetireInv'
<1>t. RetireTypeOK /\ RetireTypeOK'
  BY RetireTypeStep DEF RetireInv
<1> USE <1>t DEF RetireInv, NothingSent, ProofIsTrue
<1>1. CASE Start
  BY <1>1 DEF Start, RetireTypeOK, Settled
<1>2. CASE Reconcile
  BY <1>2 DEF Reconcile, Return, Settled
<1>3. CASE Stage
  BY <1>3 DEF Stage, RetireTypeOK, Settled
<1>4. CASE SaveStaged
  BY <1>4 DEF SaveStaged, Settled
<1>5. CASE Preflight
  BY <1>5 DEF Preflight, Settled
<1>6. CASE CompensateStage
  BY <1>6 DEF CompensateStage, RetireTypeOK, Settled
<1>7. CASE SaveCompensated
  BY <1>7 DEF SaveCompensated, Return, Settled
<1>8. CASE JournalDispatch
  BY <1>8 DEF JournalDispatch, Settled
<1>9. CASE Dispatch
  BY <1>9 DEF Dispatch, Settled
<1>10. CASE HostRuns
  BY <1>10 DEF HostRuns, RetireTypeOK, Settled
<1>11. CASE Answer
  BY <1>11 DEF Answer, Return, Settled
<1>12. CASE Kill
  BY <1>12 DEF Kill, Return, Settled
<1>13. CASE ChangeSource
  BY <1>13 DEF ChangeSource, Settled
<1>14. CASE UNCHANGED retireVars
  BY <1>14 DEF retireVars
<1> QED BY <1>1, <1>2, <1>3, <1>4, <1>5, <1>6, <1>7, <1>8, <1>9, <1>10, <1>11, <1>12, <1>13, <1>14
  DEF RetireNext

\* Every reachable state of a remote retirement is well typed.
THEOREM RetirementIsTyped == RetireSpec => []RetireTypeOK
<1>1. RetireInv => RetireTypeOK
  BY DEF RetireInv
<1> QED BY <1>1, RetireInvInit, RetireInvStep, PTL DEF RetireSpec

\* For any number of kills and of further execute() calls, the irreversible
\* command of LegacyRetirementSaga is sent once at most, and an operation it
\* gave up has sent none and can be believed to have retired nothing.
THEOREM RetirementIsFinal == RetireSpec => []DispatchIsFinal
<1>1. RetireInv => DispatchIsFinal
  BY DEF RetireInv, DispatchIsFinal, DispatchedOnce, GivenUpIsInert, NothingSent
<1> QED BY <1>1, RetireInvInit, RetireInvStep, PTL DEF RetireSpec

\* No compensate_stage takes the helper away from under a command that may
\* still run, however late the host runs it.
THEOREM HelperIsLeft == RetireSpec => []HelperOutlivesDispatch
<1>1. RetireInv => HelperOutlivesDispatch
  BY DEF RetireInv, HelperOutlivesDispatch
<1> QED BY <1>1, RetireInvInit, RetireInvStep, PTL DEF RetireSpec

\* An execute() that returned "proof_ready" said so of a retired relay.
THEOREM RetirementProofIsTrue == RetireSpec => []ProofIsTrue
<1>1. RetireInv => ProofIsTrue
  BY DEF RetireInv
<1> QED BY <1>1, RetireInvInit, RetireInvStep, PTL DEF RetireSpec

-----------------------------------------------------------------------------
(* The removal.                                                            *)

\* A removal is on its way, its preflight passed.
Removing == un.pc \in {"list", "revoke", "forget", "stop", "remove"}

\* What the preflight saw is intact, but for what it left to Obsidian and
\* for the plugin folder, which only goes when it is empty.
SinceThePreflight ==
  \A r \in Edited : r # "plugin" => r \in late.edits \/ (veto /\ r = "shipped")

\* All that is still there is listed, but for what Obsidian looks after.
Listed ==
  \A r \in Resources \ {"plugin"} : Present(r) => r \in un.todo \/ (veto /\ r = "shipped")

RemovalInv ==
  /\ UninstallTypeOK
  /\ Removing => receipt = "installed" /\ SinceThePreflight /\ Listed
  /\ un.pc = "purge" => receipt = "uninstalled"
  /\ un.pc \in {"forget", "stop", "remove"} => active \subseteq late.phones
  /\ un.pc \in {"stop", "remove"} => ~key
  /\ un.pc = "remove" => ~running
  /\ KeepsWhatItDoesNotOwn
  /\ UninstalledIsClean

\* What is asked of a directory's contents, kind by kind.
LEMMA ContentsOf ==
  /\ \A r \in Resources : Contents(r) \subseteq {"release", "shipped"}
  /\ \A r \in Resources : "shipped" \in Contents(r) => r = "plugin"
BY DEF Contents, Resources

\* A removal starts with the invariant.
LEMMA RemovalInit == UninstallInit => RemovalInv
<1> SUFFICES ASSUME UninstallInit PROVE RemovalInv
  OBVIOUS
<1>1. UninstallTypeOK
  BY UninstallAssumption DEF UninstallInit, UninstallTypeOK, NotRunning
<1>2. KeepsWhatItDoesNotOwn
  BY DEF UninstallInit, KeepsWhatItDoesNotOwn, Present, Resources
<1>3. UninstalledIsClean
  BY DEF UninstallInit, UninstalledIsClean
<1> QED BY <1>1, <1>2, <1>3 DEF UninstallInit, RemovalInv, NotRunning, Removing

\* One step keeps the types of the removal's variables.
LEMMA RemovalTypeStep ==
  ASSUME UninstallTypeOK, [UninstallNext]_uninstallVars
  PROVE  UninstallTypeOK'
<1> USE DEF UninstallTypeOK
<1>m. Mishap => mishaps' \in 0..MaxMishaps
  BY UninstallAssumption DEF Mishap
<1>i. NotRunning \in [pc : {"idle"}, purge : BOOLEAN, listed : SUBSET Phones, todo : SUBSET Resources]
  BY DEF NotRunning
<1>1. CASE Begin
  <2>1. PICK purge \in BOOLEAN :
          \/ /\ un' = [NotRunning EXCEPT !.pc = "purge"] /\ UNCHANGED <<outcome, late, lost>>
          \/ Outcome("owned_resource_modified") /\ UNCHANGED <<late, lost>>
          \/ /\ un' = [pc |-> "list", purge |-> purge, listed |-> {}, todo |-> Checked]
             /\ late' = [late EXCEPT !.edits = {}] /\ lost' = {}
             /\ UNCHANGED outcome
    BY <1>1 DEF Begin
  <2>2. Checked \in SUBSET Resources
    BY DEF Checked
  <2>3. UNCHANGED <<files, veto, active, key, running, receipt, mishaps>>
    BY <1>1 DEF Begin
  <2>4. CASE un' = [NotRunning EXCEPT !.pc = "purge"] /\ UNCHANGED <<outcome, late, lost>>
    BY <2>3, <2>4, <1>i DEF NotRunning
  <2>5. CASE Outcome("owned_resource_modified") /\ UNCHANGED <<late, lost>>
    BY <2>3, <2>5, <1>i DEF Outcome
  <2>6. CASE /\ un' = [pc |-> "list", purge |-> purge, listed |-> {}, todo |-> Checked]
             /\ late' = [late EXCEPT !.edits = {}] /\ lost' = {}
             /\ UNCHANGED outcome
    BY <2>2, <2>3, <2>6
  <2> QED BY <2>1, <2>4, <2>5, <2>6
<1>2. CASE List
  BY <1>2 DEF List
<1>3. CASE Revoke
  BY <1>3 DEF Revoke
<1>4. CASE ListAgain
  BY <1>4, <1>i DEF ListAgain, Goto, Outcome
<1>5. CASE Forget
  BY <1>5 DEF Forget, Goto
<1>6. CASE StopServices
  BY <1>6 DEF StopServices, Goto, Resources
<1>7. CASE PreconditionFails
  BY <1>7, <1>m, <1>i DEF PreconditionFails, Outcome
<1>8. CASE Remove
  <2>1. PICK r \in un.todo :
          LET gone == IF veto /\ r \in PluginResources THEN {} ELSE Goes(r) IN
          /\ files' = [x \in Resources |-> IF x \in gone THEN "absent" ELSE files[x]]
          /\ lost' = lost \union (gone \intersect Edited)
          /\ un' = [un EXCEPT !.todo = @ \ {r}]
    BY <1>8 DEF Remove
  <2>2. files' \in [Resources -> {"intact", "edited", "absent"}]
    BY <2>1
  <2>3. lost' \subseteq Resources
    BY <2>1 DEF Edited
  <2> QED BY <1>8, <2>1, <2>2, <2>3 DEF Remove
<1>9. CASE RemoveRaises
  <2>1. files' \in [Resources -> {"intact", "edited", "absent"}]
    BY <1>9 DEF RemoveRaises
  <2> QED BY <1>9, <2>1, <1>m, <1>i DEF RemoveRaises, Outcome
<1>10. CASE MarkUninstalled
  BY <1>10, <1>i DEF MarkUninstalled, Goto, Outcome
<1>11. CASE Purge
  BY <1>11, <1>m, <1>i DEF Purge, Outcome
<1>12. CASE Killed
  BY <1>12, <1>m, <1>i DEF Killed, Outcome
<1>13. CASE Edit
  BY <1>13, <1>m DEF Edit
<1>14. CASE ObsidianInstalls
  BY <1>14, <1>m DEF ObsidianInstalls, Resources
<1>15. CASE PairsLate
  BY <1>15, <1>m DEF PairsLate
<1>16. CASE UNCHANGED uninstallVars
  BY <1>16 DEF uninstallVars
<1> QED BY <1>1, <1>2, <1>3, <1>4, <1>5, <1>6, <1>7, <1>8, <1>9, <1>10, <1>11, <1>12, <1>13, <1>14,
           <1>15, <1>16 DEF UninstallNext

\* Every step of a removal keeps it.
LEMMA RemovalStep ==
  ASSUME RemovalInv, [UninstallNext]_uninstallVars
  PROVE  RemovalInv'
<1>t. UninstallTypeOK /\ UninstallTypeOK'
  BY RemovalTypeStep DEF RemovalInv
<1>r. /\ un \in [pc : {"idle", "list", "revoke", "forget", "stop", "remove", "purge"},
                purge : BOOLEAN, listed : SUBSET Phones, todo : SUBSET Resources]
      /\ late \in [edits : SUBSET Resources, phones : SUBSET Phones]
      /\ files \in [Resources -> {"intact", "edited", "absent"}]
  BY <1>t DEF UninstallTypeOK
<1>s. "shipped" \in Resources /\ "agents" \in Resources
  BY DEF Resources
<1> USE <1>r, <1>s DEF RemovalInv, Removing, SinceThePreflight, Listed, KeepsWhatItDoesNotOwn,
        UninstalledIsClean, Edited, Present
<1>1. CASE Begin
  <2>0. UNCHANGED <<files, veto, active, key, running, receipt, mishaps>>
    BY <1>1 DEF Begin
  <2>1. CASE un' = [NotRunning EXCEPT !.pc = "purge"] /\ receipt = "uninstalled" /\ UNCHANGED <<outcome, late, lost>>
    BY <1>t, <2>0, <2>1 DEF NotRunning
  <2>2. CASE Outcome("owned_resource_modified") /\ UNCHANGED <<late, lost>>
    BY <1>t, <2>0, <2>2 DEF Outcome, NotRunning
  <2>3. ASSUME NEW purge \in BOOLEAN, receipt = "installed", \A r \in Checked : Unchanged(r),
               un' = [pc |-> "list", purge |-> purge, listed |-> {}, todo |-> Checked],
               late' = [late EXCEPT !.edits = {}], lost' = {}
        PROVE  RemovalInv'
    <3>1. \A r \in Resources : files[r] = "edited" => r = "plugin" \/ (veto /\ r = "shipped")
      BY <2>3 DEF Checked, Unchanged, PluginResources
    <3>2. \A r \in Resources \ {"plugin"} : Present(r) => r \in Checked \/ (veto /\ r = "shipped")
      BY DEF Checked, PluginResources
    <3> QED BY <1>t, <2>0, <2>3, <3>1, <3>2
  <2> QED BY <1>1, <2>1, <2>2, <2>3 DEF Begin
<1>2. CASE List
  BY <1>t, <1>2 DEF List
<1>3. CASE Revoke
  BY <1>t, <1>3 DEF Revoke
<1>4. CASE ListAgain
  BY <1>t, <1>4 DEF ListAgain, Goto, Outcome, NotRunning
<1>5. CASE Forget
  BY <1>t, <1>5 DEF Forget, Goto
<1>6. CASE StopServices
  <2>1. files' = [files EXCEPT !["agents"] = "absent"] /\ lost' = lost \union ({"agents"} \intersect Edited)
        /\ UNCHANGED <<veto, active, key, receipt, late, mishaps>> /\ un' = [un EXCEPT !.pc = "remove"]
        /\ running' = FALSE /\ un.pc = "stop"
    BY <1>6 DEF StopServices, Goto
  <2>2. lost' \subseteq late'.edits
    BY <2>1
  <2> QED BY <1>t, <2>1, <2>2
<1>7. CASE PreconditionFails
  BY <1>t, <1>7 DEF PreconditionFails, Outcome, NotRunning
<1>8. CASE Remove
  <2>1. PICK r \in un.todo :
          LET gone == IF veto /\ r \in PluginResources THEN {} ELSE Goes(r) IN
          /\ Contents(r) \intersect un.todo = {}
          /\ files' = [x \in Resources |-> IF x \in gone THEN "absent" ELSE files[x]]
          /\ lost' = lost \union (gone \intersect Edited)
          /\ un' = [un EXCEPT !.todo = @ \ {r}]
    BY <1>8 DEF Remove
  <2> DEFINE gone == IF veto /\ r \in PluginResources THEN {} ELSE Goes(r)
  <2>2. UNCHANGED <<veto, active, key, running, receipt, outcome, late, mishaps>> /\ un.pc = "remove"
    BY <1>8 DEF Remove
  <2>3. \A x \in gone \intersect Edited : x # "plugin" /\ ~(veto /\ x = "shipped")
    BY ContentsOf DEF Goes, PluginResources
  <2>4. r # "plugin" => r \in gone \/ (veto /\ r = "shipped")
    BY DEF Goes, PluginResources
  <2>5. veto => "shipped" \notin gone
    BY ContentsOf DEF Goes, PluginResources
  <2>a. /\ files' = [x \in Resources |-> IF x \in gone THEN "absent" ELSE files[x]]
        /\ lost' = lost \union (gone \intersect Edited)
        /\ un' = [un EXCEPT !.todo = @ \ {r}]
    BY <2>1
  <2> HIDE DEF gone
  <2>6. lost' \subseteq late'.edits
    BY <2>a, <2>2, <2>3
  <2>7. Listed' /\ SinceThePreflight'
    BY <2>a, <2>2, <2>4
  <2> QED BY <1>t, <2>a, <2>2, <2>5, <2>6, <2>7
<1>9. CASE RemoveRaises
  BY <1>t, <1>9 DEF RemoveRaises, Outcome, NotRunning, PluginResources
<1>10. CASE MarkUninstalled
  BY <1>t, <1>10 DEF MarkUninstalled, Goto, Outcome, NotRunning, PluginResources
<1>11. CASE Purge
  BY <1>t, <1>11 DEF Purge, Outcome, NotRunning
<1>12. CASE Killed
  BY <1>t, <1>12 DEF Killed, Outcome, NotRunning
<1>13. CASE Edit
  <2>1. PICK r \in Resources :
          /\ Present(r)
          /\ files' = [files EXCEPT ![r] = IF @ = "intact" THEN "edited" ELSE "intact"]
          /\ late' = [late EXCEPT !.edits = @ \union {r}]
    BY <1>13 DEF Edit
  <2>2. UNCHANGED <<veto, active, key, running, receipt, un, outcome, lost>>
    BY <1>13 DEF Edit
  <2>3. /\ late'.edits = late.edits \union {r} /\ late'.phones = late.phones
        /\ \A x \in Resources : x # r => files'[x] = files[x]
        /\ \A x \in Resources : (files'[x] # "absent") <=> (files[x] # "absent")
    BY <2>1
  <2> QED BY <1>t, <2>2, <2>3
<1>14. CASE ObsidianInstalls
  <2>1. /\ veto' = TRUE
        /\ files' = [files EXCEPT !["shipped"] = "edited", !["plugin"] = "intact"]
        /\ late' = [late EXCEPT !.edits = @ \union {"shipped"}]
        /\ UNCHANGED <<active, key, running, receipt, un, outcome, lost>>
    BY <1>14 DEF ObsidianInstalls
  <2>2. /\ late'.edits = late.edits \union {"shipped"} /\ late'.phones = late.phones
        /\ \A x \in Resources : x \notin PluginResources => files'[x] = files[x]
        /\ files'["shipped"] = "edited"
    BY <2>1 DEF PluginResources
  <2>3. veto' /\ UNCHANGED <<active, key, running, receipt, un, outcome, lost>>
    BY <2>1
  <2> QED BY <1>t, <2>2, <2>3 DEF PluginResources
<1>15. CASE PairsLate
  BY <1>t, <1>15 DEF PairsLate
<1>16. CASE UNCHANGED uninstallVars
  BY <1>t, <1>16 DEF uninstallVars
<1> QED BY <1>1, <1>2, <1>3, <1>4, <1>5, <1>6, <1>7, <1>8, <1>9, <1>10, <1>11, <1>12, <1>13, <1>14,
           <1>15, <1>16 DEF UninstallNext

\* Every reachable state of a removal is well typed.
THEOREM RemovalIsTyped == UninstallSpec => []UninstallTypeOK
<1>1. RemovalInv => UninstallTypeOK
  BY DEF RemovalInv
<1> QED BY <1>1, RemovalInit, RemovalStep, PTL DEF UninstallSpec

\* For any set of phones and any number of kills, failures, edits and late
\* pairings: OwnershipUninstaller removes nothing the user changed before its
\* preflight, nor a plugin Obsidian looks after.
THEOREM RemovalKeepsWhatItDoesNotOwn == UninstallSpec => []KeepsWhatItDoesNotOwn
<1>1. RemovalInv => KeepsWhatItDoesNotOwn
  BY DEF RemovalInv
<1> QED BY <1>1, RemovalInit, RemovalStep, PTL DEF UninstallSpec

\* And a receipt only says "uninstalled" when nothing owned is left, nothing
\* runs, and no credential is active but one paired after the second listing.
THEOREM RemovalEndsClean == UninstallSpec => []UninstalledIsClean
<1>1. RemovalInv => UninstalledIsClean
  BY DEF RemovalInv
<1> QED BY <1>1, RemovalInit, RemovalStep, PTL DEF UninstallSpec

=============================================================================
