------------------------ MODULE CommandRoutingProofs ------------------------
(***************************************************************************)
(* Proofs about CommandRouting: TypeOK, ExecutedOnce, ReceiptsAreTrue and  *)
(* NoLateExecution hold for every set of deliveries and every bound.       *)
(*                                                                         *)
(* The inductive invariant IInv joins five things that the code keeps in   *)
(* different places:                                                       *)
(*   Counts      requests and records of the phone;                        *)
(*   Phases      the Companion's connection and its command worker;        *)
(*   SentOnce    a delivery goes to the plugin in one request: before the  *)
(*               worker writes one it finds no result, and a connection    *)
(*               that is over never writes again;                          *)
(*   BoundFirst  the relay, and so the phone, hear of a connection after   *)
(*               the plugin was bound to it, and bindings ascend;          *)
(*   OneTicket   a delivery sent once is in one place on its way, a handler *)
(*               of it runs alone and before anything is said of it, and   *)
(*               what is said of it on the way back is so.                 *)
(* The module goes through the steps part by part (phone, relay, Companion,*)
(* plugin): a lemma "...Does" for each action says what it does to the     *)
(* fields that matter, and one lemma for each conjunct of IInv shows that  *)
(* every step keeps it.                                                    *)
(***************************************************************************)
EXTENDS CommandRouting, TLAPS

-----------------------------------------------------------------------------
(* The inductive invariant.                                                *)

\* How often a delivery was sent, and what has not begun yet.
Counts ==
    /\ \A d \in Deliveries :
          /\ asked[d] <= command[d].sends
          /\ command[d].status = "none" => command[d].gen = 0
          /\ command[d].status # "none" => command[d].sends > 0
    /\ bridge.sock = 0 => bridge.state = "down" /\ bridge.toPlugin = <<>>

(* The connection and its command worker.                                  *)
Phases ==
    /\ companion.gen = 0 => companion.phase = "idle"
    /\ companion.alive => companion.phase \in {"live", "closing"}
    /\ companion.phase \in {"idle", "binding"} => companion.worker.pc = "idle"
    /\ companion.worker.pc # "idle" =>
          /\ companion.worker.d \in Deliveries
          /\ command[companion.worker.d].gen = companion.gen
    /\ companion.worker.pc = "yielded" => companion.results[companion.worker.d] = "none"

IsCommand(request, d) == request.op = "command" /\ request.d = d

(* A delivery that was sent to the plugin is not sent again: its           *)
(* connection is over or will not be live again, or its worker knows the   *)
(* answer, waits for it or has failed.                                     *)
Spent(d) ==
    \/ command[d].gen < companion.gen
    \/ /\ command[d].gen = companion.gen
       /\ \/ companion.phase \in {"closing", "leaving", "idle"}
          \/ companion.results[d] # "none"
          \/ companion.worker.pc \in {"waiting", "failed"} /\ companion.worker.d = d

SentOnce ==
    /\ \A d \in Deliveries :
          executed[d] > 0 => executed[d] = 1 /\ command[d].gen # 0 /\ Spent(d)
    /\ \A i \in DOMAIN bridge.toPlugin : \A d \in Deliveries :
          IsCommand(bridge.toPlugin[i], d) =>
             /\ bridge.toPlugin[i].gen = command[d].gen
             /\ executed[d] = 0 /\ Spent(d)
             /\ \A j \in DOMAIN bridge.toPlugin :
                   IsCommand(bridge.toPlugin[j], d) => i = j

(* The plugin has done with the connections before g, and will not be      *)
(* bound to g again or to one before it.                                   *)
Passed(g) ==
    /\ g <= companion.gen
    /\ desktop.bound = 0 \/ g <= desktop.bound
    /\ \A i \in DOMAIN bridge.toPlugin :
          bridge.toPlugin[i].op = "bind" => g < bridge.toPlugin[i].gen

\* The bindings to come are for later and later connections.
BindsAscend ==
    /\ desktop.bound <= companion.gen
    /\ \A i \in DOMAIN bridge.toPlugin : bridge.toPlugin[i].gen <= companion.gen
    /\ \A i, j \in DOMAIN bridge.toPlugin :
          i < j /\ bridge.toPlugin[i].op = "bind" /\ bridge.toPlugin[j].op = "bind"
             => bridge.toPlugin[i].gen < bridge.toPlugin[j].gen

(* Nobody hears of a connection that the plugin has not been bound to.     *)
BoundFirst ==
    /\ BindsAscend
    /\ \A run \in desktop.running : run.request.op = "command"
    /\ \A r \in bridge.toServer : r.request.op = "bind" => Passed(r.request.gen)
    /\ companion.phase \in {"live", "closing"} => Passed(companion.gen)
    /\ \A g \in Gens : link[g].up # <<>> \/ link[g].handler \in {"announcing", "serving"}
                          => Passed(g)
    /\ Passed(mac) /\ Passed(phone.mac)
    /\ \A i \in DOMAIN phone.frames :
          phone.frames[i].type = "presence" => Passed(phone.frames[i].gen)

(* Where a delivery is, from the relay to the plugin, and what is known of *)
(* it once the plugin or the Companion has dealt with it.                  *)
OnLink(d) == \E g \in Gens : \E i \in DOMAIN link[g].down : link[g].down[i] = d
Queued(d) == \E i \in DOMAIN companion.queue : companion.queue[i] = d
Held(d) == companion.worker.pc = "yielded" /\ companion.worker.d = d
AtPlugin(d) == \E i \in DOMAIN bridge.toPlugin : IsCommand(bridge.toPlugin[i], d)
Running(d) == \E run \in desktop.running : IsCommand(run.request, d)
DealtWith(d) ==
    \/ executed[d] > 0 \/ desktop.receipts[d] # "none" \/ companion.results[d] # "none"
    \/ \E receipt \in ReceiptsUnderWay : receipt.d = d
    \/ \E r \in bridge.toServer : IsCommand(r.request, d)
    \/ Running(d)
    \/ command[d].status = "desktop_accepted"

\* A delivery that was not submitted.
Nowhere(d) ==
    /\ asked[d] = 0
    /\ ~OnLink(d) /\ ~Queued(d) /\ ~Held(d) /\ ~AtPlugin(d) /\ ~DealtWith(d)

\* No place holds a delivery twice.
LinkedOnce(d) ==
    \A g, h \in Gens : \A i \in DOMAIN link[g].down, j \in DOMAIN link[h].down :
        link[g].down[i] = d /\ link[h].down[j] = d => g = h /\ i = j
QueuedOnce(d) ==
    \A i, j \in DOMAIN companion.queue :
        companion.queue[i] = d /\ companion.queue[j] = d => i = j

\* A delivery that was sent once is in one place at most, in this order.
OnePlace(d) ==
    /\ asked[d] > 0 => ~OnLink(d) /\ ~Queued(d) /\ ~Held(d) /\ ~AtPlugin(d) /\ ~DealtWith(d)
    /\ OnLink(d) => ~Queued(d) /\ ~Held(d) /\ ~AtPlugin(d) /\ ~DealtWith(d)
    /\ Queued(d) => ~Held(d) /\ ~AtPlugin(d) /\ ~DealtWith(d)
    /\ Held(d) => ~AtPlugin(d) /\ ~DealtWith(d)
    /\ AtPlugin(d) => ~DealtWith(d)
    /\ LinkedOnce(d) /\ QueuedOnce(d)

\* No result of a delivery has left the plugin.
Unsaid(d) ==
    /\ \A receipt \in ReceiptsUnderWay : receipt.d # d
    /\ \A r \in bridge.toServer : ~IsCommand(r.request, d)
    /\ command[d].status # "desktop_accepted"

\* While a handler of a delivery runs, it is the only one and nothing was said.
RunsAlone(d) ==
    /\ \A run, other \in desktop.running :
          IsCommand(run.request, d) /\ IsCommand(other.request, d) => run = other
    /\ Running(d) => executed[d] > 0 /\ command[d].kind \in Awaits /\ Unsaid(d)

\* All that was said of a delivery, on any of the links, is so.
SaidIsSo(d) ==
    /\ \A receipt \in ReceiptsUnderWay : receipt.d = d => Means(receipt.result, d)
    /\ \A r \in bridge.toServer :
          IsCommand(r.request, d) /\ r.result # "error" => Means(r.result, d)
    /\ command[d].status = "desktop_accepted" =>
          executed[d] > 0 \/ command[d].kind \in Resolvable
    /\ RunsAlone(d)

Ticket(d) ==
    /\ command[d].status = "none" => Nowhere(d)
    /\ command[d].sends = 1 => OnePlace(d) /\ SaidIsSo(d)

OneTicket == \A d \in Deliveries : Ticket(d)

\* The inductive invariant.
IInv ==
    TypeOK /\ Counts /\ Phases /\ SentOnce /\ BoundFirst /\ OneTicket
-----------------------------------------------------------------------------
(* Types, one name for each variable that is not a number.                 *)

Commands == [status : Statuses, gen : 0..MaxGen, kind : Kinds, sends : 0..MaxSends]
Phones == [ws : BOOLEAN, mac : 0..MaxGen, frames : Seq(PhoneFrames)]
Answers == [d : Deliveries,
            status : {"relay_accepted", "rejected", "unknown", "ignored"}]
Links == [state : {"none", "open", "cut", "closed"},
          handler : {"none", "waiting", "announcing", "serving", "done"},
          down : Seq(Deliveries),
          up : Seq({Hello} \cup Receipts)]
Workers == [pc : {"idle", "yielded", "waiting", "failed"},
            d : Deliveries \cup {NoDelivery}]
Results == [Deliveries -> Outcomes \cup {"none"}]
Companions == [gen : 0..MaxGen,
               phase : {"idle", "binding", "live", "closing", "leaving"},
               alive : BOOLEAN, queue : Seq(Deliveries),
               worker : Workers, results : Results]
Socks == 0..(MaxFaults + 1)
Bridges == [sock : Socks, state : {"up", "dead", "down"}, bound : Socks,
            toPlugin : Seq(Requests), toServer : SUBSET Responses]
Runs == [request : Requests, sock : 1..(MaxFaults + 1)]
Memories == [Deliveries -> Remembered \cup {"none"}]
Desktops == [bound : 0..MaxGen,
             receipts : Memories,
             running : SUBSET Runs]

PhoneTyped ==
    /\ command \in [Deliveries -> Commands] /\ phone \in Phones
    /\ asked \in [Deliveries -> 0..MaxSends] /\ answers \subseteq Answers
RelayTyped == mac \in 0..MaxGen /\ link \in [Gens -> Links] /\ sessions \subseteq Gens
MacTyped ==
    /\ companion \in Companions /\ Len(companion.queue) <= CommandLimit
    /\ outbound \in Seq(Receipts)
PluginTyped ==
    bridge \in Bridges /\ desktop \in Desktops /\ executed \in [Deliveries -> 0..MaxSends]

(* TypeOK of CommandRouting, in parts that go with the parts of vars.      *)
LEMMA TypeParts == TypeOK <=> /\ PhoneTyped /\ RelayTyped /\ MacTyped /\ PluginTyped
                              /\ faults \in 0..MaxFaults
BY DEF TypeOK, PhoneTyped, RelayTyped, MacTyped, PluginTyped, Commands, Phones, Answers,
       Links, Companions, Workers, Results, Bridges, Socks, Desktops, Memories,
       Runs

(* The steps of Next, in the four parts of the system.                     *)
PhoneSteps ==
    \/ PhoneNext \/ PhoneDisconnects
    \/ \E d \in Deliveries : Refuse(d) \/ HttpFails(d)
RelaySteps == RelayNext \/ \E g \in Gens : LinkFails(g)
CompanionSteps == CompanionNext \/ RequestTimesOut \/ Restart
PluginSteps == PluginNext \/ PluginLeaves

\* A step of Next is one of the phone, the relay, the Companion or the plugin.
LEMMA NextParts ==
    Next => PhoneSteps \/ RelaySteps \/ CompanionSteps \/ PluginSteps
BY DEF Next, Trouble, PhoneSteps, RelaySteps, CompanionSteps, PluginSteps

\* What a step of the phone leaves alone.
LEMMA PhoneFrame ==
    PhoneSteps => UNCHANGED <<mac, link, sessions, companion, outbound, bridge, desktop,
                              executed>>
<1> USE DEF relayVars, macVars, pluginVars
<1>1. PhoneNext => UNCHANGED <<mac, link, sessions, companion, outbound, bridge, desktop,
                               executed>>
  BY DEF PhoneNext, Submit, Resend, KeyframeShows, AnswerArrives, PhoneReads, PhoneConnects
<1>2. QED
  BY <1>1 DEF PhoneSteps, PhoneDisconnects, Refuse, HttpFails

\* What a step of the relay leaves alone.
LEMMA RelayFrame ==
    RelaySteps => UNCHANGED <<command, sessions, companion, outbound, bridge, desktop,
                              executed>>
BY DEF RelaySteps, RelayNext, Route, MacHello, MacAnnounces, MacReceipt, MacGone, LinkFails,
       phoneVars, relayVars, macVars, pluginVars

\* What a step of the Companion leaves alone.
LEMMA CompanionFrame ==
    CompanionSteps => UNCHANGED <<command, phone, asked, answers, mac, desktop, executed>>
<1> USE DEF phoneVars, relayVars, macVars, pluginVars
<1>1. Connect \/ BindReturns \/ ReaderTakes \/ WorkerTakes \/ WorkerSends \/ WorkerReturns
          => UNCHANGED <<command, phone, asked, answers, mac, desktop, executed>>
  BY DEF Connect, BindReturns, ReaderTakes, WorkerTakes, WorkerSends, WorkerReturns
<1>2. WriterWrites \/ RelayLost \/ TaskFails \/ InvalidateReturns \/ Leave
          \/ RequestTimesOut \/ Restart
          => UNCHANGED <<command, phone, asked, answers, mac, desktop, executed>>
  BY DEF WriterWrites, RelayLost, TaskFails, InvalidateReturns, Leave, RequestTimesOut,
         Restart, Ends
<1>3. QED
  BY <1>1, <1>2 DEF CompanionSteps, CompanionNext

\* What a step of the plugin leaves alone.
LEMMA PluginFrame ==
    PluginSteps => UNCHANGED <<command, phone, asked, answers, mac, link, sessions, outbound>>
BY DEF PluginSteps, PluginNext, PluginLeaves, ServerNotices, PluginConnects, PluginBinds,
       PluginInvalidates, PluginExecutes, HandlerReturns, phoneVars, relayVars, macVars,
       pluginVars

-----------------------------------------------------------------------------
(* Types.                                                                  *)

\* A move of the phone's record changes its status only, and keeps it sent.
LEMMA MovedTyped ==
    ASSUME NEW r \in Commands, NEW s \in Statuses
    PROVE  /\ Moved(r, s) \in Commands
           /\ Moved(r, s).gen = r.gen /\ Moved(r, s).sends = r.sends
           /\ Moved(r, s).kind = r.kind
           /\ Moved(r, s).status \in {r.status, s}
           /\ Moved(r, s).status = "none" <=> r.status = "none"
<1>1. CASE s \in Allowed[r.status]
  <2>1. Moved(r, s) = [r EXCEPT !.status = s]
    BY <1>1 DEF Moved
  <2>2. r.status # "none"
    BY <1>1 DEF Allowed
  <2>3. s # "none"
    BY <1>1 DEF Allowed, Commands, Statuses
  <2>4. QED
    BY <2>1, <2>2, <2>3 DEF Commands
<1>2. CASE s \notin Allowed[r.status]
  BY <1>2 DEF Moved
<1>3. QED
  BY <1>1, <1>2

\* markUnacceptedCommandsUnknown and rejectUnacceptedCommands, on every record.
LEMMA AllMovedTyped ==
    ASSUME command \in [Deliveries -> Commands],
           NEW from, NEW s \in Statuses, command' = AllMoved(from, s)
    PROVE  /\ command' \in [Deliveries -> Commands]
           /\ \A d \in Deliveries :
                 /\ command'[d].gen = command[d].gen /\ command'[d].sends = command[d].sends
                 /\ command'[d].kind = command[d].kind
                 /\ command'[d].status \in {command[d].status, s}
                 /\ command'[d].status = "none" <=> command[d].status = "none"
<1>1. \A d \in Deliveries : command'[d] \in {command[d], Moved(command[d], s)}
  BY DEF AllMoved
<1>2. \A d \in Deliveries : command[d] \in Commands
  OBVIOUS
<1>3. ASSUME NEW d \in Deliveries
      PROVE  /\ command'[d] \in Commands
             /\ command'[d].gen = command[d].gen /\ command'[d].sends = command[d].sends
             /\ command'[d].kind = command[d].kind
             /\ command'[d].status \in {command[d].status, s}
             /\ command'[d].status = "none" <=> command[d].status = "none"
  BY <1>1, <1>2, MovedTyped
<1>4. command' \in [Deliveries -> Commands]
  BY <1>3 DEF AllMoved
<1>5. QED
  BY <1>3, <1>4

(* Submit and Resend, on the record and the requests of their delivery.    *)
LEMMA SubmitDoes ==
    ASSUME PhoneTyped, NEW d \in Deliveries, Submit(d)
    PROVE  /\ PhoneTyped'
           /\ command[d].status = "none" /\ command'[d].status = "local_pending"
           /\ command'[d].gen \in Gens
           /\ command'[d].sends = 1 /\ asked'[d] = 1
           /\ \A e \in Deliveries \ {d} : command'[e] = command[e] /\ asked'[e] = asked[e]
           /\ UNCHANGED phone
<1>1. phone \in Phones /\ command \in [Deliveries -> Commands]
      /\ asked \in [Deliveries -> 0..MaxSends]
  BY DEF PhoneTyped
<1>2. phone.mac \in Gens
  BY <1>1 DEF Phones, Submit, Gens
<1>3. MaxSends \in Nat /\ 1 \in 0..MaxSends
  BY CommandRoutingAssumption DEF Submit
<1>4. PICK kind \in Kinds :
          command' = [command EXCEPT ![d] = [status |-> "local_pending", gen |-> phone.mac,
                                             kind |-> kind, sends |-> 1]]
  BY DEF Submit
<1>5. command'[d] = [status |-> "local_pending", gen |-> phone.mac, kind |-> kind,
                     sends |-> 1]
  BY <1>1, <1>4
<1>6. command'[d] \in Commands
  BY <1>2, <1>3, <1>5 DEF Commands, Statuses, Gens
<1>7. command' \in [Deliveries -> Commands]
  BY <1>1, <1>4, <1>5, <1>6
<1>8. asked' = [asked EXCEPT ![d] = 1]
  BY DEF Submit
<1>9. asked' \in [Deliveries -> 0..MaxSends] /\ asked'[d] = 1
  BY <1>1, <1>3, <1>8
<1>10. UNCHANGED <<phone, answers>>
  BY DEF Submit
<1>11. PhoneTyped'
  BY <1>7, <1>9, <1>10 DEF PhoneTyped
<1>12. QED
  BY <1>1, <1>2, <1>4, <1>5, <1>8, <1>9, <1>10, <1>11 DEF Submit

\* Resend sends the same delivery once more.
LEMMA ResendDoes ==
    ASSUME PhoneTyped, Counts, NEW d \in Deliveries, Resend(d)
    PROVE  /\ PhoneTyped'
           /\ command[d].status = "unknown" /\ command'[d].status = "unknown"
           /\ command'[d].gen = command[d].gen
           /\ command'[d].sends = command[d].sends + 1 /\ asked'[d] = asked[d] + 1
           /\ \A e \in Deliveries \ {d} : command'[e] = command[e] /\ asked'[e] = asked[e]
           /\ UNCHANGED phone
<1>1. command \in [Deliveries -> Commands] /\ asked \in [Deliveries -> 0..MaxSends]
  BY DEF PhoneTyped
<1>2. command[d] \in Commands /\ command[d].sends < MaxSends /\ asked[d] <= command[d].sends
  BY <1>1 DEF Resend, Counts
<1>3. command[d].sends + 1 \in 0..MaxSends /\ asked[d] + 1 \in 0..MaxSends
  BY <1>1, <1>2, CommandRoutingAssumption DEF Commands
<1>4. /\ command' = [command EXCEPT ![d].sends = @ + 1]
      /\ asked' = [asked EXCEPT ![d] = @ + 1]
      /\ UNCHANGED <<phone, answers>>
  BY DEF Resend
<1>5. command'[d] = [command[d] EXCEPT !.sends = @ + 1]
  BY <1>1, <1>4
<1>6. /\ command'[d] \in Commands
      /\ command'[d].status = command[d].status /\ command'[d].gen = command[d].gen
      /\ command'[d].sends = command[d].sends + 1
  BY <1>2, <1>3, <1>5 DEF Commands
<1>7. command' \in [Deliveries -> Commands]
  BY <1>1, <1>4, <1>5, <1>6
<1>8. asked' \in [Deliveries -> 0..MaxSends] /\ asked'[d] = asked[d] + 1
  BY <1>1, <1>3, <1>4
<1>9. PhoneTyped'
  BY <1>4, <1>7, <1>8 DEF PhoneTyped
<1>10. QED
  BY <1>1, <1>4, <1>6, <1>8, <1>9 DEF Resend

(* Every other step of the phone sends nothing.                            *)
Settles ==
    /\ PhoneTyped'
    /\ \A d \in Deliveries :
          /\ command'[d].gen = command[d].gen /\ command'[d].sends = command[d].sends
          /\ command'[d].kind = command[d].kind
          /\ command'[d].status = "none" <=> command[d].status = "none"
          /\ asked'[d] <= asked[d]

\* A step that moves one record settles.
LEMMA SettlesOne ==
    ASSUME PhoneTyped, NEW d \in Deliveries, NEW s \in Statuses,
           command' = [command EXCEPT ![d] = Moved(@, s)],
           UNCHANGED asked, phone' \in Phones, answers' \subseteq Answers
    PROVE  Settles /\ \A e \in Deliveries : command'[e].status \in {command[e].status, s}
<1>1. /\ command \in [Deliveries -> Commands] /\ asked \in [Deliveries -> 0..MaxSends]
      /\ \A e \in Deliveries : command[e] \in Commands
  BY DEF PhoneTyped
<1>2. /\ command'[d] = Moved(command[d], s)
      /\ \A e \in Deliveries : e # d => command'[e] = command[e]
  BY <1>1
<1>3. /\ command'[d] \in Commands
      /\ command'[d].gen = command[d].gen /\ command'[d].sends = command[d].sends
      /\ command'[d].kind = command[d].kind
      /\ command'[d].status \in {command[d].status, s}
      /\ command'[d].status = "none" <=> command[d].status = "none"
  BY <1>1, <1>2, MovedTyped
<1>4. command' \in [Deliveries -> Commands]
  BY <1>1, <1>2, <1>3
<1>5. \A e \in Deliveries : asked'[e] <= asked[e]
  BY <1>1
<1>6. QED
  BY <1>1, <1>2, <1>3, <1>4, <1>5 DEF Settles, PhoneTyped

\* A step that moves all records of some statuses settles.
LEMMA SettlesAll ==
    ASSUME PhoneTyped, NEW from, NEW s \in Statuses, command' = AllMoved(from, s),
           UNCHANGED asked, phone' \in Phones, answers' \subseteq Answers
    PROVE  Settles /\ \A e \in Deliveries : command'[e].status \in {command[e].status, s}
<1>1. command \in [Deliveries -> Commands] /\ asked \in [Deliveries -> 0..MaxSends]
  BY DEF PhoneTyped
<1>2. \A e \in Deliveries : asked'[e] <= asked[e]
  BY <1>1
<1>3. QED
  BY <1>1, <1>2, AllMovedTyped DEF Settles, PhoneTyped

\* A step that moves no record and asks for nothing settles.
LEMMA SettlesNone ==
    ASSUME PhoneTyped, UNCHANGED command, asked' \in [Deliveries -> 0..MaxSends],
           \A d \in Deliveries : asked'[d] <= asked[d],
           phone' \in Phones, answers' \subseteq Answers
    PROVE  Settles
BY DEF Settles, PhoneTyped

\* A request that is answered, refused or lost is one less.
LEMMA AskedLess ==
    ASSUME PhoneTyped, NEW d \in Deliveries, asked[d] > 0,
           asked' = [asked EXCEPT ![d] = @ - 1]
    PROVE  /\ asked' \in [Deliveries -> 0..MaxSends]
           /\ \A e \in Deliveries : asked'[e] <= asked[e]
           /\ asked'[d] = asked[d] - 1
<1>1. asked \in [Deliveries -> 0..MaxSends] /\ asked[d] \in 0..MaxSends
  BY DEF PhoneTyped
<1>2. asked[d] - 1 \in 0..MaxSends /\ asked'[d] = asked[d] - 1
  BY <1>1, CommandRoutingAssumption
<1>3. QED
  BY <1>1, <1>2

\* What the phone's replica holds as accepted by the desktop, it had from a receipt,
\* a keyframe, or before.
Accepts(d) ==
    command'[d].status = "desktop_accepted" =>
       \/ command[d].status = "desktop_accepted"
       \/ executed[d] > 0 /\ command[d].kind = "submit"
       \/ /\ phone.frames # <<>> /\ Head(phone.frames).type = "receipt"
          /\ Head(phone.frames).d = d
          /\ Head(phone.frames).result \notin {"rejected", "unknown"}

\* The frames of the phone and the Mac it sees.
Reads ==
    /\ \/ phone'.frames = phone.frames
       \/ phone.frames # <<>> /\ phone'.frames = Tail(phone.frames)
       \/ phone'.frames = <<>>
       \/ phone'.frames = <<[type |-> "presence", gen |-> mac]>>
    /\ \/ phone'.mac \in {phone.mac, 0}
       \/ /\ phone.frames # <<>> /\ Head(phone.frames).type = "presence"
          /\ phone'.mac = Head(phone.frames).gen

\* The frames of the phone, their head and their rest.
LEMMA FramesTyped ==
    ASSUME PhoneTyped
    PROVE  /\ phone \in Phones /\ phone.frames \in Seq(PhoneFrames)
           /\ phone.frames # <<>> =>
                 /\ Head(phone.frames) \in PhoneFrames
                 /\ Tail(phone.frames) \in Seq(PhoneFrames)
BY DEF PhoneTyped, Phones

\* AnswerArrives settles the delivery it is about.
LEMMA AnswerArrivesDoes ==
    ASSUME PhoneTyped, AnswerArrives
    PROVE  Settles /\ Reads /\ \A d \in Deliveries : Accepts(d)
<1>1. PICK answer \in answers :
          /\ command' = [command EXCEPT ![answer.d] = Moved(@, answer.status)]
          /\ answers' = answers \ {answer}
          /\ UNCHANGED <<phone, asked>>
  BY DEF AnswerArrives
<1>2. answer \in Answers /\ answers' \subseteq Answers /\ phone' \in Phones
  BY <1>1 DEF PhoneTyped
<1>3. CASE answer.status # "ignored"
  <2>1. answer.d \in Deliveries /\ answer.status \in Statuses
        /\ answer.status # "desktop_accepted"
    BY <1>2, <1>3 DEF Answers, Statuses
  <2>2. Settles /\ \A e \in Deliveries : command'[e].status \in {command[e].status, answer.status}
    BY <1>1, <1>2, <2>1, SettlesOne
  <2>3. QED
    BY <1>1, <2>1, <2>2 DEF Reads, Accepts
<1>4. CASE answer.status = "ignored"
  <2>1. command \in [Deliveries -> Commands] /\ answer.d \in Deliveries
    BY <1>2 DEF PhoneTyped, Answers
  <2>2. command[answer.d].status \in Statuses
    BY <2>1 DEF Commands
  <2>3. answer.status \notin Allowed[command[answer.d].status]
    BY <1>4, <2>2 DEF Allowed, Statuses
  <2>4. Moved(command[answer.d], answer.status) = command[answer.d]
    BY <2>3 DEF Moved
  <2>5. command' = command
    BY <1>1, <2>1, <2>4
  <2>6. asked' \in [Deliveries -> 0..MaxSends] /\ \A d \in Deliveries : asked'[d] <= asked[d]
    BY <1>1 DEF PhoneTyped
  <2>7. Settles
    BY <1>2, <2>5, <2>6, SettlesNone
  <2>8. QED
    BY <1>1, <2>5, <2>7 DEF Reads, Accepts
<1>5. QED
  BY <1>3, <1>4

\* PhoneReads takes one frame: a presence, which may reject, or a receipt.
LEMMA PhoneReadsDoes ==
    ASSUME PhoneTyped, PhoneReads
    PROVE  Settles /\ Reads /\ \A d \in Deliveries : Accepts(d)
<1> DEFINE frame == Head(phone.frames)
           rest == [phone EXCEPT !.frames = Tail(@)]
<1>1. /\ phone.frames # <<>>
      /\ UNCHANGED <<asked, answers>>
      /\ \/ /\ frame.type = "presence"
            /\ phone' = [rest EXCEPT !.mac = frame.gen]
            /\ command' = IF frame.gen = 0
                          THEN AllMoved({"local_pending", "relay_accepted"}, "rejected")
                          ELSE command
         \/ /\ frame.type = "receipt"
            /\ phone' = rest
            /\ command' = [command EXCEPT ![frame.d] = Moved(@, ResultStatus(frame.result))]
  BY DEF PhoneReads
<1>2. frame \in PhoneFrames /\ phone \in Phones /\ Tail(phone.frames) \in Seq(PhoneFrames)
  BY <1>1, FramesTyped
<1>3. rest \in Phones /\ rest.frames = Tail(phone.frames) /\ rest.mac = phone.mac
  BY <1>2 DEF Phones
<1>4. answers' \subseteq Answers /\ UNCHANGED asked
  BY <1>1 DEF PhoneTyped
<1>5. asked' \in [Deliveries -> 0..MaxSends] /\ \A d \in Deliveries : asked'[d] <= asked[d]
  BY <1>4 DEF PhoneTyped
<1>6. CASE frame.type = "presence"
  <2>1. frame.gen \in 0..MaxGen
    BY <1>2, <1>6 DEF PhoneFrames, Receipts
  <2>2. phone' = [rest EXCEPT !.mac = frame.gen]
    BY <1>1, <1>6
  <2>3. phone' \in Phones /\ phone'.frames = Tail(phone.frames) /\ phone'.mac = frame.gen
    BY <1>3, <2>1, <2>2 DEF Phones
  <2>4. Reads
    BY <1>1, <1>6, <2>3 DEF Reads
  <2>5. CASE frame.gen = 0
    <3>1. command' = AllMoved({"local_pending", "relay_accepted"}, "rejected")
      BY <1>1, <1>6, <2>5
    <3>2. Settles /\ \A e \in Deliveries : command'[e].status \in {command[e].status, "rejected"}
      BY <1>4, <2>3, <3>1, SettlesAll DEF Statuses
    <3>3. QED
      BY <2>4, <3>2 DEF Accepts
  <2>6. CASE frame.gen # 0
    <3>1. UNCHANGED command
      BY <1>1, <1>6, <2>6
    <3>2. Settles
      BY <1>4, <1>5, <2>3, <3>1, SettlesNone
    <3>3. QED
      BY <2>4, <3>1, <3>2 DEF Accepts
  <2>7. QED
    BY <2>5, <2>6
<1>7. CASE frame.type = "receipt"
  <2>1. frame.d \in Deliveries /\ frame.result \in Outcomes
    BY <1>2, <1>7 DEF PhoneFrames, Receipts
  <2>2. ResultStatus(frame.result) \in Statuses
    BY DEF ResultStatus, Statuses
  <2>3. /\ phone' = rest
        /\ command' = [command EXCEPT ![frame.d] = Moved(@, ResultStatus(frame.result))]
    BY <1>1, <1>7
  <2>4. Reads
    BY <1>1, <1>3, <2>3 DEF Reads
  <2>5. Settles /\ \A e \in Deliveries :
                     command'[e].status \in {command[e].status, ResultStatus(frame.result)}
    BY <1>3, <1>4, <2>1, <2>2, <2>3, SettlesOne
  <2>6. \A e \in Deliveries : e # frame.d => command'[e] = command[e]
    BY <2>3 DEF PhoneTyped
  <2>7. \A d \in Deliveries : Accepts(d)
    BY <1>1, <1>7, <2>5, <2>6 DEF Accepts, ResultStatus
  <2>8. QED
    BY <2>4, <2>5, <2>7
<1>8. QED
  BY <1>1, <1>6, <1>7

\* The rest of the phone's steps settle: keyframes, the WebSocket and HTTP faults.
LEMMA OtherPhoneStepsDo ==
    ASSUME PhoneTyped, RelayTyped, PluginTyped,
           \/ PhoneConnects \/ PhoneDisconnects
           \/ \E d \in Deliveries : KeyframeShows(d) \/ Refuse(d) \/ HttpFails(d)
    PROVE  Settles /\ Reads /\ \A d \in Deliveries : Accepts(d)
<1>1. /\ phone \in Phones /\ answers \subseteq Answers /\ asked \in [Deliveries -> 0..MaxSends]
      /\ \A d \in Deliveries : asked[d] <= asked[d]
  BY DEF PhoneTyped
<1>2. CASE PhoneConnects
  <2>1. /\ phone' = [ws |-> TRUE, mac |-> 0,
                     frames |-> <<[type |-> "presence", gen |-> mac]>>]
        /\ UNCHANGED <<command, asked, answers>>
    BY <1>2 DEF PhoneConnects
  <2>2. [type |-> "presence", gen |-> mac] \in PhoneFrames /\ 0 \in 0..MaxGen
    BY CommandRoutingAssumption DEF RelayTyped, PhoneFrames
  <2>3. phone' \in Phones
    BY <2>1, <2>2 DEF Phones
  <2>4. Settles
    BY <1>1, <2>1, <2>3, SettlesNone
  <2>5. QED
    BY <2>1, <2>4 DEF Reads, Accepts
<1>3. CASE PhoneDisconnects
  <2>1. /\ phone' = [phone EXCEPT !.ws = FALSE, !.frames = <<>>]
        /\ command' = AllMoved({"local_pending"}, "unknown")
        /\ UNCHANGED <<asked, answers>>
    BY <1>3 DEF PhoneDisconnects
  <2>2. phone' \in Phones /\ phone'.frames = <<>> /\ phone'.mac = phone.mac
    <3>1. <<>> \in Seq(PhoneFrames)
      OBVIOUS
    <3>2. phone'.frames = <<>> /\ phone'.mac = phone.mac
      BY <1>1, <2>1 DEF Phones
    <3>3. QED
      BY <1>1, <2>1, <3>1, <3>2 DEF Phones
  <2>3. Settles /\ \A e \in Deliveries : command'[e].status \in {command[e].status, "unknown"}
    BY <1>1, <2>1, <2>2, SettlesAll DEF Statuses
  <2>4. QED
    BY <2>2, <2>3 DEF Reads, Accepts
<1>4. ASSUME NEW d \in Deliveries, KeyframeShows(d)
      PROVE  Settles /\ Reads /\ \A e \in Deliveries : Accepts(e)
  <2>1. /\ command' = [command EXCEPT ![d] = Moved(@, "desktop_accepted")]
        /\ executed[d] > 0 /\ command[d].kind = "submit"
        /\ UNCHANGED <<phone, asked, answers>>
    BY <1>4 DEF KeyframeShows
  <2>2. Settles /\ \A e \in Deliveries :
                     command'[e].status \in {command[e].status, "desktop_accepted"}
    BY <1>1, <2>1, SettlesOne DEF Statuses
  <2>3. \A e \in Deliveries : e # d => command'[e] = command[e]
    BY <2>1 DEF PhoneTyped
  <2>4. QED
    BY <2>1, <2>2, <2>3 DEF Reads, Accepts
<1>5. ASSUME NEW d \in Deliveries, Refuse(d)
      PROVE  Settles /\ Reads /\ \A e \in Deliveries : Accepts(e)
  <2>1. /\ asked[d] > 0 /\ asked' = [asked EXCEPT ![d] = @ - 1]
        /\ answers' = answers \cup {[d |-> d, status |-> "ignored"]}
        /\ UNCHANGED <<command, phone>>
    BY <1>5 DEF Refuse
  <2>2. answers' \subseteq Answers
    BY <1>1, <2>1 DEF Answers
  <2>3. Settles
    BY <1>1, <2>1, <2>2, AskedLess, SettlesNone
  <2>4. QED
    BY <2>1, <2>3 DEF Reads, Accepts
<1>6. ASSUME NEW d \in Deliveries, HttpFails(d)
      PROVE  Settles /\ Reads /\ \A e \in Deliveries : Accepts(e)
  <2>1. UNCHANGED <<command, phone>>
    BY <1>6 DEF HttpFails
  <2>2. /\ asked' \in [Deliveries -> 0..MaxSends]
        /\ \A e \in Deliveries : asked'[e] <= asked[e]
    <3>1. \/ asked[d] > 0 /\ asked' = [asked EXCEPT ![d] = @ - 1]
          \/ UNCHANGED asked
      BY <1>6 DEF HttpFails
    <3>2. QED
      BY <1>1, <3>1, AskedLess
  <2>3. answers' \subseteq Answers
    <3>1. \/ answers' = answers \cup {[d |-> d, status |-> "unknown"]}
          \/ \E answer \in answers :
                answers' = (answers \ {answer}) \cup {[answer EXCEPT !.status = "unknown"]}
      BY <1>6 DEF HttpFails
    <3>2. CASE answers' = answers \cup {[d |-> d, status |-> "unknown"]}
      BY <1>1, <3>2 DEF Answers
    <3>3. ASSUME NEW answer \in answers,
                 answers' = (answers \ {answer}) \cup {[answer EXCEPT !.status = "unknown"]}
          PROVE  answers' \subseteq Answers
      <4>1. answer \in Answers
        BY <1>1
      <4>2. [answer EXCEPT !.status = "unknown"] \in Answers
        BY <4>1 DEF Answers
      <4>3. QED
        BY <1>1, <3>3, <4>2
    <3>4. QED
      BY <3>1, <3>2, <3>3
  <2>4. Settles
    BY <1>1, <2>1, <2>2, <2>3, SettlesNone
  <2>5. QED
    BY <2>1, <2>4 DEF Reads, Accepts
<1>7. QED
  BY <1>2, <1>3, <1>4, <1>5, <1>6

(* The relay.  A connection's receipts move up, its commands go down.      *)
InUp(g, frame) == \E i \in DOMAIN link[g].up : link[g].up[i] = frame

\* A relay step adds nothing to what a Companion has sent up, and hears no more of a
\* link than it heard or had waiting.
UpShrinks(g) ==
    /\ \A frame : InUp(g, frame)' => InUp(g, frame)
    /\ link'[g].up # <<>> => link[g].up # <<>>
    /\ link'[g].handler \in {"announcing", "serving"} =>
          link[g].handler \in {"announcing", "serving"} \/ link[g].up # <<>>

DownShrinks(g) == link'[g].down \in {link[g].down, <<>>}

\* The current Mac changes to one that has said hello, or to none.
MacMoves ==
    \/ mac' \in {mac, 0}
    \/ mac' \in Gens /\ link[mac'].up # <<>>

\* What the relay tells the phone.
Tellable(frame) ==
    \/ frame = [type |-> "presence", gen |-> 0]
    \/ \E g \in Gens : /\ frame = [type |-> "presence", gen |-> g]
                       /\ link[g].up # <<>> \/ link[g].handler = "announcing"
    \/ frame \in Receipts /\ \E g \in Gens : InUp(g, frame)

\* The relay tells the phone one frame at most.
Tells ==
    /\ phone'.mac = phone.mac
    /\ \/ phone'.frames = phone.frames
       \/ \E frame \in PhoneFrames :
             Tellable(frame) /\ phone'.frames = Append(phone.frames, frame)

\* What every step of the relay does.
Relays ==
    /\ PhoneTyped' /\ RelayTyped'
    /\ \A g \in Gens : UpShrinks(g)
    /\ MacMoves /\ Tells

\* Told appends one frame, or nothing when the phone is not connected.
LEMMA ToldTyped ==
    ASSUME PhoneTyped, NEW frame \in PhoneFrames, Tellable(frame), phone' \in {phone, Told(frame)}
    PROVE  phone' \in Phones /\ Tells
<1>1. phone \in Phones /\ phone.frames \in Seq(PhoneFrames)
  BY DEF PhoneTyped, Phones
<1>2. CASE phone' = phone
  BY <1>1, <1>2 DEF Tells
<1>3. CASE phone' = [phone EXCEPT !.frames = Append(@, frame)]
  <2>1. Append(phone.frames, frame) \in Seq(PhoneFrames)
    BY <1>1
  <2>2. phone'.frames = Append(phone.frames, frame) /\ phone'.mac = phone.mac
    BY <1>1, <1>3 DEF Phones
  <2>3. phone' \in Phones
    BY <1>1, <1>3, <2>1 DEF Phones
  <2>4. QED
    BY <2>2, <2>3 DEF Tells
<1>4. QED
  BY <1>2, <1>3 DEF Told

\* A step that leaves the phone alone tells it nothing.
LEMMA PhoneStill ==
    ASSUME PhoneTyped, UNCHANGED phone
    PROVE  phone' \in Phones /\ Tells
BY DEF PhoneTyped, Tells

\* A link, its two queues, their heads and rests.
LEMMA LinkTyped ==
    ASSUME RelayTyped, NEW g \in Gens
    PROVE  /\ link[g] \in Links
           /\ link[g].up \in Seq({Hello} \cup Receipts) /\ link[g].down \in Seq(Deliveries)
           /\ link[g].up # <<>> => /\ Head(link[g].up) \in {Hello} \cup Receipts
                                   /\ Tail(link[g].up) \in Seq({Hello} \cup Receipts)
           /\ link[g].down # <<>> => /\ Head(link[g].down) \in Deliveries
                                     /\ Tail(link[g].down) \in Seq(Deliveries)
BY DEF RelayTyped, Links

\* A link that stays the same shrinks.
LEMMA SameLink ==
    ASSUME NEW g \in Gens, link'[g] = link[g]
    PROVE  UpShrinks(g) /\ DownShrinks(g)
BY DEF UpShrinks, DownShrinks, InUp

\* What is in the rest of a sequence is in the sequence.
LEMMA TailWithin ==
    ASSUME NEW S, NEW s \in Seq(S), s # <<>>
    PROVE  \A i \in DOMAIN Tail(s) : i + 1 \in DOMAIN s /\ Tail(s)[i] = s[i + 1]
OBVIOUS

\* A link whose head is taken has nothing new.
LEMMA UpTail ==
    ASSUME RelayTyped, NEW g \in Gens, link[g].up # <<>>, link'[g].up = Tail(link[g].up)
    PROVE  \A frame : InUp(g, frame)' => InUp(g, frame)
<1>1. link[g].up \in Seq({Hello} \cup Receipts)
  BY LinkTyped
<1>2. \A i \in DOMAIN link'[g].up :
          i + 1 \in DOMAIN link[g].up /\ link'[g].up[i] = link[g].up[i + 1]
  BY <1>1, TailWithin
<1>3. QED
  BY <1>2 DEF InUp

\* A link that is emptied has nothing.
LEMMA UpEmpty ==
    ASSUME NEW g \in Gens, link'[g].up = <<>>
    PROVE  \A frame : ~InUp(g, frame)'
BY DEF InUp

\* The head of a link is in it.
LEMMA UpHead ==
    ASSUME RelayTyped, NEW g \in Gens, link[g].up # <<>>
    PROVE  InUp(g, Head(link[g].up))
<1>1. link[g].up \in Seq({Hello} \cup Receipts)
  BY LinkTyped
<1>2. 1 \in DOMAIN link[g].up /\ link[g].up[1] = Head(link[g].up)
  BY <1>1
<1>3. QED
  BY <1>2 DEF InUp

\* Route sends one delivery down the link of the current Mac, or refuses it.
LEMMA RouteDoes ==
    ASSUME PhoneTyped, RelayTyped, NEW d \in Deliveries, Route(d)
    PROVE  /\ Relays
           /\ asked[d] > 0 /\ asked'[d] = asked[d] - 1
           /\ \A e \in Deliveries \ {d} : asked'[e] = asked[e]
           /\ \A g \in Gens : \/ link'[g].down = link[g].down
                              \/ g = mac /\ link'[g].down = Append(link[g].down, d)
<1>1. /\ asked[d] > 0 /\ asked' = [asked EXCEPT ![d] = @ - 1]
      /\ UNCHANGED <<command, phone, mac, sessions>>
      /\ \/ /\ Routable(d)
            /\ link' = IF link[mac].state = "open"
                       THEN [link EXCEPT ![mac].down = Append(@, d)] ELSE link
            /\ answers' = answers \cup {[d |-> d, status |-> "relay_accepted"]}
         \/ /\ answers' = answers \cup {[d |-> d, status |-> "rejected"]}
            /\ UNCHANGED link
  BY DEF Route
<1>2. /\ asked' \in [Deliveries -> 0..MaxSends] /\ asked'[d] = asked[d] - 1
      /\ \A e \in Deliveries \ {d} : asked'[e] = asked[e]
  BY <1>1, AskedLess DEF PhoneTyped
<1>3. answers' \subseteq Answers
  BY <1>1 DEF PhoneTyped, Answers
<1>4. PhoneTyped'
  BY <1>1, <1>2, <1>3 DEF PhoneTyped
<1>5. Tells /\ MacMoves
  <2>1. mac' = mac /\ phone' = phone
    BY <1>1
  <2>2. QED
    BY <2>1, PhoneStill DEF MacMoves
<1>6. CASE UNCHANGED link
  <2>1. \A g \in Gens : UpShrinks(g) /\ link'[g].down = link[g].down
    BY <1>6, SameLink
  <2>2. RelayTyped'
    BY <1>1, <1>6 DEF RelayTyped
  <2>3. QED
    BY <1>1, <1>2, <1>4, <1>5, <2>1, <2>2 DEF Relays
<1>7. CASE mac \in Gens /\ link' = [link EXCEPT ![mac].down = Append(@, d)]
  <2>1. link \in [Gens -> Links] /\ link[mac] \in Links /\ link[mac].down \in Seq(Deliveries)
    BY <1>7, LinkTyped DEF RelayTyped
  <2>2. link'[mac] = [link[mac] EXCEPT !.down = Append(@, d)]
        /\ \A g \in Gens : g # mac => link'[g] = link[g]
    BY <1>7, <2>1
  <2>3. Append(link[mac].down, d) \in Seq(Deliveries)
    BY <2>1
  <2>4. /\ link'[mac] \in Links /\ link'[mac].down = Append(link[mac].down, d)
        /\ link'[mac].up = link[mac].up /\ link'[mac].handler = link[mac].handler
    BY <2>1, <2>2, <2>3 DEF Links
  <2>5. link' \in [Gens -> Links]
    BY <1>7, <2>1, <2>2, <2>4
  <2>6. RelayTyped'
    BY <1>1, <2>5 DEF RelayTyped
  <2>7. \A g \in Gens : UpShrinks(g)
    BY <2>2, <2>4 DEF UpShrinks, InUp
  <2>8. QED
    BY <1>1, <1>2, <1>4, <1>5, <2>2, <2>4, <2>6, <2>7 DEF Relays
<1>8. mac \in Gens \/ UNCHANGED link
  BY <1>1 DEF Routable, RelayTyped, Gens
<1>9. QED
  BY <1>1, <1>6, <1>7, <1>8

\* The other relay steps: nothing goes down, and the requests are left alone.
RelaysUp == Relays /\ (\A g \in Gens : DownShrinks(g)) /\ UNCHANGED <<asked, answers>>

\* MacHello: refused, first Mac, or takeover of the current one.
LEMMA MacHelloDoes ==
    ASSUME PhoneTyped, RelayTyped, NEW g \in Gens, MacHello(g)
    PROVE  RelaysUp
<1> USE DEF Gens
<1>1. /\ link \in [Gens -> Links] /\ mac \in 0..MaxGen /\ sessions \subseteq Gens
      /\ g \in 0..MaxGen
  BY CommandRoutingAssumption DEF RelayTyped
<1>2. link[g].handler = "waiting" /\ link[g].up # <<>>
  BY DEF MacHello
<1>3. UNCHANGED <<command, asked, answers, sessions>>
  BY DEF MacHello
<1>4. link[g] \in Links /\ Tail(link[g].up) \in Seq({Hello} \cup Receipts)
  BY <1>2, LinkTyped
<1>5. <<>> \in Seq({Hello} \cup Receipts) /\ <<>> \in Seq(Deliveries)
  OBVIOUS
<1> DEFINE closed(l) == [l EXCEPT !.state = "cut", !.handler = "done", !.up = <<>>, !.down = <<>>]
<1>6. \A l \in Links : closed(l) \in Links /\ closed(l).up = <<>> /\ closed(l).down = <<>>
                       /\ closed(l).handler = "done"
  BY <1>5 DEF Links
<1>9. CASE /\ StaleHello(g) /\ UNCHANGED <<mac, phone>>
           /\ link' = [link EXCEPT ![g] = [@ EXCEPT !.state = "cut", !.handler = "done",
                                                   !.up = <<>>, !.down = <<>>]]
  <2>1. link'[g] = closed(link[g]) /\ \A h \in Gens : h # g => link'[h] = link[h]
    BY <1>1, <1>9
  <2>2. link' \in [Gens -> Links]
    BY <1>1, <1>4, <1>6, <1>9, <2>1
  <2>3. \A h \in Gens : UpShrinks(h) /\ DownShrinks(h)
    <3>1. link'[g].up = <<>> /\ link'[g].down = <<>> /\ link'[g].handler = "done"
      BY <1>4, <1>6, <2>1
    <3>2. UpShrinks(g) /\ DownShrinks(g)
      BY <3>1, UpEmpty DEF UpShrinks, DownShrinks
    <3>3. QED
      BY <2>1, <3>2, SameLink
  <2>4. Tells
    BY <1>9, PhoneStill
  <2>5. QED
    BY <1>1, <1>3, <1>9, <2>2, <2>3, <2>4
       DEF RelaysUp, Relays, PhoneTyped, RelayTyped, MacMoves
<1>10. CASE /\ mac = 0 /\ mac' = g
            /\ link' = [link EXCEPT ![g].handler = "serving", ![g].up = Tail(@)]
            /\ phone' = Told([type |-> "presence", gen |-> g])
  <2>1. /\ \A h \in Gens : h # g => link'[h] = link[h]
        /\ link'[g] \in Links
        /\ link'[g].up = Tail(link[g].up) /\ link'[g].down = link[g].down
    BY <1>1, <1>4, <1>10 DEF Links
  <2>2. link' \in [Gens -> Links]
    BY <1>1, <1>10, <2>1
  <2>3. \A h \in Gens : UpShrinks(h) /\ DownShrinks(h)
    <3>1. UpShrinks(g) /\ DownShrinks(g)
      BY <1>2, <2>1, UpTail DEF UpShrinks, DownShrinks
    <3>2. QED
      BY <2>1, <3>1, SameLink
  <2>4. [type |-> "presence", gen |-> g] \in PhoneFrames
    BY <1>1 DEF PhoneFrames
  <2>5. Tellable([type |-> "presence", gen |-> g])
    BY <1>2 DEF Tellable
  <2>6. phone' \in Phones /\ Tells
    BY <1>10, <2>4, <2>5, ToldTyped
  <2>7. mac' \in 0..MaxGen /\ MacMoves
    BY <1>1, <1>2, <1>10 DEF MacMoves
  <2>8. QED
    BY <1>1, <1>3, <2>2, <2>3, <2>6, <2>7 DEF RelaysUp, Relays, PhoneTyped, RelayTyped
<1>11. CASE /\ mac # 0 /\ ~StaleHello(g) /\ mac' = g
            /\ link' = [link EXCEPT ![g].handler = "announcing", ![g].up = Tail(@),
                                    ![mac] = [@ EXCEPT !.state = "cut", !.down = <<>>, !.up = <<>>]]
            /\ UNCHANGED phone
  <2>1. mac # g
    BY <1>1, <1>11 DEF StaleHello, SameSession
  <2>2. PICK m \in Gens : m = mac
    BY <1>1, <1>11
  <2>3. link[m] \in Links /\ \A h \in Gens : h # g /\ h # m => link'[h] = link[h]
    BY <1>1, <1>11, <2>2
  <2>4. /\ link'[g] \in Links
        /\ link'[g].up = Tail(link[g].up) /\ link'[g].down = link[g].down
    BY <1>1, <1>4, <1>11, <2>1, <2>2 DEF Links
  <2>5. /\ link'[m] \in Links /\ link'[m].up = <<>> /\ link'[m].down = <<>>
        /\ link'[m].handler = link[m].handler
    BY <1>1, <1>5, <1>11, <2>1, <2>2, <2>3 DEF Links
  <2>6. UpShrinks(g) /\ DownShrinks(g)
    BY <1>2, <2>4, UpTail DEF UpShrinks, DownShrinks
  <2>7. UpShrinks(m) /\ DownShrinks(m)
    BY <2>5, UpEmpty DEF UpShrinks, DownShrinks
  <2>12. link' \in [Gens -> Links]
    BY <1>1, <1>11, <2>3, <2>4, <2>5
  <2>8. \A h \in Gens : UpShrinks(h) /\ DownShrinks(h)
    BY <2>3, <2>6, <2>7, SameLink
  <2>9. Tells
    BY <1>11, PhoneStill
  <2>10. mac' \in 0..MaxGen /\ MacMoves
    BY <1>1, <1>2, <1>11 DEF MacMoves
  <2>11. QED
    BY <1>1, <1>3, <1>11, <2>12, <2>8, <2>9, <2>10
       DEF RelaysUp, Relays, PhoneTyped, RelayTyped
<1>12. QED
  BY <1>9, <1>10, <1>11 DEF MacHello

\* MacAnnounces shows the phone the Mac that took over.
LEMMA MacAnnouncesDoes ==
    ASSUME PhoneTyped, RelayTyped, NEW g \in Gens, MacAnnounces(g)
    PROVE  RelaysUp
<1>1. /\ link[g].handler = "announcing"
      /\ link' = [link EXCEPT ![g].handler = "serving"]
      /\ phone' = Told([type |-> "presence", gen |-> g])
      /\ UNCHANGED <<command, asked, answers, mac, sessions>>
  BY DEF MacAnnounces
<1>2. link \in [Gens -> Links] /\ link[g] \in Links /\ g \in 0..MaxGen
  BY CommandRoutingAssumption DEF RelayTyped, Gens
<1>3. link'[g] = [link[g] EXCEPT !.handler = "serving"]
      /\ \A h \in Gens : h # g => link'[h] = link[h]
  BY <1>1, <1>2
<1>4. link'[g] \in Links /\ link'[g].up = link[g].up /\ link'[g].down = link[g].down
  BY <1>2, <1>3 DEF Links
<1>5. link' \in [Gens -> Links]
  BY <1>1, <1>2, <1>3, <1>4
<1>6. \A h \in Gens : UpShrinks(h) /\ DownShrinks(h)
  <2>1. UpShrinks(g) /\ DownShrinks(g)
    BY <1>1, <1>4 DEF UpShrinks, DownShrinks, InUp
  <2>2. QED
    BY <1>3, <2>1, SameLink
<1>7. [type |-> "presence", gen |-> g] \in PhoneFrames
  BY <1>2 DEF PhoneFrames
<1>8. Tellable([type |-> "presence", gen |-> g])
  BY <1>1 DEF Tellable
<1>9. phone' \in Phones /\ Tells
  BY <1>1, <1>7, <1>8, ToldTyped
<1>10. MacMoves
  BY <1>1 DEF MacMoves
<1>11. QED
  BY <1>1, <1>5, <1>6, <1>9, <1>10 DEF RelaysUp, Relays, PhoneTyped, RelayTyped

\* MacReceipt tells the phone a receipt that came up the current link.
LEMMA MacReceiptDoes ==
    ASSUME PhoneTyped, RelayTyped, NEW g \in Gens, MacReceipt(g)
    PROVE  RelaysUp
<1> DEFINE frame == Head(link[g].up)
<1>1. /\ link[g].handler = "serving" /\ link[g].up # <<>>
      /\ phone' = IF frame # Hello /\ mac = g /\ frame.gen = g THEN Told(frame) ELSE phone
      /\ link' = [link EXCEPT ![g].up = Tail(@)]
      /\ UNCHANGED <<command, asked, answers, mac, sessions>>
  BY DEF MacReceipt
<1>2. /\ link \in [Gens -> Links] /\ link[g] \in Links
      /\ frame \in {Hello} \cup Receipts /\ Tail(link[g].up) \in Seq({Hello} \cup Receipts)
  BY <1>1, LinkTyped DEF RelayTyped
<1>3. link'[g] = [link[g] EXCEPT !.up = Tail(@)]
      /\ \A h \in Gens : h # g => link'[h] = link[h]
  BY <1>1, <1>2
<1>4. link'[g] \in Links /\ link'[g].up = Tail(link[g].up) /\ link'[g].down = link[g].down
  BY <1>2, <1>3 DEF Links
<1>5. link' \in [Gens -> Links]
  BY <1>1, <1>2, <1>3, <1>4
<1>6. \A h \in Gens : UpShrinks(h) /\ DownShrinks(h)
  <2>1. UpShrinks(g) /\ DownShrinks(g)
    BY <1>1, <1>4, UpTail DEF UpShrinks, DownShrinks
  <2>2. QED
    BY <1>3, <2>1, SameLink
<1>7. phone' \in Phones /\ Tells
  <2>1. CASE frame # Hello
    <3>1. frame \in Receipts /\ frame \in PhoneFrames
      BY <1>2, <2>1 DEF PhoneFrames
    <3>2. InUp(g, frame)
      BY <1>1, UpHead
    <3>3. Tellable(frame)
      BY <3>1, <3>2 DEF Tellable
    <3>4. phone' \in {phone, Told(frame)}
      BY <1>1
    <3>5. QED
      BY <3>1, <3>3, <3>4, ToldTyped
  <2>2. CASE frame = Hello
    BY <1>1, <2>2, PhoneStill
  <2>3. QED
    BY <2>1, <2>2
<1>8. MacMoves
  BY <1>1 DEF MacMoves
<1>9. QED
  BY <1>1, <1>5, <1>6, <1>7, <1>8 DEF RelaysUp, Relays, PhoneTyped, RelayTyped

\* MacGone gives the place of the current Mac up.
LEMMA MacGoneDoes ==
    ASSUME PhoneTyped, RelayTyped, NEW g \in Gens, MacGone(g)
    PROVE  RelaysUp
<1>1. /\ link' = [link EXCEPT ![g].handler = "done"]
      /\ mac' \in {mac, 0}
      /\ phone' \in {phone, Told([type |-> "presence", gen |-> 0])}
      /\ UNCHANGED <<command, asked, answers, sessions>>
  BY DEF MacGone, Unregistered
<1>2. link \in [Gens -> Links] /\ link[g] \in Links /\ 0 \in 0..MaxGen /\ mac \in 0..MaxGen
  BY CommandRoutingAssumption DEF RelayTyped, Gens
<1>3. link'[g] = [link[g] EXCEPT !.handler = "done"]
      /\ \A h \in Gens : h # g => link'[h] = link[h]
  BY <1>1, <1>2
<1>4. /\ link'[g] \in Links /\ link'[g].up = link[g].up /\ link'[g].down = link[g].down
      /\ link'[g].handler = "done"
  BY <1>2, <1>3 DEF Links
<1>5. link' \in [Gens -> Links]
  BY <1>1, <1>2, <1>3, <1>4
<1>6. \A h \in Gens : UpShrinks(h) /\ DownShrinks(h)
  <2>1. UpShrinks(g) /\ DownShrinks(g)
    BY <1>4 DEF UpShrinks, DownShrinks, InUp
  <2>2. QED
    BY <1>3, <2>1, SameLink
<1>7. [type |-> "presence", gen |-> 0] \in PhoneFrames
  BY <1>2 DEF PhoneFrames
<1>8. Tellable([type |-> "presence", gen |-> 0])
  BY DEF Tellable
<1>9. phone' \in Phones /\ Tells
  BY <1>1, <1>7, <1>8, ToldTyped
<1>10. mac' \in 0..MaxGen /\ MacMoves
  BY <1>1, <1>2 DEF MacMoves
<1>11. QED
  BY <1>1, <1>5, <1>6, <1>9, <1>10 DEF RelaysUp, Relays, PhoneTyped, RelayTyped

\* LinkFails cuts a link, and what was on it is lost.
LEMMA LinkFailsDoes ==
    ASSUME PhoneTyped, RelayTyped, NEW g \in Gens, LinkFails(g)
    PROVE  RelaysUp
<1>1. /\ link' = [link EXCEPT ![g] = [@ EXCEPT !.state = "cut", !.up = <<>>, !.down = <<>>]]
      /\ UNCHANGED <<command, phone, asked, answers, mac, sessions>>
  BY DEF LinkFails, phoneVars
<1>2. /\ link \in [Gens -> Links] /\ link[g] \in Links
      /\ <<>> \in Seq({Hello} \cup Receipts) /\ <<>> \in Seq(Deliveries)
  BY DEF RelayTyped
<1>3. link'[g] = [link[g] EXCEPT !.state = "cut", !.up = <<>>, !.down = <<>>]
      /\ \A h \in Gens : h # g => link'[h] = link[h]
  BY <1>1, <1>2
<1>4. /\ link'[g] \in Links /\ link'[g].up = <<>> /\ link'[g].down = <<>>
      /\ link'[g].handler = link[g].handler
  BY <1>2, <1>3 DEF Links
<1>5. link' \in [Gens -> Links]
  BY <1>1, <1>2, <1>3, <1>4
<1>6. \A h \in Gens : UpShrinks(h) /\ DownShrinks(h)
  <2>1. UpShrinks(g) /\ DownShrinks(g)
    BY <1>4, UpEmpty DEF UpShrinks, DownShrinks
  <2>2. QED
    BY <1>3, <2>1, SameLink
<1>7. Tells /\ MacMoves
  <2>1. phone' = phone /\ mac' = mac
    BY <1>1
  <2>2. QED
    BY <2>1, PhoneStill DEF MacMoves
<1>8. QED
  BY <1>1, <1>5, <1>6, <1>7 DEF RelaysUp, Relays, PhoneTyped, RelayTyped

(* The Companion.  Its record, field by field.                             *)
CompanionIs(g, phase, alive, queue, worker, results) ==
    /\ companion'.gen = g /\ companion'.phase = phase /\ companion'.alive = alive
    /\ companion'.queue = queue /\ companion'.worker = worker
    /\ companion'.results = results

\* The types of the Companion's fields.
LEMMA CompanionFields ==
    ASSUME MacTyped
    PROVE  /\ companion \in Companions /\ companion.gen \in 0..MaxGen
           /\ companion.phase \in {"idle", "binding", "live", "closing", "leaving"}
           /\ companion.alive \in BOOLEAN /\ companion.queue \in Seq(Deliveries)
           /\ Len(companion.queue) <= CommandLimit
           /\ companion.worker \in Workers /\ companion.results \in Results
           /\ outbound \in Seq(Receipts)
BY DEF MacTyped, Companions

\* A step that leaves the Companion alone.
LEMMA CompanionSame ==
    ASSUME UNCHANGED companion
    PROVE  CompanionIs(companion.gen, companion.phase, companion.alive, companion.queue,
                       companion.worker, companion.results)
BY DEF CompanionIs

\* The worker at rest, the empty result cache and the empty queue.
LEMMA NoneTyped == NoWork \in Workers /\ NoResults \in Results /\ <<>> \in Seq(Deliveries)
BY DEF NoWork, NoResults, Workers, Results

\* The types of the bridge's fields, the adapter's and the history's.
LEMMA BridgeFields ==
    ASSUME PluginTyped
    PROVE  /\ bridge \in Bridges /\ bridge.sock \in Socks /\ bridge.bound \in Socks
           /\ bridge.state \in {"up", "dead", "down"}
           /\ bridge.toPlugin \in Seq(Requests) /\ bridge.toServer \subseteq Responses
           /\ desktop \in Desktops /\ desktop.bound \in 0..MaxGen
           /\ executed \in [Deliveries -> 0..MaxSends]
BY DEF PluginTyped, Bridges, Desktops

\* What a step of the Companion does to the bridge socket.
SendsNothing == bridge'.toPlugin = bridge.toPlugin
SendsOnly(request) ==
    \/ SendsNothing
    \/ bridge.state = "up" /\ bridge'.toPlugin = Append(bridge.toPlugin, request)
BridgeKept ==
    /\ bridge' \in Bridges
    /\ bridge'.sock = bridge.sock
    /\ bridge'.state \in {bridge.state, "down"}
    /\ bridge'.toServer \subseteq bridge.toServer

\* Sent writes one request, when the socket is up.
LEMMA SentDoes ==
    ASSUME PluginTyped, NEW request \in Requests, bridge' = Sent(request)
    PROVE  BridgeKept /\ SendsOnly(request) /\ bridge'.bound = bridge.bound
           /\ bridge'.state = bridge.state
<1>1. bridge \in Bridges /\ bridge.toPlugin \in Seq(Requests)
  BY BridgeFields
<1>2. CASE bridge.state # "up"
  BY <1>1, <1>2 DEF Sent, BridgeKept, SendsOnly, SendsNothing
<1>3. CASE bridge.state = "up"
  <2>1. bridge' = [bridge EXCEPT !.toPlugin = Append(@, request)]
    BY <1>3 DEF Sent
  <2>2. Append(bridge.toPlugin, request) \in Seq(Requests)
    BY <1>1
  <2>3. /\ bridge'.toPlugin = Append(bridge.toPlugin, request)
        /\ bridge'.sock = bridge.sock /\ bridge'.state = bridge.state
        /\ bridge'.bound = bridge.bound /\ bridge'.toServer = bridge.toServer
    BY <1>1, <2>1 DEF Bridges
  <2>4. bridge' \in Bridges
    BY <1>1, <2>1, <2>2 DEF Bridges
  <2>5. QED
    BY <1>3, <2>3, <2>4 DEF BridgeKept, SendsOnly
<1>4. QED
  BY <1>2, <1>3

\* A step that leaves the bridge alone sends nothing.
LEMMA BridgeSame ==
    ASSUME PluginTyped, UNCHANGED bridge
    PROVE  BridgeKept /\ SendsNothing
BY BridgeFields DEF BridgeKept, SendsNothing

\* Taken takes an answer, and sends nothing.
LEMMA TakenDoes ==
    ASSUME PluginTyped, NEW request, bridge' = Taken(request)
    PROVE  BridgeKept /\ SendsNothing
<1>1. bridge \in Bridges /\ bridge.toServer \subseteq Responses
  BY BridgeFields
<1>2. bridge' = [bridge EXCEPT !.toServer = {r \in @ : r.request # request}]
  BY DEF Taken
<1>3. {r \in bridge.toServer : r.request # request} \subseteq Responses
  BY <1>1
<1>4. /\ bridge'.toServer = {r \in bridge.toServer : r.request # request}
      /\ bridge'.sock = bridge.sock /\ bridge'.state = bridge.state
      /\ bridge'.toPlugin = bridge.toPlugin
  BY <1>1, <1>2 DEF Bridges
<1>5. bridge' \in Bridges
  BY <1>1, <1>2, <1>3 DEF Bridges
<1>6. QED
  BY <1>4, <1>5 DEF BridgeKept, SendsNothing

\* One field of one link.
LEMMA LinkKeeps ==
    ASSUME RelayTyped, UNCHANGED <<link, sessions, mac>>
    PROVE  RelayTyped' /\ \A g \in Gens : UpShrinks(g) /\ DownShrinks(g)
BY SameLink DEF RelayTyped

\* Connect opens the next connection and asks the plugin to bind to it.
LEMMA ConnectDoes ==
    ASSUME RelayTyped, MacTyped, PluginTyped, Connect
    PROVE  /\ companion.phase = "idle" /\ companion.gen + 1 \in Gens
           /\ CompanionIs(companion.gen + 1, "binding", companion.alive, companion.queue,
                          companion.worker, companion.results)
           /\ companion' \in Companions
           /\ RelayTyped'
           /\ \A h \in Gens :
                 /\ link'[h].up = link[h].up /\ link'[h].down = link[h].down
                 /\ link'[h].handler \in {link[h].handler, "waiting"}
           /\ BridgeKept /\ SendsOnly([op |-> "bind", gen |-> companion.gen + 1])
           /\ outbound' = outbound
<1> DEFINE n == companion.gen + 1
<1>1. /\ companion.phase = "idle" /\ companion.gen < MaxGen
      /\ companion' = [companion EXCEPT !.gen = @ + 1, !.phase = "binding"]
      /\ link' = [link EXCEPT ![n] = [@ EXCEPT !.state = "open", !.handler = "waiting"]]
      /\ bridge' = Sent([op |-> "bind", gen |-> n])
      /\ UNCHANGED <<mac, sessions, outbound>>
  BY DEF Connect, Current
<1>2. companion \in Companions /\ companion.gen \in 0..MaxGen
  BY CompanionFields
<1>3. n \in Gens /\ n \in 0..MaxGen
  BY <1>1, <1>2, CommandRoutingAssumption DEF Gens
<1>4. companion' \in Companions
  BY <1>1, <1>2, <1>3 DEF Companions
<1>5. CompanionIs(n, "binding", companion.alive, companion.queue, companion.worker,
                  companion.results)
  BY <1>1, <1>2 DEF Companions, CompanionIs
<1>6. PICK m \in Gens : m = n
  BY <1>3
<1>7. link \in [Gens -> Links] /\ link[m] \in Links
  BY DEF RelayTyped
<1>8. link'[m] = [link[m] EXCEPT !.state = "open", !.handler = "waiting"]
      /\ \A h \in Gens : h # m => link'[h] = link[h]
  BY <1>1, <1>6, <1>7
<1>9. /\ link'[m] \in Links /\ link'[m].up = link[m].up /\ link'[m].down = link[m].down
      /\ link'[m].handler = "waiting"
  BY <1>7, <1>8 DEF Links
<1>10. link' \in [Gens -> Links]
  BY <1>1, <1>6, <1>7, <1>8, <1>9
<1>11. RelayTyped'
  BY <1>1, <1>10 DEF RelayTyped
<1>12. [op |-> "bind", gen |-> n] \in Requests
  BY <1>3 DEF Requests
<1>13. BridgeKept /\ SendsOnly([op |-> "bind", gen |-> n])
  BY <1>1, <1>12, SentDoes
<1>14. QED
  BY <1>1, <1>3, <1>4, <1>5, <1>8, <1>9, <1>11, <1>13

\* BindReturns: live, with a hello to the relay, or leaving.
LEMMA BindReturnsDoes ==
    ASSUME RelayTyped, MacTyped, PluginTyped, BindReturns
    PROVE  /\ companion.phase = "binding"
           /\ companion' \in Companions /\ RelayTyped'
           /\ BridgeKept /\ SendsNothing /\ outbound' = outbound
           /\ \A h \in Gens :
                 /\ link'[h].down = link[h].down /\ link'[h].handler = link[h].handler
                 /\ \/ link'[h].up = link[h].up
                    \/ /\ h = companion.gen /\ companion'.phase = "live"
                       /\ link'[h].up = Append(link[h].up, Hello)
           /\ \/ /\ Answered([op |-> "bind", gen |-> companion.gen], "ok")
                 /\ CompanionIs(companion.gen, "live", TRUE, companion.queue,
                                companion.worker, companion.results)
              \/ CompanionIs(companion.gen, "leaving", companion.alive, companion.queue,
                             companion.worker, companion.results)
<1> DEFINE request == [op |-> "bind", gen |-> companion.gen]
<1>1. companion.phase = "binding" /\ UNCHANGED <<mac, sessions, outbound>>
  BY DEF BindReturns
<1>2. \/ /\ Answered(request, "ok")
         /\ companion' = [companion EXCEPT !.phase = "live", !.alive = TRUE]
         /\ bridge' = [Taken(request) EXCEPT !.bound = bridge.sock]
         /\ link' = IF link[companion.gen].state = "open"
                    THEN [link EXCEPT ![companion.gen].up = Append(@, Hello)] ELSE link
      \/ /\ companion' = [companion EXCEPT !.phase = "leaving"]
         /\ bridge' = Taken(request)
         /\ UNCHANGED link
  BY DEF BindReturns, Current
<1>3. companion \in Companions /\ bridge \in Bridges /\ bridge.sock \in Socks
  BY CompanionFields, BridgeFields
<1>4. CASE /\ Answered(request, "ok")
           /\ companion' = [companion EXCEPT !.phase = "live", !.alive = TRUE]
           /\ bridge' = [Taken(request) EXCEPT !.bound = bridge.sock]
           /\ link' = IF link[companion.gen].state = "open"
                      THEN [link EXCEPT ![companion.gen].up = Append(@, Hello)] ELSE link
  <2>1. companion' \in Companions
        /\ CompanionIs(companion.gen, "live", TRUE, companion.queue, companion.worker,
                       companion.results)
    BY <1>3, <1>4 DEF Companions, CompanionIs
  <2>2. BridgeKept /\ SendsNothing
    <3>1. Taken(request) = [bridge EXCEPT !.toServer = {r \in @ : r.request # request}]
      BY DEF Taken
    <3>2. {r \in bridge.toServer : r.request # request} \subseteq Responses
      BY <1>3, BridgeFields
    <3>3. Taken(request) \in Bridges /\ Taken(request).toPlugin = bridge.toPlugin
          /\ Taken(request).sock = bridge.sock /\ Taken(request).state = bridge.state
          /\ Taken(request).toServer \subseteq bridge.toServer
      BY <1>3, <3>1, <3>2 DEF Bridges
    <3>4. QED
      BY <1>3, <1>4, <3>3 DEF BridgeKept, SendsNothing, Bridges
  <2>3. /\ RelayTyped'
        /\ \A h \in Gens :
              /\ link'[h].down = link[h].down /\ link'[h].handler = link[h].handler
              /\ \/ link'[h].up = link[h].up
                 \/ h = companion.gen /\ link'[h].up = Append(link[h].up, Hello)
    <3>1. CASE UNCHANGED link
      BY <1>1, <3>1, LinkKeeps
    <3>2. CASE companion.gen \notin Gens
      <4>1. UNCHANGED link
        BY <1>4, <3>2 DEF RelayTyped
      <4>2. QED
        BY <3>1, <4>1
    <3>3. CASE /\ companion.gen \in Gens
               /\ link' = [link EXCEPT ![companion.gen].up = Append(@, Hello)]
      <4>1. PICK m \in Gens : m = companion.gen
        BY <3>3
      <4>2. link \in [Gens -> Links] /\ link[m] \in Links
            /\ link[m].up \in Seq({Hello} \cup Receipts)
        BY LinkTyped DEF RelayTyped
      <4>3. link'[m] = [link[m] EXCEPT !.up = Append(@, Hello)]
            /\ \A h \in Gens : h # m => link'[h] = link[h]
        BY <3>3, <4>1, <4>2
      <4>4. Append(link[m].up, Hello) \in Seq({Hello} \cup Receipts)
        BY <4>2
      <4>5. /\ link'[m] \in Links /\ link'[m].up = Append(link[m].up, Hello)
            /\ link'[m].down = link[m].down /\ link'[m].handler = link[m].handler
        BY <4>2, <4>3, <4>4 DEF Links
      <4>6. link' \in [Gens -> Links]
        BY <3>3, <4>1, <4>2, <4>3, <4>5
      <4>7. QED
        BY <1>1, <4>1, <4>3, <4>5, <4>6 DEF RelayTyped
    <3>4. QED
      BY <1>4, <3>1, <3>2, <3>3
  <2>4. companion'.phase = "live"
    BY <2>1 DEF CompanionIs
  <2>5. QED
    BY <1>1, <1>4, <2>1, <2>2, <2>3, <2>4
<1>5. CASE /\ companion' = [companion EXCEPT !.phase = "leaving"]
           /\ bridge' = Taken(request)
           /\ UNCHANGED link
  <2>1. companion' \in Companions
        /\ CompanionIs(companion.gen, "leaving", companion.alive, companion.queue,
                       companion.worker, companion.results)
    BY <1>3, <1>5 DEF Companions, CompanionIs
  <2>2. BridgeKept /\ SendsNothing
    BY <1>5, TakenDoes
  <2>3. RelayTyped'
    BY <1>1, <1>5, LinkKeeps
  <2>4. QED
    BY <1>1, <1>5, <2>1, <2>2, <2>3
<1>6. QED
  BY <1>2, <1>4, <1>5

\* ReaderTakes queues the command at the head of its link, or refuses it.
LEMMA ReaderTakesDoes ==
    ASSUME RelayTyped, MacTyped, PluginTyped, ReaderTakes, companion.gen \in Gens
    PROVE  \E d \in Deliveries :
           /\ companion.alive /\ link[companion.gen].down # <<>>
           /\ d = Head(link[companion.gen].down)
           /\ RelayTyped' /\ MacTyped' /\ UNCHANGED bridge
           /\ link'[companion.gen].down = Tail(link[companion.gen].down)
           /\ link'[companion.gen].up = link[companion.gen].up
           /\ link'[companion.gen].handler = link[companion.gen].handler
           /\ \A h \in Gens \ {companion.gen} : link'[h] = link[h]
           /\ \/ /\ CompanionIs(companion.gen, companion.phase, companion.alive,
                                Append(companion.queue, d), companion.worker,
                                companion.results)
                 /\ outbound' = outbound
              \/ /\ UNCHANGED companion
                 /\ outbound' = Append(outbound, Receipt(d, "rejected"))
<1> DEFINE m == companion.gen
           d == Head(link[m].down)
<1>1. /\ companion.alive /\ link[m].down # <<>>
      /\ link' = [link EXCEPT ![m].down = Tail(@)]
      /\ IF HasRoom(companion.queue)
         THEN /\ companion' = [companion EXCEPT !.queue = Append(@, d)]
              /\ UNCHANGED outbound
         ELSE /\ outbound' = Append(outbound, Receipt(d, "rejected"))
              /\ UNCHANGED companion
      /\ UNCHANGED <<mac, sessions, bridge>>
  BY DEF ReaderTakes, Current, pluginVars
<1>2. /\ link \in [Gens -> Links] /\ link[m] \in Links
      /\ d \in Deliveries /\ Tail(link[m].down) \in Seq(Deliveries)
  BY <1>1, LinkTyped DEF RelayTyped
<1>3. companion \in Companions /\ companion.queue \in Seq(Deliveries)
      /\ Len(companion.queue) <= CommandLimit /\ outbound \in Seq(Receipts)
  BY CompanionFields
<1>4. link'[m] = [link[m] EXCEPT !.down = Tail(@)]
      /\ \A h \in Gens : h # m => link'[h] = link[h]
  BY <1>1, <1>2
<1>5. /\ link'[m] \in Links /\ link'[m].down = Tail(link[m].down)
      /\ link'[m].up = link[m].up /\ link'[m].handler = link[m].handler
  BY <1>2, <1>4 DEF Links
<1>6. link' \in [Gens -> Links]
  BY <1>1, <1>2, <1>4, <1>5
<1>7. RelayTyped'
  BY <1>1, <1>6 DEF RelayTyped
<1>8. CASE HasRoom(companion.queue)
  <2>1. companion' = [companion EXCEPT !.queue = Append(@, d)] /\ UNCHANGED outbound
    BY <1>1, <1>8
  <2>2. Append(companion.queue, d) \in Seq(Deliveries)
        /\ Len(Append(companion.queue, d)) <= CommandLimit
    BY <1>2, <1>3, <1>8, CommandRoutingAssumption DEF HasRoom
  <2>3. companion' \in Companions
        /\ CompanionIs(m, companion.phase, companion.alive, Append(companion.queue, d),
                       companion.worker, companion.results)
    BY <1>3, <2>1, <2>2 DEF Companions, CompanionIs
  <2>4. MacTyped'
    BY <1>3, <2>1, <2>2, <2>3 DEF MacTyped, CompanionIs
  <2>5. QED
    BY <1>1, <1>2, <1>4, <1>5, <1>7, <2>1, <2>3, <2>4
<1>9. CASE ~HasRoom(companion.queue)
  <2>1. outbound' = Append(outbound, Receipt(d, "rejected")) /\ UNCHANGED companion
    BY <1>1, <1>9
  <2>2. Receipt(d, "rejected") \in Receipts
    BY <1>2 DEF Receipt, Receipts, Outcomes, Remembered, Current
  <2>3. MacTyped'
    BY <1>3, <2>1, <2>2 DEF MacTyped
  <2>4. QED
    BY <1>1, <1>2, <1>4, <1>5, <1>7, <2>1, <2>3
<1>10. QED
  BY <1>8, <1>9

\* A receipt fits the outbound queue.
LEMMA OutboundAppend ==
    ASSUME MacTyped, companion.gen \in Gens, NEW d \in Deliveries, NEW result \in Outcomes
    PROVE  Append(outbound, Receipt(d, result)) \in Seq(Receipts)
<1>1. Receipt(d, result) \in Receipts
  BY DEF Receipt, Receipts, Current
<1>2. QED
  BY <1>1, CompanionFields

\* WorkerTakes: a duplicate, a refusal, or a delivery held over the yield.
LEMMA WorkerTakesDoes ==
    ASSUME MacTyped, WorkerTakes, companion.gen \in Gens
    PROVE  \E d \in Deliveries :
           /\ companion.worker.pc = "idle" /\ companion.queue # <<>>
           /\ d = Head(companion.queue)
           /\ MacTyped' /\ UNCHANGED <<mac, link, sessions, bridge>>
           /\ \/ /\ companion.results[d] # "none"
                 /\ outbound' = Append(outbound, Receipt(d, "duplicate"))
                 /\ CompanionIs(companion.gen, companion.phase, companion.alive,
                                Tail(companion.queue), companion.worker, companion.results)
              \/ /\ outbound' = Append(outbound, Receipt(d, "rejected"))
                 /\ CompanionIs(companion.gen, companion.phase, companion.alive,
                                Tail(companion.queue), companion.worker, companion.results)
              \/ /\ companion.results[d] = "none"
                 /\ command[d].gen = companion.gen /\ companion.phase = "live"
                 /\ outbound' = outbound
                 /\ CompanionIs(companion.gen, companion.phase, companion.alive,
                                Tail(companion.queue), [pc |-> "yielded", d |-> d],
                                companion.results)
<1> DEFINE d == Head(companion.queue)
           rest == [companion EXCEPT !.queue = Tail(@)]
<1>1. /\ companion.worker.pc = "idle" /\ companion.queue # <<>>
      /\ UNCHANGED <<mac, link, sessions, bridge>>
  BY DEF WorkerTakes, relayVars, pluginVars
<1>2. /\ companion.results[d] # "none" =>
            outbound' = Append(outbound, Receipt(d, "duplicate")) /\ companion' = rest
      /\ companion.results[d] = "none" /\ ~(Active /\ command[d].gen = Current) =>
            outbound' = Append(outbound, Receipt(d, "rejected")) /\ companion' = rest
      /\ companion.results[d] = "none" /\ Active /\ command[d].gen = Current =>
            /\ companion' = [rest EXCEPT !.worker = [pc |-> "yielded", d |-> d]]
            /\ UNCHANGED outbound
  BY DEF WorkerTakes
<1>3. /\ companion \in Companions /\ companion.queue \in Seq(Deliveries)
      /\ Len(companion.queue) <= CommandLimit /\ outbound \in Seq(Receipts)
  BY CompanionFields
<1>4. /\ d \in Deliveries /\ Tail(companion.queue) \in Seq(Deliveries)
      /\ Len(Tail(companion.queue)) <= CommandLimit
  BY <1>1, <1>3, CommandRoutingAssumption
<1>5. rest \in Companions /\ rest.queue = Tail(companion.queue)
      /\ rest.gen = companion.gen /\ rest.phase = companion.phase
      /\ rest.alive = companion.alive /\ rest.worker = companion.worker
      /\ rest.results = companion.results
  BY <1>3, <1>4 DEF Companions
<1>6. ASSUME companion' = rest
      PROVE  /\ companion' \in Companions /\ Len(companion'.queue) <= CommandLimit
             /\ CompanionIs(companion.gen, companion.phase, companion.alive,
                            Tail(companion.queue), companion.worker, companion.results)
  BY <1>4, <1>5, <1>6 DEF CompanionIs
<1>7. CASE companion.results[d] # "none"
  <2>1. outbound' = Append(outbound, Receipt(d, "duplicate")) /\ companion' = rest
    BY <1>2, <1>7
  <2>2. outbound' \in Seq(Receipts)
    BY <1>4, <2>1, OutboundAppend DEF Outcomes
  <2>3. QED
    BY <1>1, <1>4, <1>6, <1>7, <2>1, <2>2 DEF MacTyped
<1>8. CASE companion.results[d] = "none" /\ ~(Active /\ command[d].gen = Current)
  <2>1. outbound' = Append(outbound, Receipt(d, "rejected")) /\ companion' = rest
    BY <1>2, <1>8
  <2>2. outbound' \in Seq(Receipts)
    BY <1>4, <2>1, OutboundAppend DEF Outcomes, Remembered
  <2>3. QED
    BY <1>1, <1>4, <1>6, <2>1, <2>2 DEF MacTyped
<1>9. CASE companion.results[d] = "none" /\ Active /\ command[d].gen = Current
  <2>1. companion' = [rest EXCEPT !.worker = [pc |-> "yielded", d |-> d]] /\ UNCHANGED outbound
    BY <1>2, <1>9
  <2>2. [pc |-> "yielded", d |-> d] \in Workers
    BY <1>4 DEF Workers
  <2>3. companion' \in Companions
        /\ CompanionIs(companion.gen, companion.phase, companion.alive,
                       Tail(companion.queue), [pc |-> "yielded", d |-> d],
                       companion.results)
    BY <1>5, <2>1, <2>2 DEF Companions, CompanionIs
  <2>4. MacTyped'
    BY <1>3, <1>4, <2>1, <2>3 DEF MacTyped, CompanionIs
  <2>5. QED
    BY <1>1, <1>4, <1>9, <2>1, <2>3, <2>4 DEF Active, Current
<1>10. QED
  BY <1>7, <1>8, <1>9

\* WorkerSends: a refusal, a failure, or the request to the plugin.
LEMMA WorkerSendsDoes ==
    ASSUME MacTyped, PluginTyped, WorkerSends, companion.gen \in Gens,
           companion.worker.pc # "idle" => companion.worker.d \in Deliveries
    PROVE  \E d \in Deliveries :
           /\ companion.worker.pc = "yielded" /\ companion.worker.d = d
           /\ MacTyped' /\ BridgeKept /\ UNCHANGED <<mac, link, sessions>>
           /\ \/ /\ outbound' = Append(outbound, Receipt(d, "rejected"))
                 /\ UNCHANGED bridge
                 /\ CompanionIs(companion.gen, companion.phase, companion.alive,
                                companion.queue, NoWork, companion.results)
              \/ /\ outbound' = outbound
                 /\ UNCHANGED bridge
                 /\ CompanionIs(companion.gen, companion.phase, companion.alive,
                                companion.queue, [pc |-> "failed", d |-> d],
                                companion.results)
              \/ /\ outbound' = outbound
                 /\ companion.phase = "live" /\ SendsOnly(CommandRequest(d))
                 /\ CompanionIs(companion.gen, companion.phase, companion.alive,
                                companion.queue, [pc |-> "waiting", d |-> d],
                                companion.results)
<1> DEFINE d == companion.worker.d
<1>1. companion.worker.pc = "yielded" /\ UNCHANGED <<mac, link, sessions>>
  BY DEF WorkerSends, relayVars
<1>2. /\ ~Active =>
            /\ outbound' = Append(outbound, Receipt(d, "rejected"))
            /\ companion' = [companion EXCEPT !.worker = NoWork]
            /\ UNCHANGED bridge
      /\ Active /\ (bridge.bound # bridge.sock \/ bridge.state = "down") =>
            /\ companion' = [companion EXCEPT !.worker.pc = "failed"]
            /\ UNCHANGED <<outbound, bridge>>
      /\ Active /\ ~(bridge.bound # bridge.sock \/ bridge.state = "down") =>
            /\ bridge' = Sent(CommandRequest(d))
            /\ companion' = [companion EXCEPT !.worker.pc = "waiting"]
            /\ UNCHANGED outbound
  BY DEF WorkerSends
<1>3. /\ companion \in Companions /\ companion.worker \in Workers /\ d \in Deliveries
      /\ Len(companion.queue) <= CommandLimit /\ outbound \in Seq(Receipts)
  BY <1>1, CompanionFields
<1>4. ASSUME NEW pc \in {"failed", "waiting"}, companion' = [companion EXCEPT !.worker.pc = pc]
      PROVE  /\ companion' \in Companions /\ Len(companion'.queue) <= CommandLimit
             /\ CompanionIs(companion.gen, companion.phase, companion.alive,
                            companion.queue, [pc |-> pc, d |-> d], companion.results)
  <2>1. companion'.worker = [pc |-> pc, d |-> d]
    BY <1>3, <1>4 DEF Companions, Workers
  <2>2. [pc |-> pc, d |-> d] \in Workers
    BY <1>3 DEF Workers
  <2>3. CompanionIs(companion.gen, companion.phase, companion.alive,
                    companion.queue, [pc |-> pc, d |-> d], companion.results)
    BY <1>3, <1>4, <2>1 DEF Companions, CompanionIs
  <2>4. companion' \in Companions
    BY <1>3, <1>4, <2>1, <2>2 DEF Companions
  <2>5. QED
    BY <1>3, <2>3, <2>4 DEF CompanionIs
<1>5. CASE ~Active
  <2>1. /\ outbound' = Append(outbound, Receipt(d, "rejected"))
        /\ companion' = [companion EXCEPT !.worker = NoWork] /\ UNCHANGED bridge
    BY <1>2, <1>5
  <2>2. outbound' \in Seq(Receipts)
    BY <1>3, <2>1, OutboundAppend DEF Outcomes, Remembered
  <2>3. companion' \in Companions
        /\ CompanionIs(companion.gen, companion.phase, companion.alive,
                       companion.queue, NoWork, companion.results)
    BY <1>3, <2>1, NoneTyped DEF Companions, CompanionIs
  <2>4. MacTyped' /\ BridgeKept
    BY <1>3, <2>1, <2>2, <2>3, BridgeSame DEF MacTyped, CompanionIs
  <2>5. QED
    BY <1>1, <1>3, <2>1, <2>3, <2>4
<1>6. CASE Active /\ (bridge.bound # bridge.sock \/ bridge.state = "down")
  <2>1. companion' = [companion EXCEPT !.worker.pc = "failed"] /\ UNCHANGED <<outbound, bridge>>
    BY <1>2, <1>6
  <2>2. MacTyped' /\ BridgeKept
    BY <1>3, <1>4, <2>1, BridgeSame DEF MacTyped
  <2>3. QED
    BY <1>1, <1>3, <1>4, <2>1, <2>2
<1>7. CASE Active /\ ~(bridge.bound # bridge.sock \/ bridge.state = "down")
  <2>1. /\ bridge' = Sent(CommandRequest(d))
        /\ companion' = [companion EXCEPT !.worker.pc = "waiting"] /\ UNCHANGED outbound
    BY <1>2, <1>7
  <2>2. CommandRequest(d) \in Requests
    BY <1>3 DEF CommandRequest, Requests, Current
  <2>3. BridgeKept /\ SendsOnly(CommandRequest(d))
    BY <2>1, <2>2, SentDoes
  <2>4. MacTyped'
    BY <1>3, <1>4, <2>1 DEF MacTyped
  <2>5. QED
    BY <1>1, <1>3, <1>4, <1>7, <2>1, <2>3, <2>4 DEF Active
<1>8. QED
  BY <1>5, <1>6, <1>7

\* WorkerReturns: a failure, or the plugin's answer kept and made a receipt.
LEMMA WorkerReturnsDoes ==
    ASSUME MacTyped, PluginTyped, WorkerReturns, companion.gen \in Gens,
           companion.worker.pc # "idle" => companion.worker.d \in Deliveries
    PROVE  \E d \in Deliveries :
           /\ companion.worker.pc = "waiting" /\ companion.worker.d = d
           /\ MacTyped' /\ BridgeKept /\ SendsNothing /\ UNCHANGED <<mac, link, sessions>>
           /\ \/ /\ outbound' = outbound
                 /\ CompanionIs(companion.gen, companion.phase, companion.alive,
                                companion.queue, [pc |-> "failed", d |-> d],
                                companion.results)
              \/ \E result \in Outcomes :
                    /\ Answered(CommandRequest(d), result)
                    /\ outbound' = Append(outbound, Receipt(d, result))
                    /\ CompanionIs(companion.gen, companion.phase, companion.alive,
                                   companion.queue, NoWork,
                                   [companion.results EXCEPT ![d] = result])
<1> DEFINE d == companion.worker.d
<1>1. companion.worker.pc = "waiting" /\ UNCHANGED <<mac, link, sessions>>
      /\ bridge' = Taken(CommandRequest(d))
  BY DEF WorkerReturns, relayVars
<1>2. \/ companion' = [companion EXCEPT !.worker.pc = "failed"] /\ UNCHANGED outbound
      \/ \E result \in Outcomes :
            /\ Answered(CommandRequest(d), result)
            /\ companion' = [companion EXCEPT !.worker = NoWork, !.results[d] = result]
            /\ outbound' = Append(outbound, Receipt(d, result))
  BY DEF WorkerReturns
<1>3. /\ companion \in Companions /\ companion.worker \in Workers /\ d \in Deliveries
      /\ companion.results \in Results
      /\ Len(companion.queue) <= CommandLimit /\ outbound \in Seq(Receipts)
  BY <1>1, CompanionFields
<1>4. BridgeKept /\ SendsNothing
  BY <1>1, TakenDoes
<1>5. CASE companion' = [companion EXCEPT !.worker.pc = "failed"] /\ UNCHANGED outbound
  <2>1. companion'.worker = [pc |-> "failed", d |-> d]
    BY <1>3, <1>5 DEF Companions, Workers
  <2>2. [pc |-> "failed", d |-> d] \in Workers
    BY <1>3 DEF Workers
  <2>3. CompanionIs(companion.gen, companion.phase, companion.alive,
                    companion.queue, [pc |-> "failed", d |-> d], companion.results)
    BY <1>3, <1>5, <2>1 DEF Companions, CompanionIs
  <2>4. companion' \in Companions
    BY <1>3, <1>5, <2>1, <2>2 DEF Companions
  <2>5. MacTyped'
    BY <1>3, <1>5, <2>3, <2>4 DEF MacTyped, CompanionIs
  <2>6. QED
    BY <1>1, <1>3, <1>4, <1>5, <2>3, <2>5
<1>6. ASSUME NEW result \in Outcomes,
             Answered(CommandRequest(d), result),
             companion' = [companion EXCEPT !.worker = NoWork, !.results[d] = result],
             outbound' = Append(outbound, Receipt(d, result))
      PROVE  /\ MacTyped'
             /\ CompanionIs(companion.gen, companion.phase, companion.alive,
                            companion.queue, NoWork,
                            [companion.results EXCEPT ![d] = result])
  <2>1. [companion.results EXCEPT ![d] = result] \in Results
    BY <1>3 DEF Results
  <2>2. CompanionIs(companion.gen, companion.phase, companion.alive, companion.queue,
                    NoWork, [companion.results EXCEPT ![d] = result])
    BY <1>3, <1>6 DEF Companions, CompanionIs
  <2>3. companion' \in Companions
    BY <1>3, <1>6, <2>1, <2>2, NoneTyped DEF Companions, CompanionIs
  <2>4. outbound' \in Seq(Receipts)
    BY <1>3, <1>6, OutboundAppend
  <2>5. QED
    BY <1>3, <2>2, <2>3, <2>4 DEF MacTyped, CompanionIs
<1>7. QED
  BY <1>1, <1>2, <1>3, <1>4, <1>5, <1>6

\* WriterWrites takes the oldest receipt; it goes up the link, or is lost.
LEMMA WriterWritesDoes ==
    ASSUME RelayTyped, MacTyped, WriterWrites, companion.gen \in Gens
    PROVE  /\ companion.alive /\ outbound # <<>> /\ outbound' = Tail(outbound)
           /\ RelayTyped' /\ MacTyped' /\ UNCHANGED <<companion, bridge>>
           /\ \A h \in Gens :
                 /\ link'[h].down = link[h].down /\ link'[h].handler = link[h].handler
                 /\ \/ link'[h].up = link[h].up
                    \/ /\ h = companion.gen
                       /\ link'[h].up = Append(link[h].up, Head(outbound))
<1> DEFINE m == companion.gen
<1>1. /\ companion.alive /\ outbound # <<>> /\ outbound' = Tail(outbound)
      /\ link' = IF link[m].state = "open"
                 THEN [link EXCEPT ![m].up = Append(@, Head(outbound))] ELSE link
      /\ UNCHANGED <<mac, sessions, companion, bridge>>
  BY DEF WriterWrites, Current, pluginVars
<1>2. /\ link \in [Gens -> Links] /\ link[m] \in Links
      /\ link[m].up \in Seq({Hello} \cup Receipts)
  BY LinkTyped DEF RelayTyped
<1>3. outbound \in Seq(Receipts) /\ Head(outbound) \in Receipts
      /\ Tail(outbound) \in Seq(Receipts)
  BY <1>1, CompanionFields
<1>4. MacTyped'
  BY <1>1, <1>3 DEF MacTyped
<1>5. CASE UNCHANGED link
  BY <1>1, <1>4, <1>5, LinkKeeps
<1>6. CASE link' = [link EXCEPT ![m].up = Append(@, Head(outbound))]
  <2>1. link'[m] = [link[m] EXCEPT !.up = Append(@, Head(outbound))]
        /\ \A h \in Gens : h # m => link'[h] = link[h]
    BY <1>2, <1>6
  <2>2. Append(link[m].up, Head(outbound)) \in Seq({Hello} \cup Receipts)
    BY <1>2, <1>3
  <2>3. /\ link'[m] \in Links /\ link'[m].up = Append(link[m].up, Head(outbound))
        /\ link'[m].down = link[m].down /\ link'[m].handler = link[m].handler
    BY <1>2, <2>1, <2>2 DEF Links
  <2>4. link' \in [Gens -> Links]
    BY <1>2, <1>6, <2>1, <2>3
  <2>5. RelayTyped'
    BY <1>1, <2>4 DEF RelayTyped
  <2>6. QED
    BY <1>1, <1>4, <2>1, <2>3, <2>5
<1>7. QED
  BY <1>1, <1>5, <1>6

\* Ends forgets the results, and asks the plugin to give the binding up.
LEMMA EndsDoes ==
    ASSUME MacTyped, PluginTyped, NEW tasksRun \in BOOLEAN, Ends(tasksRun),
           companion.gen \in Gens
    PROVE  /\ MacTyped' /\ BridgeKept /\ UNCHANGED <<mac, link, sessions, outbound>>
           /\ SendsOnly([op |-> "invalidate", gen |-> companion.gen])
           /\ \E phase \in {"closing", "leaving"}, alive \in BOOLEAN :
                 /\ alive => phase = "closing"
                 /\ CompanionIs(companion.gen, phase, alive, companion.queue,
                                companion.worker, NoResults)
<1> DEFINE request == [op |-> "invalidate", gen |-> companion.gen]
           phase == IF TransportEnded THEN "leaving" ELSE "closing"
           alive == tasksRun /\ ~TransportEnded
<1>1. /\ bridge' = [(IF TransportEnded THEN bridge ELSE Sent(request)) EXCEPT !.bound = 0]
      /\ companion' = [companion EXCEPT !.phase = phase, !.alive = alive,
                                        !.results = NoResults]
      /\ UNCHANGED <<mac, link, sessions, outbound>>
  BY DEF Ends, Current, relayVars
<1>2. /\ companion \in Companions /\ outbound \in Seq(Receipts)
      /\ Len(companion.queue) <= CommandLimit
      /\ phase \in {"closing", "leaving"} /\ alive \in BOOLEAN
      /\ alive => phase = "closing"
  BY CompanionFields
<1>3. CompanionIs(companion.gen, phase, alive, companion.queue, companion.worker, NoResults)
  BY <1>1, <1>2 DEF Companions, CompanionIs
<1>4. companion' \in Companions
  BY <1>1, <1>2, NoneTyped DEF Companions
<1>5. MacTyped'
  BY <1>1, <1>2, <1>3, <1>4 DEF MacTyped, CompanionIs
<1>6. BridgeKept /\ SendsOnly(request)
  <2>1. /\ bridge \in Bridges /\ bridge.toPlugin \in Seq(Requests) /\ 0 \in Socks
        /\ request \in Requests
    BY BridgeFields, CommandRoutingAssumption DEF Socks, Requests
  <2>2. CASE bridge' = [bridge EXCEPT !.bound = 0]
    BY <2>1, <2>2 DEF Bridges, BridgeKept, SendsOnly, SendsNothing
  <2>3. CASE bridge.state = "up"
             /\ bridge' = [[bridge EXCEPT !.toPlugin = Append(@, request)] EXCEPT !.bound = 0]
    <3>1. Append(bridge.toPlugin, request) \in Seq(Requests)
      BY <2>1
    <3>2. bridge' \in Bridges
      BY <2>1, <2>3, <3>1 DEF Bridges
    <3>3. /\ bridge'.toPlugin = Append(bridge.toPlugin, request)
          /\ bridge'.sock = bridge.sock /\ bridge'.state = bridge.state
          /\ bridge'.toServer = bridge.toServer
      BY <2>1, <2>3 DEF Bridges
    <3>4. QED
      BY <2>3, <3>2, <3>3 DEF BridgeKept, SendsOnly
  <2>4. QED
    BY <1>1, <2>2, <2>3 DEF Sent
<1>7. QED
  BY <1>1, <1>2, <1>3, <1>5, <1>6

\* InvalidateReturns: the tasks are cancelled.
LEMMA InvalidateReturnsDoes ==
    ASSUME MacTyped, PluginTyped, InvalidateReturns
    PROVE  /\ companion.phase = "closing"
           /\ MacTyped' /\ BridgeKept /\ SendsNothing
           /\ UNCHANGED <<mac, link, sessions, outbound>>
           /\ CompanionIs(companion.gen, "leaving", FALSE, companion.queue,
                          companion.worker, companion.results)
<1>1. /\ companion.phase = "closing"
      /\ companion' = [companion EXCEPT !.phase = "leaving", !.alive = FALSE]
      /\ bridge' = Taken([op |-> "invalidate", gen |-> companion.gen])
      /\ UNCHANGED <<mac, link, sessions, outbound>>
  BY DEF InvalidateReturns, Current, relayVars
<1>2. /\ companion \in Companions /\ outbound \in Seq(Receipts)
      /\ Len(companion.queue) <= CommandLimit
  BY CompanionFields
<1>3. companion' \in Companions
      /\ CompanionIs(companion.gen, "leaving", FALSE, companion.queue, companion.worker,
                     companion.results)
  BY <1>1, <1>2 DEF Companions, CompanionIs
<1>4. MacTyped'
  BY <1>1, <1>2, <1>3 DEF MacTyped, CompanionIs
<1>5. QED
  BY <1>1, <1>3, <1>4, TakenDoes

\* The link of the connection that is left takes no more commands.
LinkLeft ==
    /\ RelayTyped'
    /\ \A h \in Gens :
          /\ link'[h].up = link[h].up /\ link'[h].handler = link[h].handler
          /\ link'[h].down \in {link[h].down, <<>>}

\* Leave and Restart, on the link.
LEMMA LinkLeftDoes ==
    ASSUME RelayTyped, companion.gen \in Gens, UNCHANGED mac, sessions' \subseteq Gens,
           NEW state \in {"closed", "cut"},
           link' = [link EXCEPT ![companion.gen].state = IF @ = "open" THEN state ELSE @,
                                ![companion.gen].down = <<>>]
    PROVE  LinkLeft
<1>1. PICK m \in Gens : m = companion.gen
  OBVIOUS
<1>2. link \in [Gens -> Links] /\ link[m] \in Links /\ <<>> \in Seq(Deliveries)
  BY DEF RelayTyped
<1>3. /\ \A h \in Gens : h # m => link'[h] = link[h]
      /\ link'[m] \in Links
      /\ link'[m].up = link[m].up /\ link'[m].down = <<>>
      /\ link'[m].handler = link[m].handler
  BY <1>1, <1>2 DEF Links
<1>4. link' \in [Gens -> Links]
  BY <1>1, <1>2, <1>3
<1>5. QED
  BY <1>3, <1>4 DEF LinkLeft, RelayTyped

\* Leave empties the queue and stops the worker.
LEMMA LeaveDoes ==
    ASSUME RelayTyped, MacTyped, Leave, companion.gen \in Gens
    PROVE  /\ companion.phase = "leaving"
           /\ LinkLeft /\ MacTyped' /\ UNCHANGED <<mac, outbound, bridge>>
           /\ CompanionIs(companion.gen, "idle", companion.alive, <<>>, NoWork, NoResults)
<1>1. /\ companion.phase = "leaving"
      /\ companion' = [companion EXCEPT !.phase = "idle", !.queue = <<>>, !.worker = NoWork,
                                        !.results = NoResults]
      /\ link' = [link EXCEPT ![companion.gen].state = IF @ = "open" THEN "closed" ELSE @,
                              ![companion.gen].down = <<>>]
      /\ UNCHANGED <<mac, sessions, outbound, bridge>>
  BY DEF Leave, Current, pluginVars
<1>2. companion \in Companions /\ outbound \in Seq(Receipts)
  BY CompanionFields
<1>3. companion' \in Companions
  BY <1>1, <1>2, NoneTyped DEF Companions
<1>4. CompanionIs(companion.gen, "idle", companion.alive, <<>>, NoWork, NoResults)
  BY <1>1, <1>2 DEF Companions, CompanionIs
<1>5. MacTyped'
  BY <1>1, <1>2, <1>3, <1>4, CommandRoutingAssumption DEF MacTyped, CompanionIs
<1>6. LinkLeft
  BY <1>1, LinkLeftDoes DEF RelayTyped
<1>7. QED
  BY <1>1, <1>4, <1>5, <1>6

\* RequestTimesOut fails what waits for the plugin.
LEMMA RequestTimesOutDoes ==
    ASSUME MacTyped, RequestTimesOut
    PROVE  /\ MacTyped' /\ UNCHANGED <<mac, link, sessions, outbound, bridge>>
           /\ \/ /\ companion.phase \in {"binding", "closing"}
                 /\ CompanionIs(companion.gen, "leaving", FALSE, companion.queue,
                                companion.worker, companion.results)
              \/ /\ companion.worker.pc = "waiting"
                 /\ CompanionIs(companion.gen, companion.phase, companion.alive,
                                companion.queue,
                                [pc |-> "failed", d |-> companion.worker.d],
                                companion.results)
<1>1. /\ \/ /\ companion.phase \in {"binding", "closing"}
            /\ companion' = [companion EXCEPT !.phase = "leaving", !.alive = FALSE]
         \/ /\ companion.worker.pc = "waiting"
            /\ companion' = [companion EXCEPT !.worker.pc = "failed"]
      /\ UNCHANGED <<mac, link, sessions, outbound, bridge>>
  BY DEF RequestTimesOut, WorkerGivesUp, relayVars, pluginVars
<1>2. /\ companion \in Companions /\ companion.worker \in Workers /\ outbound \in Seq(Receipts)
      /\ Len(companion.queue) <= CommandLimit
  BY CompanionFields
<1>3. CASE /\ companion.phase \in {"binding", "closing"}
           /\ companion' = [companion EXCEPT !.phase = "leaving", !.alive = FALSE]
  <2>1. companion' \in Companions
        /\ CompanionIs(companion.gen, "leaving", FALSE, companion.queue, companion.worker,
                       companion.results)
    BY <1>2, <1>3 DEF Companions, CompanionIs
  <2>2. MacTyped'
    BY <1>1, <1>2, <2>1 DEF MacTyped, CompanionIs
  <2>3. QED
    BY <1>1, <1>3, <2>1, <2>2
<1>4. CASE /\ companion.worker.pc = "waiting"
           /\ companion' = [companion EXCEPT !.worker.pc = "failed"]
  <2>1. companion'.worker = [pc |-> "failed", d |-> companion.worker.d]
    BY <1>2, <1>4 DEF Companions, Workers
  <2>2. [pc |-> "failed", d |-> companion.worker.d] \in Workers
    BY <1>2 DEF Workers
  <2>3. CompanionIs(companion.gen, companion.phase, companion.alive, companion.queue,
                    [pc |-> "failed", d |-> companion.worker.d], companion.results)
    BY <1>2, <1>4, <2>1 DEF Companions, CompanionIs
  <2>4. companion' \in Companions
    BY <1>2, <1>4, <2>1, <2>2 DEF Companions
  <2>5. MacTyped'
    BY <1>1, <1>2, <2>3, <2>4 DEF MacTyped, CompanionIs
  <2>6. QED
    BY <1>1, <1>4, <2>3, <2>5
<1>5. QED
  BY <1>1, <1>3, <1>4

\* Restart: the Companion forgets everything.
LEMMA RestartDoes ==
    ASSUME RelayTyped, MacTyped, PluginTyped, Restart
    PROVE  /\ companion.gen \in Gens
           /\ LinkLeft /\ MacTyped' /\ BridgeKept /\ SendsNothing
           /\ UNCHANGED mac /\ outbound' = <<>>
           /\ CompanionIs(companion.gen, "idle", FALSE, <<>>, NoWork, NoResults)
<1>1. /\ companion.gen \in 1..(MaxGen - 1)
      /\ sessions' = sessions \cup {companion.gen + 1}
      /\ companion' = [companion EXCEPT !.phase = "idle", !.alive = FALSE, !.queue = <<>>,
                                        !.worker = NoWork, !.results = NoResults]
      /\ outbound' = <<>>
      /\ bridge' = [bridge EXCEPT !.state = "down", !.bound = 0, !.toServer = {}]
      /\ link' = [link EXCEPT ![companion.gen].state = IF @ = "open" THEN "cut" ELSE @,
                              ![companion.gen].down = <<>>]
      /\ UNCHANGED mac
  BY DEF Restart, Current
<1>2. companion \in Companions /\ bridge \in Bridges /\ 0 \in Socks
  BY CompanionFields, BridgeFields, CommandRoutingAssumption DEF Socks
<1>3. companion.gen \in Gens /\ companion.gen + 1 \in Gens
  BY <1>1, CommandRoutingAssumption DEF Gens
<1>4. companion' \in Companions
  BY <1>1, <1>2, NoneTyped DEF Companions
<1>5. CompanionIs(companion.gen, "idle", FALSE, <<>>, NoWork, NoResults)
  BY <1>1, <1>2 DEF Companions, CompanionIs
<1>6. MacTyped'
  <2>1. <<>> \in Seq(Receipts) /\ Len(<<>>) <= CommandLimit
    BY CommandRoutingAssumption
  <2>2. QED
    BY <1>1, <1>4, <1>5, <2>1 DEF MacTyped, CompanionIs
<1>7. sessions' \subseteq Gens
  BY <1>1, <1>3 DEF RelayTyped
<1>8. LinkLeft
  BY <1>1, <1>3, <1>7, LinkLeftDoes
<1>9. BridgeKept /\ SendsNothing
  BY <1>1, <1>2 DEF Bridges, BridgeKept, SendsNothing
<1>10. QED
  BY <1>1, <1>3, <1>5, <1>6, <1>8, <1>9

(* The plugin and its socket.                                              *)
Fails ==
    /\ companion'.gen = companion.gen /\ companion'.queue = companion.queue
    /\ companion'.results = companion.results
    /\ \/ companion'.phase = companion.phase
       \/ companion.phase \in {"binding", "closing"} /\ companion'.phase = "leaving"
    /\ companion'.alive => companion.alive /\ companion'.phase = companion.phase
    /\ companion'.worker.d = companion.worker.d
    /\ \/ companion'.worker.pc = companion.worker.pc
       \/ companion.worker.pc = "waiting" /\ companion'.worker.pc = "failed"

\* _fail_pending fails what waits, whichever task it is.
LEMMA FailPendingDoes ==
    ASSUME MacTyped, Phases, UNCHANGED outbound, companion' = FailPending(companion)
    PROVE  MacTyped' /\ Fails
<1>1. /\ companion \in Companions /\ companion.worker \in Workers
      /\ outbound \in Seq(Receipts) /\ Len(companion.queue) <= CommandLimit
  BY CompanionFields
<1>2. companion.alive \in BOOLEAN /\ (companion.alive => companion.phase \in {"live", "closing"})
  BY CompanionFields DEF Phases
<1>3. companion' =
        [companion EXCEPT !.phase = IF @ \in {"binding", "closing"} THEN "leaving" ELSE @,
                          !.alive = IF companion.phase = "closing" THEN FALSE ELSE @,
                          !.worker.pc = IF @ = "waiting" THEN "failed" ELSE @]
  BY DEF FailPending
<1>4. /\ companion'.gen = companion.gen /\ companion'.queue = companion.queue
      /\ companion'.results = companion.results
      /\ companion'.phase = IF companion.phase \in {"binding", "closing"} THEN "leaving"
                            ELSE companion.phase
      /\ companion'.alive = IF companion.phase = "closing" THEN FALSE ELSE companion.alive
  BY <1>1, <1>3 DEF Companions
<1>5. /\ companion'.worker.d = companion.worker.d
      /\ companion'.worker.pc = IF companion.worker.pc = "waiting" THEN "failed"
                                ELSE companion.worker.pc
      /\ companion'.worker \in Workers
  BY <1>1, <1>3 DEF Companions, Workers
<1>6. companion' \in Companions
  BY <1>1, <1>3, <1>4, <1>5 DEF Companions
<1>7. MacTyped'
  BY <1>1, <1>4, <1>6 DEF MacTyped
<1>8. Fails
  BY <1>2, <1>4, <1>5 DEF Fails
<1>9. QED
  BY <1>7, <1>8

\* The plugin takes its next request, and may answer it.
Answer(request, result) == [request |-> request, result |-> result]
Takes(results) ==
    /\ bridge' \in Bridges
    /\ bridge.toPlugin # <<>> /\ bridge'.toPlugin = Tail(bridge.toPlugin)
    /\ bridge'.sock = bridge.sock /\ bridge'.state = bridge.state
    /\ bridge'.toServer \subseteq
          bridge.toServer \cup {Answer(NextRequest, result) : result \in results}

\* The next request, its delivery and its connection.
LEMMA NextRequestTyped ==
    ASSUME PluginTyped, bridge.toPlugin # <<>>
    PROVE  /\ NextRequest \in Requests /\ 1 \in DOMAIN bridge.toPlugin
           /\ NextRequest = bridge.toPlugin[1]
           /\ NextRequest.gen \in Gens
           /\ NextRequest.op = "command" => NextRequest.d \in Deliveries
<1>1. bridge.toPlugin \in Seq(Requests)
  BY BridgeFields
<1>2. NextRequest \in Requests /\ 1 \in DOMAIN bridge.toPlugin
      /\ NextRequest = bridge.toPlugin[1]
  BY <1>1 DEF NextRequest
<1>3. QED
  BY <1>2 DEF Requests

\* Received takes the next request off the socket.
LEMMA ReceivedTyped ==
    ASSUME PluginTyped, bridge.toPlugin # <<>>
    PROVE  /\ Received \in Bridges /\ Received.toPlugin = Tail(bridge.toPlugin)
           /\ Received.sock = bridge.sock /\ Received.state = bridge.state
           /\ Received.toServer = bridge.toServer
<1>1. bridge \in Bridges /\ Tail(bridge.toPlugin) \in Seq(Requests)
  BY BridgeFields
<1>2. QED
  BY <1>1 DEF Received, Bridges

\* A step that only receives answers nothing.
LEMMA ReceivedDoes ==
    ASSUME PluginTyped, bridge.toPlugin # <<>>, bridge' = Received
    PROVE  Takes({})
BY ReceivedTyped DEF Takes

\* Replied adds one answer, when the socket is up.
LEMMA RepliedTyped ==
    ASSUME NEW b \in Bridges, NEW request \in Requests,
           NEW result \in Outcomes \cup {"ok", "error"}
    PROVE  /\ Replied(b, request, result) \in Bridges
           /\ Replied(b, request, result).toPlugin = b.toPlugin
           /\ Replied(b, request, result).sock = b.sock
           /\ Replied(b, request, result).state = b.state
           /\ Replied(b, request, result).toServer \subseteq
                 b.toServer \cup {Answer(request, result)}
<1>1. CASE b.state # "up"
  BY <1>1 DEF Replied
<1>2. CASE b.state = "up"
  <2>1. Replied(b, request, result) =
          [b EXCEPT !.toServer = @ \cup {[request |-> request, result |-> result]}]
    BY <1>2 DEF Replied
  <2>2. [request |-> request, result |-> result] \in Responses
    BY DEF Responses
  <2>3. b.toServer \cup {[request |-> request, result |-> result]} \subseteq Responses
    BY <2>2 DEF Bridges
  <2>4. QED
    BY <2>1, <2>3 DEF Bridges, Answer
<1>3. QED
  BY <1>1, <1>2

\* A step that receives and replies.
LEMMA RepliedDoes ==
    ASSUME PluginTyped, bridge.toPlugin # <<>>, NEW result \in Outcomes \cup {"ok", "error"},
           bridge' = Replied(Received, NextRequest, result)
    PROVE  Takes({result})
BY ReceivedTyped, NextRequestTyped, RepliedTyped DEF Takes

\* The types of the adapter's fields.
LEMMA DesktopFields ==
    ASSUME PluginTyped
    PROVE  /\ desktop \in Desktops /\ desktop.bound \in 0..MaxGen
           /\ desktop.receipts \in Memories
           /\ desktop.running \subseteq Runs
           /\ NoResults \in Memories
BY DEF PluginTyped, Desktops, Memories, NoResults

\* PluginBinds binds to the request's connection, and forgets receipts of another.
LEMMA PluginBindsDoes ==
    ASSUME PluginTyped, PluginBinds
    PROVE  /\ Takes({"ok", "error"}) /\ NextRequest.op = "bind"
           /\ desktop' \in Desktops
           /\ desktop'.bound = NextRequest.gen
           /\ desktop'.receipts \in {desktop.receipts, NoResults}
           /\ desktop'.running = desktop.running
           /\ UNCHANGED <<companion, executed>>
<1>1. /\ bridge.toPlugin # <<>> /\ NextRequest.op = "bind"
      /\ desktop' = IF desktop.bound = NextRequest.gen THEN desktop
                    ELSE [desktop EXCEPT !.bound = NextRequest.gen, !.receipts = NoResults]
      /\ \/ bridge' = Replied(Received, NextRequest, "ok")
         \/ bridge' = Replied(Received, NextRequest, "error")
      /\ UNCHANGED <<companion, executed>>
  BY DEF PluginBinds, macVars
<1>2. Takes({"ok"}) \/ Takes({"error"})
  BY <1>1, RepliedDoes
<1>3. Takes({"ok", "error"})
  BY <1>2 DEF Takes
<1>4. NextRequest.gen \in 0..MaxGen
  BY <1>1, NextRequestTyped, CommandRoutingAssumption DEF Gens
<1>5. /\ desktop' \in Desktops /\ desktop'.bound = NextRequest.gen
      /\ desktop'.receipts \in {desktop.receipts, NoResults}
      /\ desktop'.running = desktop.running
  BY <1>1, <1>4, DesktopFields DEF Desktops
<1>6. QED
  BY <1>1, <1>3, <1>5

\* PluginInvalidates gives the binding up if it is the request's.
LEMMA PluginInvalidatesDoes ==
    ASSUME PluginTyped, PluginInvalidates
    PROVE  /\ Takes({"ok"}) /\ NextRequest.op = "invalidate"
           /\ desktop' \in Desktops
           /\ desktop'.bound \in {desktop.bound, 0}
           /\ desktop'.receipts \in {desktop.receipts, NoResults}
           /\ desktop'.running = desktop.running
           /\ UNCHANGED <<companion, executed>>
<1>1. /\ bridge.toPlugin # <<>> /\ NextRequest.op = "invalidate"
      /\ desktop' = IF desktop.bound # NextRequest.gen THEN desktop
                    ELSE [desktop EXCEPT !.bound = 0, !.receipts = NoResults]
      /\ bridge' = Replied(Received, NextRequest, "ok")
      /\ UNCHANGED <<companion, executed>>
  BY DEF PluginInvalidates, macVars
<1>2. Takes({"ok"})
  BY <1>1, RepliedDoes
<1>3. 0 \in 0..MaxGen
  BY CommandRoutingAssumption
<1>4. /\ desktop' \in Desktops /\ desktop'.bound \in {desktop.bound, 0}
      /\ desktop'.receipts \in {desktop.receipts, NoResults}
      /\ desktop'.running = desktop.running
  BY <1>1, <1>3, DesktopFields DEF Desktops
<1>5. QED
  BY <1>1, <1>2, <1>4

\* PluginExecutes: a duplicate, a refusal, or the command done, at once or in a
\* handler that runs on.
LEMMA PluginExecutesDoes ==
    ASSUME PluginTyped, Counts, PluginExecutes
    PROVE  \E d \in Deliveries, result \in {"rejected", "already_resolved"} :
           /\ bridge.toPlugin # <<>> /\ IsCommand(NextRequest, d)
           /\ desktop' \in Desktops /\ desktop'.bound = desktop.bound
           /\ UNCHANGED companion
           /\ \/ /\ desktop.receipts[d] # "none" /\ Takes({"duplicate"})
                 /\ UNCHANGED <<desktop, executed>>
              \/ /\ Takes({result}) /\ UNCHANGED executed
                 /\ result = "already_resolved" => command[d].kind \in Resolvable
                 /\ desktop'.receipts = [desktop.receipts EXCEPT ![d] = result]
                 /\ desktop'.running = desktop.running
              \/ /\ desktop.bound = command[d].gen
                 /\ executed' = [executed EXCEPT ![d] = @ + 1]
                 /\ \/ /\ Takes({"executed"}) /\ desktop'.running = desktop.running
                       /\ desktop'.receipts = [desktop.receipts EXCEPT ![d] = "executed"]
                    \/ /\ command[d].kind \in Awaits
                       /\ Takes({}) /\ desktop'.receipts = desktop.receipts
                       /\ desktop'.running = desktop.running
                             \cup {[request |-> NextRequest, sock |-> bridge.sock]}
<1> DEFINE d == NextRequest.d
           remembered(result) == [desktop EXCEPT !.receipts[d] = result]
<1>1. bridge.toPlugin # <<>> /\ NextRequest.op = "command" /\ UNCHANGED companion
  BY DEF PluginExecutes, macVars
<1>2. \/ /\ desktop.receipts[d] # "none"
         /\ bridge' = Replied(Received, NextRequest, "duplicate")
         /\ UNCHANGED <<desktop, executed>>
      \/ \E result \in {"rejected", "already_resolved"} :
            /\ result = "already_resolved" => command[d].kind \in Resolvable
            /\ bridge' = Replied(Received, NextRequest, result)
            /\ desktop' = remembered(result)
            /\ UNCHANGED executed
      \/ /\ desktop.bound = command[d].gen
         /\ executed' = [executed EXCEPT ![d] = @ + 1]
         /\ IF command[d].kind \in Awaits
            THEN /\ bridge' = Received
                 /\ desktop' = [desktop EXCEPT !.running =
                                   @ \cup {[request |-> NextRequest, sock |-> bridge.sock]}]
            ELSE /\ bridge' = Replied(Received, NextRequest, "executed")
                 /\ desktop' = remembered("executed")
  BY DEF PluginExecutes
<1>3. d \in Deliveries /\ NextRequest \in Requests /\ IsCommand(NextRequest, d)
  BY <1>1, NextRequestTyped DEF IsCommand
<1>4. ASSUME NEW result \in Remembered, desktop' = remembered(result)
      PROVE  /\ desktop' \in Desktops /\ desktop'.bound = desktop.bound
             /\ desktop'.receipts = [desktop.receipts EXCEPT ![d] = result]
             /\ desktop'.running = desktop.running
  <2>1. /\ desktop'.bound = desktop.bound /\ desktop'.running = desktop.running
        /\ desktop'.receipts = [desktop.receipts EXCEPT ![d] = result]
    BY <1>4, DesktopFields DEF Desktops
  <2>2. [desktop.receipts EXCEPT ![d] = result]
           \in Memories
    BY <1>3, DesktopFields DEF Memories
  <2>3. desktop' \in Desktops
    BY <1>4, <2>1, <2>2, DesktopFields DEF Desktops
  <2>4. QED
    BY <2>1, <2>3
<1>5. CASE /\ desktop.receipts[d] # "none"
           /\ bridge' = Replied(Received, NextRequest, "duplicate")
           /\ UNCHANGED <<desktop, executed>>
  <2>1. Takes({"duplicate"})
    BY <1>1, <1>5, RepliedDoes DEF Outcomes
  <2>2. desktop' \in Desktops /\ desktop'.bound = desktop.bound
    BY <1>5, DesktopFields
  <2>3. QED
    BY <1>1, <1>3, <1>5, <2>1, <2>2
<1>6. CASE \E result \in {"rejected", "already_resolved"} :
              /\ result = "already_resolved" => command[d].kind \in Resolvable
              /\ bridge' = Replied(Received, NextRequest, result)
              /\ desktop' = remembered(result)
              /\ UNCHANGED executed
  <2>1. PICK result \in {"rejected", "already_resolved"} :
              /\ result = "already_resolved" => command[d].kind \in Resolvable
              /\ bridge' = Replied(Received, NextRequest, result)
              /\ desktop' = remembered(result)
              /\ UNCHANGED executed
    BY <1>6
  <2>2. result \in Remembered /\ result \in Outcomes \cup {"ok", "error"}
    BY DEF Remembered, Outcomes
  <2>3. Takes({result})
    BY <1>1, <2>1, <2>2, RepliedDoes
  <2>4. /\ desktop' \in Desktops /\ desktop'.bound = desktop.bound
        /\ desktop'.receipts = [desktop.receipts EXCEPT ![d] = result]
        /\ desktop'.running = desktop.running
    BY <1>4, <2>1, <2>2
  <2>5. QED
    BY <1>1, <1>3, <2>1, <2>3, <2>4
<1>7. CASE /\ desktop.bound = command[d].gen
           /\ executed' = [executed EXCEPT ![d] = @ + 1]
           /\ IF command[d].kind \in Awaits
              THEN /\ bridge' = Received
                   /\ desktop' = [desktop EXCEPT !.running =
                                     @ \cup {[request |-> NextRequest, sock |-> bridge.sock]}]
              ELSE /\ bridge' = Replied(Received, NextRequest, "executed")
                   /\ desktop' = remembered("executed")
  <2>1. CASE /\ bridge' = Replied(Received, NextRequest, "executed")
             /\ desktop' = remembered("executed")
    <3>1. Takes({"executed"})
      BY <1>1, <2>1, RepliedDoes DEF Outcomes, Remembered
    <3>2. /\ desktop' \in Desktops /\ desktop'.bound = desktop.bound
          /\ desktop'.receipts = [desktop.receipts EXCEPT ![d] = "executed"]
          /\ desktop'.running = desktop.running
      BY <1>4, <2>1 DEF Remembered
    <3>3. QED
      BY <1>1, <1>3, <1>7, <3>1, <3>2
  <2>2. CASE /\ command[d].kind \in Awaits
             /\ bridge' = Received
             /\ desktop' = [desktop EXCEPT !.running =
                               @ \cup {[request |-> NextRequest, sock |-> bridge.sock]}]
    <3>1. Takes({})
      BY <1>1, <2>2, ReceivedDoes
    <3>2. bridge.sock \in 1..(MaxFaults + 1)
      BY <1>1, BridgeFields, CommandRoutingAssumption DEF Counts, Socks
    <3>3. desktop.running \cup {[request |-> NextRequest, sock |-> bridge.sock]} \subseteq Runs
      BY <1>3, <3>2, DesktopFields DEF Runs
    <3>4. /\ desktop'.bound = desktop.bound /\ desktop'.receipts = desktop.receipts
          /\ desktop'.running = desktop.running
                \cup {[request |-> NextRequest, sock |-> bridge.sock]}
      BY <2>2, DesktopFields DEF Desktops
    <3>5. desktop' \in Desktops
      BY <2>2, <3>3, DesktopFields DEF Desktops
    <3>6. QED
      BY <1>1, <1>3, <1>7, <2>2, <3>1, <3>4, <3>5
  <2>3. QED
    BY <1>7, <2>1, <2>2
<1>8. QED
  BY <1>2, <1>5, <1>6, <1>7

\* HandlerReturns answers on the socket it was asked on, and remembers success.
LEMMA HandlerReturnsDoes ==
    ASSUME PluginTyped, HandlerReturns
    PROVE  \E run \in desktop.running, result \in Remembered :
           /\ bridge' \in Bridges
           /\ bridge'.sock = bridge.sock /\ bridge'.state = bridge.state
           /\ bridge'.toPlugin = bridge.toPlugin
           /\ bridge'.toServer \subseteq bridge.toServer \cup
                 {Answer(run.request, result), Answer(run.request, "error")}
           /\ desktop' \in Desktops /\ desktop'.bound = desktop.bound
           /\ desktop'.running = desktop.running \ {run}
           /\ desktop'.receipts \in {desktop.receipts,
                                     [desktop.receipts EXCEPT ![run.request.d] = result]}
           /\ result \in HandlerAnswers(command[run.request.d].kind)
           /\ UNCHANGED <<companion, executed>>
<1>1. PICK run \in desktop.running, result \in Remembered :
        /\ result \in HandlerAnswers(command[run.request.d].kind)
        /\ \/ /\ bridge' = IF run.sock = bridge.sock
                           THEN Replied(bridge, run.request, result) ELSE bridge
              /\ desktop' = [[desktop EXCEPT !.running = @ \ {run}]
                               EXCEPT !.receipts[run.request.d] = result]
           \/ /\ bridge' = IF run.sock = bridge.sock
                           THEN Replied(bridge, run.request, "error") ELSE bridge
              /\ desktop' = [desktop EXCEPT !.running = @ \ {run}]
        /\ UNCHANGED <<companion, executed>>
  <2>1. \A kind : HandlerAnswers(kind) \subseteq Remembered /\ "executed" \in HandlerAnswers(kind)
    BY DEF HandlerAnswers, Remembered
  <2>2. QED
    BY <2>1 DEF HandlerReturns, macVars
<1>2. run \in Runs /\ run.request \in Requests /\ desktop.running \ {run} \subseteq Runs
  BY DesktopFields DEF Runs
<1>3. /\ bridge' \in Bridges
      /\ bridge'.sock = bridge.sock /\ bridge'.state = bridge.state
      /\ bridge'.toPlugin = bridge.toPlugin
      /\ bridge'.toServer \subseteq bridge.toServer \cup
            {Answer(run.request, result), Answer(run.request, "error")}
  <2>1. PICK answer \in {result, "error"} :
          bridge' = IF run.sock = bridge.sock
                    THEN Replied(bridge, run.request, answer) ELSE bridge
    BY <1>1
  <2>2. bridge \in Bridges /\ answer \in Outcomes \cup {"ok", "error"}
    BY BridgeFields DEF Outcomes
  <2>3. CASE bridge' = bridge
    BY <2>2, <2>3
  <2>4. CASE bridge' = Replied(bridge, run.request, answer)
    BY <1>2, <2>2, <2>4, RepliedTyped
  <2>5. QED
    BY <2>1, <2>3, <2>4
<1>4. /\ desktop' \in Desktops /\ desktop'.bound = desktop.bound
      /\ desktop'.running = desktop.running \ {run}
      /\ desktop'.receipts \in {desktop.receipts,
                                [desktop.receipts EXCEPT ![run.request.d] = result]}
  <2>1. CASE desktop' = [desktop EXCEPT !.running = @ \ {run}]
    BY <1>2, <2>1, DesktopFields DEF Desktops
  <2>2. CASE desktop' = [[desktop EXCEPT !.running = @ \ {run}]
                            EXCEPT !.receipts[run.request.d] = result]
    <3>1. [desktop.receipts EXCEPT ![run.request.d] = result]
             \in Memories
      BY DesktopFields DEF Memories
    <3>2. /\ desktop'.bound = desktop.bound /\ desktop'.running = desktop.running \ {run}
          /\ desktop'.receipts = [desktop.receipts EXCEPT ![run.request.d] = result]
      BY <2>2, DesktopFields DEF Desktops
    <3>3. desktop' \in Desktops
      BY <1>2, <2>2, <3>1, <3>2, DesktopFields DEF Desktops
    <3>4. QED
      BY <3>2, <3>3
  <2>3. QED
    BY <1>1, <2>1, <2>2
<1>5. QED
  BY <1>1, <1>3, <1>4

\* ServerNotices: the bridge server sees the socket gone.
LEMMA ServerNoticesDoes ==
    ASSUME PluginTyped, MacTyped, Phases, ServerNotices, UNCHANGED outbound
    PROVE  /\ bridge' \in Bridges /\ bridge'.sock = bridge.sock
           /\ bridge'.state = "down" /\ bridge.state = "dead"
           /\ bridge'.toPlugin = bridge.toPlugin
           /\ bridge'.toServer = bridge.toServer
           /\ MacTyped' /\ Fails /\ UNCHANGED <<desktop, executed>>
<1>1. /\ bridge.state = "dead" /\ bridge' = [bridge EXCEPT !.state = "down"]
      /\ companion' = FailPending(companion)
      /\ UNCHANGED <<desktop, executed>>
  BY DEF ServerNotices
<1>2. MacTyped' /\ Fails
  BY <1>1, FailPendingDoes
<1>3. QED
  BY <1>1, <1>2, BridgeFields DEF Bridges

\* PluginConnects: a new socket, with nothing on it.
LEMMA PluginConnectsDoes ==
    ASSUME PluginTyped, MacTyped, Phases, PluginConnects, UNCHANGED outbound
    PROVE  /\ bridge' \in Bridges /\ bridge'.sock = bridge.sock + 1
           /\ bridge'.toPlugin = <<>> /\ bridge'.toServer = bridge.toServer
           /\ MacTyped' /\ Fails /\ UNCHANGED <<desktop, executed>>
<1>1. /\ bridge.sock <= MaxFaults
      /\ bridge' = [bridge EXCEPT !.sock = @ + 1, !.state = "up", !.toPlugin = <<>>]
      /\ companion' = FailPending(companion)
      /\ UNCHANGED <<desktop, executed>>
  BY DEF PluginConnects
<1>2. MacTyped' /\ Fails
  BY <1>1, FailPendingDoes
<1>3. bridge.sock + 1 \in Socks /\ <<>> \in Seq(Requests)
  BY <1>1, BridgeFields, CommandRoutingAssumption DEF Socks
<1>4. QED
  BY <1>1, <1>2, <1>3, BridgeFields DEF Bridges

\* PluginLeaves: the socket goes, and in a reload the adapter's memory too.
LEMMA PluginLeavesDoes ==
    ASSUME PluginTyped, PluginLeaves
    PROVE  /\ bridge' \in Bridges /\ bridge'.sock = bridge.sock
           /\ bridge.state = "up" /\ bridge'.state = "dead"
           /\ bridge'.toPlugin = <<>> /\ bridge'.toServer = {}
           /\ desktop' \in Desktops
           /\ \/ UNCHANGED desktop
              \/ /\ desktop'.bound = 0 /\ desktop'.receipts = NoResults
                 /\ desktop'.running = {}
           /\ UNCHANGED <<companion, executed>>
<1>1. /\ bridge.state = "up"
      /\ bridge' = [bridge EXCEPT !.state = "dead", !.toPlugin = <<>>, !.toServer = {}]
      /\ \/ UNCHANGED desktop
         \/ desktop' = [bound |-> 0, receipts |-> NoResults, running |-> {}]
      /\ UNCHANGED <<companion, executed>>
  BY DEF PluginLeaves, macVars
<1>2. <<>> \in Seq(Requests) /\ 0 \in 0..MaxGen
  BY CommandRoutingAssumption
<1>3. desktop' \in Desktops
  BY <1>1, <1>2, DesktopFields DEF Desktops
<1>4. /\ bridge' \in Bridges /\ bridge'.sock = bridge.sock /\ bridge'.state = "dead"
      /\ bridge'.toPlugin = <<>> /\ bridge'.toServer = {}
  BY <1>1, <1>2, BridgeFields DEF Bridges
<1>5. CASE UNCHANGED desktop
  BY <1>1, <1>3, <1>4, <1>5
<1>6. CASE desktop' = [bound |-> 0, receipts |-> NoResults, running |-> {}]
  BY <1>1, <1>3, <1>4, <1>6
<1>7. QED
  BY <1>1, <1>5, <1>6

-----------------------------------------------------------------------------
(* The parts of the invariant, one by one.                                 *)

Inv == PhoneTyped /\ RelayTyped /\ MacTyped /\ PluginTyped /\ Counts /\ Phases /\ SentOnce

\* The connection that a task of the Companion belongs to.
LEMMA GenInGens ==
    ASSUME MacTyped, Phases, companion.phase # "idle" \/ companion.alive
    PROVE  companion.gen \in Gens
BY CompanionFields, CommandRoutingAssumption DEF Phases, Gens

\* The steps of the phone, summed up.
LEMMA PhoneStepsDo ==
    ASSUME PhoneTyped, RelayTyped, PluginTyped, PhoneSteps
    PROVE  \/ \E d \in Deliveries : Submit(d) \/ Resend(d)
           \/ Settles /\ Reads /\ \A d \in Deliveries : Accepts(d)
BY AnswerArrivesDoes, PhoneReadsDoes, OtherPhoneStepsDo DEF PhoneSteps, PhoneNext

\* The steps of the relay, summed up.
LEMMA RelayStepsDo ==
    ASSUME PhoneTyped, RelayTyped, RelaySteps
    PROVE  \/ RelaysUp
           \/ \E d \in Deliveries :
                 /\ Relays
                 /\ asked[d] > 0 /\ asked'[d] = asked[d] - 1
                 /\ \A e \in Deliveries \ {d} : asked'[e] = asked[e]
                 /\ \A g \in Gens : \/ link'[g].down = link[g].down
                                    \/ g = mac /\ link'[g].down = Append(link[g].down, d)
<1>1. ASSUME NEW d \in Deliveries, Route(d)
      PROVE  /\ Relays
             /\ asked[d] > 0 /\ asked'[d] = asked[d] - 1
             /\ \A e \in Deliveries \ {d} : asked'[e] = asked[e]
             /\ \A g \in Gens : \/ link'[g].down = link[g].down
                                \/ g = mac /\ link'[g].down = Append(link[g].down, d)
  BY <1>1, RouteDoes
<1>2. ASSUME NEW g \in Gens,
             MacHello(g) \/ MacAnnounces(g) \/ MacReceipt(g) \/ MacGone(g) \/ LinkFails(g)
      PROVE  RelaysUp
  BY <1>2, MacHelloDoes, MacAnnouncesDoes, MacReceiptDoes, MacGoneDoes, LinkFailsDoes
<1>3. QED
  BY <1>1, <1>2 DEF RelaySteps, RelayNext

\* The tasks of a connection, and what they need of the invariant.
LEMMA WorkerTyped ==
    ASSUME Phases
    PROVE  companion.worker.pc # "idle" => companion.worker.d \in Deliveries
BY DEF Phases

\* A task that runs belongs to a connection.
LEMMA TaskGens ==
    ASSUME MacTyped, Phases
    PROVE  /\ ReaderTakes \/ WorkerTakes \/ WorkerSends \/ WorkerReturns \/ WriterWrites
                => companion.gen \in Gens
           /\ RelayLost \/ TaskFails \/ Leave \/ InvalidateReturns \/ BindReturns
                => companion.gen \in Gens
<1>1. ReaderTakes \/ WorkerTakes \/ WorkerSends \/ WorkerReturns \/ WriterWrites
        => companion.alive
  BY DEF ReaderTakes, WorkerTakes, WorkerSends, WorkerReturns, WriterWrites
<1>2. RelayLost \/ TaskFails \/ Leave \/ InvalidateReturns \/ BindReturns
        => companion.phase # "idle"
  BY DEF RelayLost, TaskFails, Leave, InvalidateReturns, BindReturns, Active
<1>3. QED
  BY <1>1, <1>2, GenInGens

\* RelayLost and TaskFails end the live connection.
LEMMA EndsOf ==
    RelayLost \/ TaskFails =>
       companion.phase = "live" /\ \E tasksRun \in BOOLEAN : Ends(tasksRun)
BY DEF RelayLost, TaskFails, Active

\* Types, and what every step of the Companion does to the bridge socket.
LEMMA CompanionStepsDo ==
    ASSUME RelayTyped, MacTyped, PluginTyped, Phases, CompanionSteps
    PROVE  /\ RelayTyped' /\ MacTyped' /\ BridgeKept
           /\ \E request \in Requests : SendsOnly(request)
<1> DEFINE Goal == /\ RelayTyped' /\ MacTyped' /\ BridgeKept
                   /\ \E request \in Requests : SendsOnly(request)
<1>1. companion.gen \in Gens =>
        /\ [op |-> "bind", gen |-> companion.gen] \in Requests
        /\ [op |-> "invalidate", gen |-> companion.gen] \in Requests
        /\ \A d \in Deliveries : CommandRequest(d) \in Requests
  BY DEF Requests, CommandRequest, Current
<1>2. SendsNothing => \A request \in Requests : SendsOnly(request)
  BY DEF SendsOnly
<1>3. companion.gen \in Gens /\ SendsNothing => \E request \in Requests : SendsOnly(request)
  BY <1>1, <1>2
<1>4. UNCHANGED bridge => BridgeKept /\ SendsNothing
  BY BridgeSame
<1>5. UNCHANGED <<mac, link, sessions>> => RelayTyped'
  BY LinkKeeps
<1>6. CASE Connect
  <2>1. [op |-> "bind", gen |-> companion.gen + 1] \in Requests
    BY <1>6, ConnectDoes DEF Requests
  <2>2. MacTyped'
    BY <1>6, ConnectDoes DEF MacTyped, CompanionIs
  <2>3. QED
    BY <1>6, <2>1, <2>2, ConnectDoes
<1>7. CASE BindReturns
  <2>1. companion.gen \in Gens
    BY <1>7, TaskGens
  <2>2. companion'.queue = companion.queue
    BY <1>7, BindReturnsDoes DEF CompanionIs
  <2>3. MacTyped'
    BY <1>7, <2>2, BindReturnsDoes DEF MacTyped
  <2>4. QED
    BY <1>3, <1>7, <2>1, <2>3, BindReturnsDoes
<1>8. CASE ReaderTakes
  BY <1>3, <1>4, <1>8, TaskGens, ReaderTakesDoes
<1>9. CASE WorkerTakes
  BY <1>3, <1>4, <1>5, <1>9, TaskGens, WorkerTakesDoes
<1>10. CASE WorkerSends
  <2>1. companion.gen \in Gens
    BY <1>10, TaskGens
  <2>2. PICK d \in Deliveries : /\ MacTyped' /\ BridgeKept /\ UNCHANGED <<mac, link, sessions>>
                                /\ UNCHANGED bridge \/ SendsOnly(CommandRequest(d))
    BY <1>10, <2>1, WorkerSendsDoes, WorkerTyped
  <2>3. QED
    BY <1>1, <1>3, <1>4, <1>5, <2>1, <2>2
<1>11. CASE WorkerReturns
  BY <1>3, <1>5, <1>11, TaskGens, WorkerReturnsDoes, WorkerTyped
<1>12. CASE WriterWrites
  BY <1>3, <1>4, <1>12, TaskGens, WriterWritesDoes
<1>13. CASE RelayLost \/ TaskFails
  <2>1. companion.gen \in Gens
    BY <1>13, TaskGens
  <2>2. PICK tasksRun \in BOOLEAN : Ends(tasksRun)
    BY <1>13, EndsOf
  <2>3. QED
    BY <1>1, <1>5, <2>1, <2>2, EndsDoes
<1>14. CASE InvalidateReturns
  BY <1>3, <1>5, <1>14, TaskGens, InvalidateReturnsDoes
<1>15. CASE Leave
  BY <1>3, <1>4, <1>15, TaskGens, LeaveDoes DEF LinkLeft
<1>16. CASE RequestTimesOut
  <2>1. MacTyped' /\ UNCHANGED <<mac, link, sessions, bridge>>
    BY <1>16, RequestTimesOutDoes
  <2>2. companion.phase # "idle"
    BY <1>16, RequestTimesOutDoes DEF Phases
  <2>3. companion.gen \in Gens
    BY <2>2, GenInGens
  <2>4. QED
    BY <1>3, <1>4, <1>5, <2>1, <2>3
<1>17. CASE Restart
  BY <1>3, <1>17, RestartDoes DEF LinkLeft
<1>18. QED
  BY <1>6, <1>7, <1>8, <1>9, <1>10, <1>11, <1>12, <1>13, <1>14, <1>15, <1>16, <1>17
     DEF CompanionSteps, CompanionNext

\* The socket of a step of the plugin.
LEMMA PluginStepsDo ==
    ASSUME MacTyped, PluginTyped, Counts, Phases, SentOnce, PhoneTyped, PluginSteps
    PROVE  /\ MacTyped' /\ PluginTyped'
           /\ bridge'.sock = 0 => bridge'.state = "down" /\ bridge'.toPlugin = <<>>
           /\ Fails \/ UNCHANGED companion
<1> DEFINE Goal == /\ MacTyped' /\ PluginTyped'
                   /\ bridge'.sock = 0 => bridge'.state = "down" /\ bridge'.toPlugin = <<>>
                   /\ Fails \/ UNCHANGED companion
<1>1. UNCHANGED outbound
  BY PluginFrame
<1>2. UNCHANGED companion => MacTyped'
  BY <1>1 DEF MacTyped
<1>3. ASSUME NEW results, Takes(results)
      PROVE  /\ bridge' \in Bridges
             /\ bridge'.sock = 0 => bridge'.state = "down" /\ bridge'.toPlugin = <<>>
  BY <1>3 DEF Takes, Counts
<1>4. ASSUME UNCHANGED executed, bridge' \in Bridges, desktop' \in Desktops
      PROVE  PluginTyped'
  BY <1>4 DEF PluginTyped
<1>5. UNCHANGED desktop => desktop' \in Desktops
  BY DesktopFields
<1>6. CASE PluginBinds
  BY <1>2, <1>3, <1>4, <1>6, PluginBindsDoes
<1>7. CASE PluginInvalidates
  BY <1>2, <1>3, <1>4, <1>7, PluginInvalidatesDoes
<1>8. CASE HandlerReturns
  <2>1. /\ bridge' \in Bridges /\ desktop' \in Desktops /\ UNCHANGED <<companion, executed>>
        /\ bridge'.sock = bridge.sock /\ bridge'.state = bridge.state
        /\ bridge'.toPlugin = bridge.toPlugin
    BY <1>8, HandlerReturnsDoes
  <2>2. QED
    BY <1>2, <1>4, <2>1 DEF Counts
<1>9. CASE ServerNotices
  BY <1>1, <1>4, <1>5, <1>9, ServerNoticesDoes DEF Counts
<1>10. CASE PluginConnects
  <2>1. bridge.sock \in Nat
    BY BridgeFields, CommandRoutingAssumption DEF Socks
  <2>2. bridge'.sock # 0
    BY <1>1, <1>10, <2>1, PluginConnectsDoes
  <2>3. QED
    BY <1>1, <1>4, <1>5, <1>10, <2>2, PluginConnectsDoes
<1>11. CASE PluginLeaves
  BY <1>2, <1>4, <1>11, PluginLeavesDoes DEF Counts
<1>12. CASE PluginExecutes
  <2>1. PICK d \in Deliveries :
           /\ bridge.toPlugin # <<>> /\ IsCommand(NextRequest, d)
           /\ desktop' \in Desktops /\ UNCHANGED companion
           /\ \E results : Takes(results)
           /\ UNCHANGED executed \/ executed' = [executed EXCEPT ![d] = @ + 1]
    BY <1>12, PluginExecutesDoes
  <2>2. /\ bridge' \in Bridges
        /\ bridge'.sock = 0 => bridge'.state = "down" /\ bridge'.toPlugin = <<>>
    BY <1>3, <2>1
  <2>3. executed[d] = 0 /\ NextRequest.gen = command[d].gen /\ NextRequest.gen \in Gens
    BY <2>1, NextRequestTyped DEF SentOnce
  <2>4. command[d].sends > 0 /\ command[d].sends \in 0..MaxSends
    BY <2>3 DEF Counts, PhoneTyped, Commands, Gens
  <2>5. executed[d] + 1 \in 0..MaxSends
    BY <2>3, <2>4, CommandRoutingAssumption
  <2>6. executed' \in [Deliveries -> 0..MaxSends]
    BY <2>1, <2>5, BridgeFields
  <2>7. PluginTyped'
    BY <2>1, <2>2, <2>6 DEF PluginTyped
  <2>8. QED
    BY <1>2, <2>1, <2>2, <2>7
<1>13. QED
  BY <1>6, <1>7, <1>8, <1>9, <1>10, <1>11, <1>12 DEF PluginSteps, PluginNext

\* Every step keeps the types.
LEMMA TypesStep ==
    ASSUME Inv, Next
    PROVE  PhoneTyped' /\ RelayTyped' /\ MacTyped' /\ PluginTyped'
<1>1. CASE PhoneSteps
  <2>1. PhoneTyped'
    BY <1>1, PhoneStepsDo, SubmitDoes, ResendDoes DEF Inv, Settles
  <2>2. RelayTyped' /\ MacTyped' /\ PluginTyped'
    BY <1>1, PhoneFrame DEF Inv, RelayTyped, MacTyped, PluginTyped
  <2>3. QED
    BY <2>1, <2>2
<1>2. CASE RelaySteps
  <2>1. PhoneTyped' /\ RelayTyped'
    BY <1>2, RelayStepsDo DEF Inv, Relays, RelaysUp
  <2>2. MacTyped' /\ PluginTyped'
    BY <1>2, RelayFrame DEF Inv, MacTyped, PluginTyped
  <2>3. QED
    BY <2>1, <2>2
<1>3. CASE CompanionSteps
  <2>1. RelayTyped' /\ MacTyped' /\ BridgeKept
    BY <1>3, CompanionStepsDo DEF Inv
  <2>2. PhoneTyped'
    BY <1>3, CompanionFrame DEF Inv, PhoneTyped
  <2>3. PluginTyped'
    BY <1>3, <2>1, CompanionFrame DEF Inv, PluginTyped, BridgeKept
  <2>4. QED
    BY <2>1, <2>2, <2>3
<1>4. CASE PluginSteps
  <2>1. MacTyped' /\ PluginTyped'
    BY <1>4, PluginStepsDo DEF Inv
  <2>2. PhoneTyped' /\ RelayTyped'
    BY <1>4, PluginFrame DEF Inv, PhoneTyped, RelayTyped
  <2>3. QED
    BY <2>1, <2>2
<1>5. QED
  BY <1>1, <1>2, <1>3, <1>4, NextParts

\* TypeParts, after a step.
LEMMA TypePartsAfter ==
    TypeOK' <=> /\ PhoneTyped' /\ RelayTyped' /\ MacTyped' /\ PluginTyped'
                /\ faults' \in 0..MaxFaults
<1>1. (TypeOK <=> /\ PhoneTyped /\ RelayTyped /\ MacTyped /\ PluginTyped
                  /\ faults \in 0..MaxFaults)'
  BY DEF TypeOK, PhoneTyped, RelayTyped, MacTyped, PluginTyped, Commands, Phones, Answers,
         Links, Companions, Workers, Results, Bridges, Socks, Desktops, Memories,
       Runs
<1>2. QED
  BY <1>1

\* And with the counter of faults, TypeOK.
LEMMA TypeStep ==
    ASSUME Inv, faults \in 0..MaxFaults, Next
    PROVE  TypeOK'
<1>1. faults' \in 0..MaxFaults
  <2>1. faults' = faults \/ (faults < MaxFaults /\ faults' = faults + 1)
    <3>1. PhoneNext => faults' = faults
      BY DEF PhoneNext, Submit, Resend, KeyframeShows, AnswerArrives, PhoneReads,
             PhoneConnects
    <3>2. RelayNext => faults' = faults
      BY DEF RelayNext, Route, MacHello, MacAnnounces, MacReceipt, MacGone
    <3>3. Connect \/ BindReturns \/ ReaderTakes \/ WorkerTakes \/ WorkerSends
            \/ WorkerReturns => faults' = faults
      BY DEF Connect, BindReturns, ReaderTakes, WorkerTakes, WorkerSends, WorkerReturns
    <3>4. WriterWrites \/ RelayLost \/ TaskFails \/ InvalidateReturns \/ Leave
            => faults' = faults
      BY DEF WriterWrites, RelayLost, TaskFails, InvalidateReturns, Leave, Ends
    <3>5. ServerNotices \/ PluginConnects \/ PluginInvalidates => faults' = faults
      BY DEF ServerNotices, PluginConnects, PluginInvalidates
    <3>6. PluginBinds \/ PluginExecutes \/ HandlerReturns
            => faults' = faults \/ (faults < MaxFaults /\ faults' = faults + 1)
      BY DEF PluginBinds, PluginExecutes, HandlerReturns, Fault
    <3>7. Trouble => faults < MaxFaults /\ faults' = faults + 1
      BY DEF Trouble, Refuse, HttpFails, LinkFails, PhoneDisconnects, RequestTimesOut,
             Restart, PluginLeaves, Fault
    <3>8. QED
      BY <3>1, <3>2, <3>3, <3>4, <3>5, <3>6, <3>7 DEF Next, CompanionNext, PluginNext
  <2>2. QED
    BY <2>1, CommandRoutingAssumption
<1>2. PhoneTyped' /\ RelayTyped' /\ MacTyped' /\ PluginTyped'
  BY TypesStep
<1>3. QED
  BY <1>1, <1>2, TypePartsAfter

\* Every step keeps the counts.
LEMMA CountsStep ==
    ASSUME Inv, Next
    PROVE  Counts'
<1> DEFINE OfPhone == \A d \in Deliveries :
                         /\ asked[d] <= command[d].sends
                         /\ command[d].status = "none" => command[d].gen = 0
                         /\ command[d].status # "none" => command[d].sends > 0
           OfBridge == bridge.sock = 0 => bridge.state = "down" /\ bridge.toPlugin = <<>>
<1>1. OfPhone /\ OfBridge
  BY DEF Inv, Counts
<1>2. \A d \in Deliveries : asked[d] \in Nat /\ command[d].sends \in Nat
  BY CommandRoutingAssumption DEF Inv, PhoneTyped, Commands
<1>3. CASE PhoneSteps
  <2>1. OfBridge'
    BY <1>1, <1>3, PhoneFrame
  <2>4. CASE Settles
    <3>1. \A d \in Deliveries : asked'[d] \in Nat
      BY <2>4, CommandRoutingAssumption DEF Settles, PhoneTyped
    <3>2. OfPhone'
      BY <1>1, <1>2, <2>4, <3>1 DEF Settles
    <3>3. QED
      BY <2>1, <3>2 DEF Counts
  <2>5. OfPhone' /\ OfBridge' => Counts'
    BY DEF Counts
  <2>6. CASE \E d \in Deliveries : Submit(d) \/ Resend(d)
    <3>1. PICK d \in Deliveries : Submit(d) \/ Resend(d)
      BY <2>6
    <3>2. ASSUME NEW e \in Deliveries
          PROVE  /\ asked'[e] <= command'[e].sends
                 /\ command'[e].status = "none" => command'[e].gen = 0
                 /\ command'[e].status # "none" => command'[e].sends > 0
      <4>1. CASE e # d
        BY <1>1, <3>1, <4>1, SubmitDoes, ResendDoes DEF Inv
      <4>2. CASE e = d
        BY <1>1, <1>2, <3>1, <4>2, SubmitDoes, ResendDoes DEF Inv
      <4>3. QED
        BY <4>1, <4>2
    <3>3. QED
      BY <2>1, <2>5, <3>2
  <2>7. QED
    BY <1>3, <2>4, <2>6, PhoneStepsDo DEF Inv
<1>4. CASE RelaySteps
  <2>1. UNCHANGED <<command, bridge>>
    BY <1>4, RelayFrame
  <2>2. \A d \in Deliveries : asked'[d] <= asked[d] /\ asked'[d] \in Nat
    <3>1. PhoneTyped'
      BY <1>4, RelayStepsDo DEF Inv, Relays, RelaysUp
    <3>2. \A d \in Deliveries : asked'[d] = asked[d] \/ asked'[d] = asked[d] - 1
      BY <1>4, RelayStepsDo DEF Inv, RelaysUp
    <3>3. QED
      BY <1>2, <3>1, <3>2, CommandRoutingAssumption DEF PhoneTyped
  <2>3. QED
    BY <1>1, <1>2, <2>1, <2>2 DEF Counts
<1>5. CASE CompanionSteps
  <2>1. OfPhone'
    BY <1>1, <1>5, CompanionFrame
  <2>2. OfBridge'
    BY <1>1, <1>5, CompanionStepsDo DEF Inv, BridgeKept, SendsOnly, SendsNothing
  <2>3. QED
    BY <2>1, <2>2 DEF Counts
<1>6. CASE PluginSteps
  BY <1>1, <1>6, PluginFrame, PluginStepsDo DEF Inv, Counts
<1>7. QED
  BY <1>3, <1>4, <1>5, <1>6, NextParts

\* A step that leaves the Companion alone keeps its phases.
LEMMA SameWorkerPhases ==
    ASSUME Phases, UNCHANGED companion,
           \A d \in Deliveries : command[d].gen # 0 => command'[d].gen = command[d].gen,
           companion.worker.pc # "idle" => companion.gen # 0
    PROVE  Phases'
BY DEF Phases

\* Every step keeps the Companion's phases.
LEMMA PhasesStep ==
    ASSUME Inv, Next
    PROVE  Phases'
<1>1. companion.worker.pc # "idle" => companion.gen # 0
  BY DEF Inv, Phases
<1>2. Phases /\ RelayTyped /\ MacTyped /\ PluginTyped /\ PhoneTyped
  BY DEF Inv
<1>3. CASE PhoneSteps
  <2>1. UNCHANGED companion
    BY <1>3, PhoneFrame
  <2>2. CASE Settles
    BY <1>1, <1>2, <2>1, <2>2, SameWorkerPhases DEF Settles
  <2>3. ASSUME NEW d \in Deliveries, Submit(d) \/ Resend(d)
        PROVE  Phases'
    <3>1. \A e \in Deliveries : command[e].gen # 0 => command'[e].gen = command[e].gen
      BY <1>2, <2>3, SubmitDoes, ResendDoes DEF Inv, Counts
    <3>2. QED
      BY <1>1, <1>2, <2>1, <3>1, SameWorkerPhases
  <2>4. QED
    BY <1>2, <1>3, <2>2, <2>3, PhoneStepsDo
<1>4. CASE RelaySteps
  BY <1>1, <1>2, <1>4, RelayFrame, SameWorkerPhases
<1>5. CASE CompanionSteps
  <2>1. UNCHANGED command
    BY <1>5, CompanionFrame
  <2>2. companion.gen \in 0..MaxGen /\ companion.gen + 1 # 0
    BY <1>2, CompanionFields
  <2>3. CASE Connect
    BY <1>2, <2>1, <2>2, <2>3, ConnectDoes DEF Phases, CompanionIs
  <2>4. CASE BindReturns
    BY <1>2, <2>1, <2>4, BindReturnsDoes DEF Phases, CompanionIs
  <2>5. CASE ReaderTakes
    <3>1. companion.gen \in Gens
      BY <1>2, <2>5, TaskGens
    <3>2. /\ companion'.gen = companion.gen /\ companion'.phase = companion.phase
          /\ companion'.alive = companion.alive /\ companion'.worker = companion.worker
          /\ companion'.results = companion.results
      BY <1>2, <2>5, <3>1, ReaderTakesDoes DEF CompanionIs
    <3>3. QED
      BY <1>2, <2>1, <3>2 DEF Phases
  <2>6. CASE WorkerTakes
    <3>1. companion.gen \in Gens
      BY <1>2, <2>6, TaskGens
    <3>2. PICK d \in Deliveries :
            /\ companion'.gen = companion.gen /\ companion'.phase = companion.phase
            /\ companion'.alive = companion.alive /\ companion'.results = companion.results
            /\ \/ companion'.worker = companion.worker
               \/ /\ companion.results[d] = "none"
                  /\ command[d].gen = companion.gen /\ companion.phase = "live"
                  /\ companion'.worker = [pc |-> "yielded", d |-> d]
      BY <1>2, <2>6, <3>1, WorkerTakesDoes DEF CompanionIs
    <3>3. QED
      BY <1>2, <2>1, <3>2 DEF Phases
  <2>7. CASE WorkerSends
    <3>1. companion.gen \in Gens
      BY <1>2, <2>7, TaskGens
    <3>2. PICK d \in Deliveries :
            /\ companion.worker.pc = "yielded" /\ companion.worker.d = d
            /\ companion'.gen = companion.gen /\ companion'.phase = companion.phase
            /\ companion'.alive = companion.alive /\ companion'.results = companion.results
            /\ \/ companion'.worker = NoWork
               \/ companion'.worker = [pc |-> "failed", d |-> d]
               \/ companion'.worker = [pc |-> "waiting", d |-> d]
      BY <1>2, <2>7, <3>1, WorkerSendsDoes, WorkerTyped DEF CompanionIs
    <3>3. QED
      BY <1>2, <2>1, <3>2 DEF Phases, NoWork
  <2>8. CASE WorkerReturns
    <3>1. companion.gen \in Gens
      BY <1>2, <2>8, TaskGens
    <3>2. PICK d \in Deliveries :
            /\ companion.worker.pc = "waiting" /\ companion.worker.d = d
            /\ companion'.gen = companion.gen /\ companion'.phase = companion.phase
            /\ companion'.alive = companion.alive
            /\ \/ companion'.worker = NoWork
               \/ companion'.worker = [pc |-> "failed", d |-> d]
      BY <1>2, <2>8, <3>1, WorkerReturnsDoes, WorkerTyped DEF CompanionIs
    <3>3. QED
      BY <1>2, <2>1, <3>2 DEF Phases, NoWork
  <2>9. CASE WriterWrites
    BY <1>1, <1>2, <2>1, <2>9, TaskGens, WriterWritesDoes, SameWorkerPhases
  <2>10. CASE RelayLost \/ TaskFails
    <3>1. companion.gen \in Gens
      BY <1>2, <2>10, TaskGens
    <3>2. PICK tasksRun \in BOOLEAN : Ends(tasksRun)
      BY <2>10, EndsOf
    <3>3. /\ companion'.gen = companion.gen /\ companion'.worker = companion.worker
          /\ companion'.phase \in {"closing", "leaving"}
          /\ companion'.alive => companion'.phase = "closing"
          /\ companion'.results = NoResults
      BY <1>2, <3>1, <3>2, EndsDoes DEF CompanionIs
    <3>4. companion.gen # 0
      BY <3>1 DEF Gens
    <3>5. companion'.worker.pc = "yielded" => companion'.results[companion'.worker.d] = "none"
      BY <1>2, <3>3 DEF Phases, NoResults
    <3>6. QED
      BY <1>2, <2>1, <3>3, <3>4, <3>5 DEF Phases
  <2>11. CASE InvalidateReturns
    BY <1>2, <2>1, <2>11, InvalidateReturnsDoes DEF Phases, CompanionIs
  <2>12. CASE Leave
    <3>1. /\ companion'.phase = "idle" /\ companion'.worker = NoWork
          /\ companion'.alive = companion.alive /\ companion.phase = "leaving"
      BY <1>2, <2>12, TaskGens, LeaveDoes DEF CompanionIs
    <3>2. QED
      BY <1>2, <3>1 DEF Phases, NoWork
  <2>13. CASE RequestTimesOut
    <3>1. \/ /\ companion.phase \in {"binding", "closing"}
             /\ CompanionIs(companion.gen, "leaving", FALSE, companion.queue,
                            companion.worker, companion.results)
          \/ /\ companion.worker.pc = "waiting"
             /\ CompanionIs(companion.gen, companion.phase, companion.alive,
                            companion.queue,
                            [pc |-> "failed", d |-> companion.worker.d],
                            companion.results)
      BY <1>2, <2>13, RequestTimesOutDoes
    <3>2. QED
      BY <1>2, <2>1, <3>1 DEF Phases, CompanionIs
  <2>14. CASE Restart
    <3>1. companion'.phase = "idle" /\ companion'.worker = NoWork /\ companion'.alive = FALSE
      BY <1>2, <2>14, RestartDoes DEF CompanionIs
    <3>2. QED
      BY <3>1 DEF Phases, NoWork
  <2>15. QED
    BY <1>5, <2>3, <2>4, <2>5, <2>6, <2>7, <2>8, <2>9, <2>10, <2>11, <2>12, <2>13, <2>14
       DEF CompanionSteps, CompanionNext
<1>6. CASE PluginSteps
  <2>1. UNCHANGED command
    BY <1>6, PluginFrame
  <2>2. CASE UNCHANGED companion
    BY <1>1, <1>2, <2>1, <2>2, SameWorkerPhases
  <2>3. CASE Fails
    BY <1>2, <2>1, <2>3 DEF Phases, Fails
  <2>4. QED
    BY <1>6, <2>2, <2>3, PluginStepsDo DEF Inv
<1>7. QED
  BY <1>3, <1>4, <1>5, <1>6, NextParts

-----------------------------------------------------------------------------
(* A delivery is sent to the plugin once.                                  *)

\* Spent is for good: from the step on, and so for as long as the delivery has its
\* generation.
LEMMA SpentStays ==
    ASSUME Inv, Next, NEW d \in Deliveries, command[d].gen # 0, Spent(d)
    PROVE  command'[d].gen = command[d].gen /\ Spent(d)'
<1>1. Phases /\ RelayTyped /\ MacTyped /\ PluginTyped /\ PhoneTyped /\ Counts
  BY DEF Inv
<1>2. command[d].gen \in Nat /\ companion.gen \in Nat
  BY <1>1, CompanionFields, CommandRoutingAssumption DEF PhoneTyped, Commands
<1>3. CASE PhoneSteps
  <2>1. UNCHANGED companion
    BY <1>3, PhoneFrame
  <2>2. command'[d].gen = command[d].gen
    BY <1>1, <1>3, PhoneStepsDo, SubmitDoes, ResendDoes DEF Settles, Counts
  <2>3. QED
    BY <2>1, <2>2 DEF Spent
<1>4. CASE RelaySteps
  BY <1>4, RelayFrame DEF Spent
<1>5. CASE CompanionSteps
  <2>1. UNCHANGED command
    BY <1>5, CompanionFrame
  <2>2. CASE Connect
    <3>1. companion'.gen = companion.gen + 1
      BY <1>1, <2>2, ConnectDoes DEF CompanionIs
    <3>2. QED
      BY <1>2, <2>1, <3>1 DEF Spent
  <2>3. CASE BindReturns
    <3>1. companion.phase = "binding"
          /\ companion'.gen = companion.gen /\ companion'.worker = companion.worker
          /\ companion'.results = companion.results
      BY <1>1, <2>3, BindReturnsDoes DEF CompanionIs
    <3>2. QED
      BY <2>1, <3>1 DEF Spent
  <2>4. CASE ReaderTakes
    <3>1. companion.gen \in Gens
      BY <1>1, <2>4, TaskGens
    <3>2. /\ companion'.gen = companion.gen /\ companion'.phase = companion.phase
          /\ companion'.worker = companion.worker /\ companion'.results = companion.results
      BY <1>1, <2>4, <3>1, ReaderTakesDoes DEF CompanionIs
    <3>3. QED
      BY <2>1, <3>2 DEF Spent
  <2>5. CASE WorkerTakes
    <3>1. companion.gen \in Gens
      BY <1>1, <2>5, TaskGens
    <3>2. /\ companion'.gen = companion.gen /\ companion'.phase = companion.phase
          /\ companion.worker.pc = "idle" /\ companion'.results = companion.results
      BY <1>1, <2>5, <3>1, WorkerTakesDoes DEF CompanionIs
    <3>3. QED
      BY <2>1, <3>2 DEF Spent
  <2>6. CASE WorkerSends
    <3>1. companion.gen \in Gens
      BY <1>1, <2>6, TaskGens
    <3>2. /\ companion'.gen = companion.gen /\ companion'.phase = companion.phase
          /\ companion.worker.pc = "yielded" /\ companion'.results = companion.results
      BY <1>1, <2>6, <3>1, WorkerSendsDoes, WorkerTyped DEF CompanionIs
    <3>3. QED
      BY <2>1, <3>2 DEF Spent
  <2>7. CASE WorkerReturns
    <3>1. companion.gen \in Gens
      BY <1>1, <2>7, TaskGens
    <3>2. PICK e \in Deliveries :
            /\ companion.worker.d = e
            /\ companion'.gen = companion.gen /\ companion'.phase = companion.phase
            /\ \/ /\ companion'.worker = [pc |-> "failed", d |-> e]
                  /\ companion'.results = companion.results
               \/ \E result \in Outcomes :
                     companion'.results = [companion.results EXCEPT ![e] = result]
      BY <1>1, <2>7, <3>1, WorkerReturnsDoes, WorkerTyped DEF CompanionIs
    <3>3. companion.results \in Results
      BY <1>1, CompanionFields
    <3>4. CASE \E result \in Outcomes :
                  companion'.results = [companion.results EXCEPT ![e] = result]
      <4>1. companion'.results[e] # "none"
            /\ (d # e => companion'.results[d] = companion.results[d])
        BY <3>3, <3>4 DEF Results, Outcomes, Remembered
      <4>2. QED
        BY <2>1, <3>2, <4>1 DEF Spent
    <3>5. QED
      BY <2>1, <3>2, <3>4 DEF Spent
  <2>8. CASE WriterWrites
    BY <1>1, <2>1, <2>8, TaskGens, WriterWritesDoes DEF Spent
  <2>9. CASE RelayLost \/ TaskFails
    <3>1. companion.gen \in Gens
      BY <1>1, <2>9, TaskGens
    <3>2. PICK tasksRun \in BOOLEAN : Ends(tasksRun)
      BY <2>9, EndsOf
    <3>3. /\ companion'.gen = companion.gen /\ companion'.phase \in {"closing", "leaving"}
      BY <1>1, <3>1, <3>2, EndsDoes DEF CompanionIs
    <3>4. QED
      BY <2>1, <3>3 DEF Spent
  <2>10. CASE InvalidateReturns
    BY <1>1, <2>1, <2>10, InvalidateReturnsDoes DEF Spent, CompanionIs
  <2>11. CASE Leave \/ Restart
    <3>1. companion'.phase = "idle" /\ companion'.gen = companion.gen
      BY <1>1, <2>11, TaskGens, LeaveDoes, RestartDoes DEF CompanionIs
    <3>2. QED
      BY <2>1, <3>1 DEF Spent
  <2>12. CASE RequestTimesOut
    <3>1. \/ CompanionIs(companion.gen, "leaving", FALSE, companion.queue,
                         companion.worker, companion.results)
          \/ /\ companion.worker.pc = "waiting"
             /\ CompanionIs(companion.gen, companion.phase, companion.alive,
                            companion.queue,
                            [pc |-> "failed", d |-> companion.worker.d],
                            companion.results)
      BY <1>1, <2>12, RequestTimesOutDoes
    <3>2. QED
      BY <2>1, <3>1 DEF Spent, CompanionIs
  <2>13. QED
    BY <1>5, <2>2, <2>3, <2>4, <2>5, <2>6, <2>7, <2>8, <2>9, <2>10, <2>11, <2>12
       DEF CompanionSteps, CompanionNext
<1>6. CASE PluginSteps
  <2>1. UNCHANGED command
    BY <1>6, PluginFrame
  <2>2. Fails \/ UNCHANGED companion
    BY <1>6, PluginStepsDo DEF Inv
  <2>3. QED
    BY <2>1, <2>2 DEF Spent, Fails
<1>7. QED
  BY <1>3, <1>4, <1>5, <1>6, NextParts

\* The plugin takes its requests in their order, and a socket that goes takes them all.
QueueShrinks ==
    /\ DOMAIN bridge'.toPlugin \subseteq Nat
    /\ \E k \in {0, 1} : \A i \in DOMAIN bridge'.toPlugin :
          i + k \in DOMAIN bridge.toPlugin /\ bridge'.toPlugin[i] = bridge.toPlugin[i + k]

\* The requests on the socket.
LEMMA ToPluginTyped ==
    ASSUME PluginTyped
    PROVE  /\ bridge.toPlugin \in Seq(Requests)
           /\ DOMAIN bridge.toPlugin \subseteq Nat
           /\ \A i \in DOMAIN bridge.toPlugin : bridge.toPlugin[i] \in Requests
                                                /\ bridge.toPlugin[i].gen \in Gens
<1>1. bridge.toPlugin \in Seq(Requests)
  BY BridgeFields
<1>2. \A i \in DOMAIN bridge.toPlugin : bridge.toPlugin[i] \in Requests
  BY <1>1
<1>3. \A request \in Requests : request.gen \in Gens
  BY DEF Requests
<1>4. QED
  BY <1>1, <1>2, <1>3

\* A queue that stays, loses its head or is emptied shrinks.
LEMMA QueueKept ==
    ASSUME PluginTyped, bridge'.toPlugin \in {bridge.toPlugin, Tail(bridge.toPlugin), <<>>},
           bridge'.toPlugin = Tail(bridge.toPlugin) => bridge.toPlugin # <<>>
    PROVE  QueueShrinks
<1>1. CASE bridge'.toPlugin = bridge.toPlugin
  <2>1. \A i \in DOMAIN bridge.toPlugin : i + 0 = i
    BY ToPluginTyped
  <2>2. QED
    BY <1>1, <2>1, ToPluginTyped DEF QueueShrinks
<1>2. CASE bridge'.toPlugin = Tail(bridge.toPlugin) /\ bridge.toPlugin # <<>>
  <2>3. Tail(bridge.toPlugin) \in Seq(Requests)
    BY <1>2, ToPluginTyped
  <2>4. DOMAIN Tail(bridge.toPlugin) \subseteq Nat
    BY <2>3
  <2>1. \A i \in DOMAIN Tail(bridge.toPlugin) :
            i + 1 \in DOMAIN bridge.toPlugin
            /\ Tail(bridge.toPlugin)[i] = bridge.toPlugin[i + 1]
    BY <1>2, ToPluginTyped, TailWithin
  <2>2. QED
    BY <1>2, <2>1, <2>4 DEF QueueShrinks
<1>3. CASE bridge'.toPlugin = <<>>
  BY <1>3 DEF QueueShrinks
<1>4. QED
  BY <1>1, <1>2, <1>3

\* Every step of the plugin shrinks its queue.
LEMMA PluginQueue ==
    ASSUME Inv, PluginSteps
    PROVE  QueueShrinks
<1>1. PluginTyped /\ MacTyped /\ Phases /\ Counts /\ UNCHANGED outbound
  BY PluginFrame DEF Inv
<1>2. ASSUME NEW results, Takes(results)
      PROVE  QueueShrinks
  BY <1>1, <1>2, QueueKept DEF Takes
<1>3. CASE PluginBinds \/ PluginInvalidates \/ PluginExecutes
  BY <1>1, <1>2, <1>3, PluginBindsDoes, PluginInvalidatesDoes, PluginExecutesDoes
<1>4. bridge'.toPlugin = bridge.toPlugin \/ bridge'.toPlugin = <<>> => QueueShrinks
  <2>1. CASE bridge'.toPlugin = bridge.toPlugin
    <3>1. \A i \in DOMAIN bridge.toPlugin : i + 0 = i
      BY <1>1, ToPluginTyped
    <3>2. QED
      BY <1>1, <2>1, <3>1, ToPluginTyped DEF QueueShrinks
  <2>2. CASE bridge'.toPlugin = <<>>
    BY <2>2 DEF QueueShrinks
  <2>3. QED
    BY <2>1, <2>2
<1>5. CASE HandlerReturns
  BY <1>1, <1>4, <1>5, HandlerReturnsDoes
<1>6. CASE ServerNotices \/ PluginConnects \/ PluginLeaves
  BY <1>1, <1>4, <1>6, ServerNoticesDoes, PluginConnectsDoes, PluginLeavesDoes
<1>7. QED
  BY <1>3, <1>5, <1>6 DEF PluginSteps, PluginNext

\* What a step of the Companion writes to the plugin.
Writes(request) ==
    bridge.state = "up" /\ bridge'.toPlugin = Append(bridge.toPlugin, request)

\* The Companion writes a binding, an invalidation, or the command its worker holds.
LEMMA CompanionWrites ==
    ASSUME Inv, CompanionSteps
    PROVE  \/ SendsNothing
           \/ /\ Connect /\ Writes([op |-> "bind", gen |-> companion.gen + 1])
              /\ companion.gen + 1 \in Gens /\ companion'.gen = companion.gen + 1
           \/ /\ Writes([op |-> "invalidate", gen |-> companion.gen])
              /\ companion.gen \in Gens /\ companion'.gen = companion.gen
           \/ \E d \in Deliveries :
                 /\ WorkerSends
                 /\ companion.worker.pc = "yielded" /\ companion.worker.d = d
                 /\ companion.phase = "live"
                 /\ Writes(CommandRequest(d)) /\ outbound' = outbound
                 /\ UNCHANGED <<mac, link, sessions>>
                 /\ CompanionIs(companion.gen, companion.phase, companion.alive,
                                companion.queue, [pc |-> "waiting", d |-> d],
                                companion.results)
<1>1. Phases /\ RelayTyped /\ MacTyped /\ PluginTyped
  BY DEF Inv
<1>2. UNCHANGED bridge => SendsNothing
  BY DEF SendsNothing
<1>3. \A request : SendsOnly(request) => SendsNothing \/ Writes(request)
  BY DEF SendsOnly, Writes
<1>4. CASE Connect
  BY <1>1, <1>3, <1>4, ConnectDoes DEF CompanionIs
<1>5. CASE BindReturns
  BY <1>1, <1>5, BindReturnsDoes
<1>6. CASE ReaderTakes \/ WorkerTakes \/ WriterWrites
  BY <1>1, <1>2, <1>6, TaskGens, ReaderTakesDoes, WorkerTakesDoes, WriterWritesDoes
<1>7. CASE WorkerSends
  <2>1. companion.gen \in Gens
    BY <1>1, <1>7, TaskGens
  <2>2. QED
    BY <1>1, <1>2, <1>3, <1>7, <2>1, WorkerSendsDoes, WorkerTyped
<1>8. CASE WorkerReturns
  BY <1>1, <1>8, TaskGens, WorkerReturnsDoes, WorkerTyped
<1>9. CASE RelayLost \/ TaskFails
  <2>1. companion.gen \in Gens
    BY <1>1, <1>9, TaskGens
  <2>2. PICK tasksRun \in BOOLEAN : Ends(tasksRun)
    BY <1>9, EndsOf
  <2>3. QED
    BY <1>1, <1>3, <2>1, <2>2, EndsDoes DEF CompanionIs
<1>10. CASE InvalidateReturns \/ Restart
  BY <1>1, <1>10, InvalidateReturnsDoes, RestartDoes
<1>11. CASE Leave \/ RequestTimesOut
  BY <1>1, <1>2, <1>11, TaskGens, LeaveDoes, RequestTimesOutDoes
<1>12. QED
  BY <1>4, <1>5, <1>6, <1>7, <1>8, <1>9, <1>10, <1>11 DEF CompanionSteps, CompanionNext

\* Nothing new for the plugin, and nothing new done.
LEMMA SentOnceShrinks ==
    ASSUME Inv, QueueShrinks, UNCHANGED executed,
           \A d \in Deliveries : command[d].gen # 0 /\ Spent(d) =>
                                    command'[d].gen = command[d].gen /\ Spent(d)'
    PROVE  SentOnce'
<1>1. SentOnce /\ PluginTyped
  BY DEF Inv
<1>2. \A d \in Deliveries : executed'[d] > 0 =>
          executed'[d] = 1 /\ command'[d].gen # 0 /\ Spent(d)'
  BY <1>1 DEF SentOnce
<1>3. PICK k \in {0, 1} : \A i \in DOMAIN bridge'.toPlugin :
          i + k \in DOMAIN bridge.toPlugin /\ bridge'.toPlugin[i] = bridge.toPlugin[i + k]
  BY DEF QueueShrinks
<1>4. ASSUME NEW i \in DOMAIN bridge'.toPlugin, NEW d \in Deliveries,
             IsCommand(bridge'.toPlugin[i], d)
      PROVE  /\ bridge'.toPlugin[i].gen = command'[d].gen
             /\ executed'[d] = 0 /\ Spent(d)'
             /\ \A j \in DOMAIN bridge'.toPlugin : IsCommand(bridge'.toPlugin[j], d) => i = j
  <2>1. i + k \in DOMAIN bridge.toPlugin /\ bridge'.toPlugin[i] = bridge.toPlugin[i + k]
    BY <1>3
  <2>2. /\ bridge.toPlugin[i + k].gen = command[d].gen
        /\ executed[d] = 0 /\ Spent(d) /\ command[d].gen # 0
    BY <1>1, <1>4, <2>1, ToPluginTyped DEF SentOnce, Gens
  <2>3. ASSUME NEW j \in DOMAIN bridge'.toPlugin, IsCommand(bridge'.toPlugin[j], d)
        PROVE  i = j
    <3>1. j + k \in DOMAIN bridge.toPlugin /\ bridge'.toPlugin[j] = bridge.toPlugin[j + k]
      BY <1>3
    <3>2. i + k = j + k
      BY <1>1, <1>4, <2>1, <2>3, <3>1 DEF SentOnce
    <3>3. i \in Int /\ j \in Int
      BY DEF QueueShrinks
    <3>4. QED
      BY <3>2, <3>3
  <2>4. QED
    BY <2>1, <2>2, <2>3
<1>5. QED
  BY <1>2, <1>4 DEF SentOnce

\* One request more, that is not a command.
LEMMA SentOnceGrows ==
    ASSUME Inv, UNCHANGED executed, NEW request \in Requests, request.op # "command",
           bridge'.toPlugin = Append(bridge.toPlugin, request),
           \A d \in Deliveries : command[d].gen # 0 /\ Spent(d) =>
                                    command'[d].gen = command[d].gen /\ Spent(d)'
    PROVE  SentOnce'
<1>1. SentOnce /\ PluginTyped
  BY DEF Inv
<1>2. \A d \in Deliveries : executed'[d] > 0 =>
          executed'[d] = 1 /\ command'[d].gen # 0 /\ Spent(d)'
  BY <1>1 DEF SentOnce
<1>3. ASSUME NEW i \in DOMAIN bridge'.toPlugin, NEW d \in Deliveries,
             IsCommand(bridge'.toPlugin[i], d)
      PROVE  i \in DOMAIN bridge.toPlugin /\ bridge'.toPlugin[i] = bridge.toPlugin[i]
  <2>1. bridge.toPlugin \in Seq(Requests)
    BY <1>1, ToPluginTyped
  <2>2. i \in DOMAIN bridge.toPlugin \/ bridge'.toPlugin[i] = request
    BY <2>1
  <2>3. bridge'.toPlugin[i] # request
    BY <1>3 DEF IsCommand
  <2>4. QED
    BY <2>1, <2>2, <2>3
<1>4. ASSUME NEW i \in DOMAIN bridge'.toPlugin, NEW d \in Deliveries,
             IsCommand(bridge'.toPlugin[i], d)
      PROVE  /\ bridge'.toPlugin[i].gen = command'[d].gen
             /\ executed'[d] = 0 /\ Spent(d)'
             /\ \A j \in DOMAIN bridge'.toPlugin : IsCommand(bridge'.toPlugin[j], d) => i = j
  <2>1. i \in DOMAIN bridge.toPlugin /\ bridge'.toPlugin[i] = bridge.toPlugin[i]
    BY <1>3, <1>4
  <2>2. /\ bridge.toPlugin[i].gen = command[d].gen
        /\ executed[d] = 0 /\ Spent(d) /\ command[d].gen # 0
    BY <1>1, <1>4, <2>1, ToPluginTyped DEF SentOnce, Gens
  <2>3. \A j \in DOMAIN bridge'.toPlugin : IsCommand(bridge'.toPlugin[j], d) => i = j
    BY <1>1, <1>3, <1>4, <2>1 DEF SentOnce
  <2>4. QED
    BY <2>1, <2>2, <2>3
<1>5. QED
  BY <1>2, <1>4 DEF SentOnce

\* The worker sends a delivery that was not sent before: else it would be spent, and a
\* worker that may still send it has neither its result nor a request out for it.
LEMMA SentOnceSends ==
    ASSUME Inv, UNCHANGED <<executed, command>>, NEW d \in Deliveries,
           companion.worker.pc = "yielded", companion.worker.d = d, companion.phase = "live",
           bridge'.toPlugin = Append(bridge.toPlugin, CommandRequest(d)),
           companion'.gen = companion.gen,
           companion'.worker = [pc |-> "waiting", d |-> d],
           \A e \in Deliveries : command[e].gen # 0 /\ Spent(e) => Spent(e)'
    PROVE  SentOnce'
<1>1. SentOnce /\ PluginTyped /\ Phases /\ MacTyped
  BY DEF Inv
<1>2. bridge.toPlugin \in Seq(Requests) /\ companion.gen \in Nat
  BY <1>1, ToPluginTyped, CompanionFields, CommandRoutingAssumption
<1>3. /\ command[d].gen = companion.gen /\ companion.results[d] = "none"
      /\ companion.gen # 0
  BY <1>1 DEF Phases
<1>4. ~Spent(d) /\ Spent(d)'
  BY <1>2, <1>3 DEF Spent
<1>5. ~(executed[d] > 0)
  BY <1>1, <1>4 DEF SentOnce
<1>6. executed[d] = 0
  BY <1>1, <1>5, BridgeFields, CommandRoutingAssumption
<1>7. \A i \in DOMAIN bridge.toPlugin : ~IsCommand(bridge.toPlugin[i], d)
  BY <1>1, <1>4 DEF SentOnce
<1>8. \A e \in Deliveries : executed'[e] > 0 =>
          executed'[e] = 1 /\ command'[e].gen # 0 /\ Spent(e)'
  BY <1>1 DEF SentOnce
<1>9. /\ CommandRequest(d).op = "command" /\ CommandRequest(d).d = d
      /\ CommandRequest(d).gen = companion.gen
  BY DEF CommandRequest, Current
<1>10. ASSUME NEW i \in DOMAIN bridge'.toPlugin
       PROVE  \/ i \in DOMAIN bridge.toPlugin /\ bridge'.toPlugin[i] = bridge.toPlugin[i]
              \/ i = Len(bridge.toPlugin) + 1 /\ bridge'.toPlugin[i] = CommandRequest(d)
  BY <1>2
<1>11. ASSUME NEW i \in DOMAIN bridge'.toPlugin, NEW e \in Deliveries,
              IsCommand(bridge'.toPlugin[i], e)
       PROVE  /\ bridge'.toPlugin[i].gen = command'[e].gen
              /\ executed'[e] = 0 /\ Spent(e)'
              /\ \A j \in DOMAIN bridge'.toPlugin : IsCommand(bridge'.toPlugin[j], e) => i = j
  <2>1. CASE e = d
    <3>1. \A j \in DOMAIN bridge'.toPlugin :
              IsCommand(bridge'.toPlugin[j], d) => j = Len(bridge.toPlugin) + 1
      BY <1>7, <1>10
    <3>2. bridge'.toPlugin[i] = CommandRequest(d)
      BY <1>7, <1>10, <1>11, <2>1
    <3>3. QED
      BY <1>3, <1>4, <1>6, <1>9, <1>11, <2>1, <3>1, <3>2
  <2>2. CASE e # d
    <3>1. \A j \in DOMAIN bridge'.toPlugin : IsCommand(bridge'.toPlugin[j], e) =>
              j \in DOMAIN bridge.toPlugin /\ bridge'.toPlugin[j] = bridge.toPlugin[j]
      BY <1>9, <1>10, <2>2 DEF IsCommand
    <3>2. i \in DOMAIN bridge.toPlugin /\ bridge'.toPlugin[i] = bridge.toPlugin[i]
      BY <1>11, <3>1
    <3>3. /\ bridge.toPlugin[i].gen = command[e].gen
          /\ executed[e] = 0 /\ Spent(e) /\ command[e].gen # 0
      BY <1>1, <1>11, <3>2, ToPluginTyped DEF SentOnce, Gens
    <3>4. \A j \in DOMAIN bridge'.toPlugin : IsCommand(bridge'.toPlugin[j], e) => i = j
      BY <1>1, <1>11, <3>1, <3>2 DEF SentOnce
    <3>5. QED
      BY <3>2, <3>3, <3>4
  <2>3. QED
    BY <2>1, <2>2
<1>12. QED
  BY <1>8, <1>11 DEF SentOnce

\* The plugin takes a command off its queue: it was there once.
LEMMA SentOnceExecutes ==
    ASSUME Inv, UNCHANGED command, NEW d \in Deliveries, bridge.toPlugin # <<>>,
           IsCommand(NextRequest, d), bridge'.toPlugin = Tail(bridge.toPlugin),
           executed' = [executed EXCEPT ![d] = @ + 1],
           \A e \in Deliveries : command[e].gen # 0 /\ Spent(e) => Spent(e)'
    PROVE  SentOnce'
<1>1. SentOnce /\ PluginTyped
  BY DEF Inv
<1>2. bridge.toPlugin \in Seq(Requests) /\ executed \in [Deliveries -> 0..MaxSends]
  BY <1>1, ToPluginTyped, BridgeFields
<1>3. 1 \in DOMAIN bridge.toPlugin /\ IsCommand(bridge.toPlugin[1], d)
  BY <1>1, NextRequestTyped
<1>4. executed[d] = 0 /\ Spent(d) /\ command[d].gen # 0
  BY <1>1, <1>3, ToPluginTyped DEF SentOnce, Gens
<1>5. executed'[d] = 1 /\ \A e \in Deliveries : e # d => executed'[e] = executed[e]
  BY <1>2, <1>4
<1>6. \A e \in Deliveries : executed'[e] > 0 =>
          executed'[e] = 1 /\ command'[e].gen # 0 /\ Spent(e)'
  BY <1>1, <1>4, <1>5 DEF SentOnce
<1>7. ASSUME NEW i \in DOMAIN bridge'.toPlugin
      PROVE  /\ i + 1 \in DOMAIN bridge.toPlugin /\ bridge'.toPlugin[i] = bridge.toPlugin[i + 1]
             /\ i \in Nat /\ i + 1 # 1
  <2>1. Tail(bridge.toPlugin) \in Seq(Requests)
    BY <1>2
  <2>2. i \in 1..Len(Tail(bridge.toPlugin))
    BY <2>1
  <2>3. QED
    BY <1>2, <2>2, TailWithin
<1>8. ASSUME NEW i \in DOMAIN bridge'.toPlugin, NEW e \in Deliveries,
             IsCommand(bridge'.toPlugin[i], e)
      PROVE  /\ bridge'.toPlugin[i].gen = command'[e].gen
             /\ executed'[e] = 0 /\ Spent(e)'
             /\ \A j \in DOMAIN bridge'.toPlugin : IsCommand(bridge'.toPlugin[j], e) => i = j
  <2>1. i + 1 \in DOMAIN bridge.toPlugin /\ bridge'.toPlugin[i] = bridge.toPlugin[i + 1]
    BY <1>7
  <2>2. /\ bridge.toPlugin[i + 1].gen = command[e].gen
        /\ executed[e] = 0 /\ Spent(e) /\ command[e].gen # 0
    BY <1>1, <1>8, <2>1, ToPluginTyped DEF SentOnce, Gens
  <2>3. e # d
    BY <1>1, <1>3, <1>7, <1>8, <2>1 DEF SentOnce
  <2>4. ASSUME NEW j \in DOMAIN bridge'.toPlugin, IsCommand(bridge'.toPlugin[j], e)
        PROVE  i = j
    <3>1. j + 1 \in DOMAIN bridge.toPlugin /\ bridge'.toPlugin[j] = bridge.toPlugin[j + 1]
      BY <1>7
    <3>2. i + 1 = j + 1
      BY <1>1, <1>8, <2>1, <2>4, <3>1 DEF SentOnce
    <3>3. QED
      BY <1>7, <3>2
  <2>5. QED
    BY <1>5, <2>1, <2>2, <2>3, <2>4
<1>9. QED
  BY <1>6, <1>8 DEF SentOnce

\* Every step keeps SentOnce.
LEMMA SentOnceStep ==
    ASSUME Inv, Next
    PROVE  SentOnce'
<1>1. \A d \in Deliveries : command[d].gen # 0 /\ Spent(d) =>
          command'[d].gen = command[d].gen /\ Spent(d)'
  BY SpentStays
<1>2. PluginTyped
  BY DEF Inv
<1>3. bridge'.toPlugin = bridge.toPlugin => QueueShrinks
  <2>1. \A i \in DOMAIN bridge.toPlugin : i + 0 = i
    BY <1>2, ToPluginTyped
  <2>2. QED
    BY <1>2, <2>1, ToPluginTyped DEF QueueShrinks
<1>4. CASE PhoneSteps \/ RelaySteps
  BY <1>1, <1>3, <1>4, PhoneFrame, RelayFrame, SentOnceShrinks
<1>5. CASE CompanionSteps
  <2>1. UNCHANGED <<command, executed>>
    BY <1>5, CompanionFrame
  <2>2. CASE SendsNothing
    BY <1>1, <1>3, <2>1, <2>2, SentOnceShrinks DEF SendsNothing
  <2>3. CASE Writes([op |-> "bind", gen |-> companion.gen + 1])
             /\ companion.gen + 1 \in Gens
    <3>1. [op |-> "bind", gen |-> companion.gen + 1] \in Requests
      BY <2>3 DEF Requests
    <3>2. QED
      BY <1>1, <2>1, <2>3, <3>1, SentOnceGrows DEF Writes
  <2>4. CASE Writes([op |-> "invalidate", gen |-> companion.gen])
             /\ companion.gen \in Gens
    <3>1. [op |-> "invalidate", gen |-> companion.gen] \in Requests
      BY <2>4 DEF Requests
    <3>2. QED
      BY <1>1, <2>1, <2>4, <3>1, SentOnceGrows DEF Writes
  <2>5. CASE \E d \in Deliveries :
                 /\ companion.worker.pc = "yielded" /\ companion.worker.d = d
                 /\ companion.phase = "live"
                 /\ Writes(CommandRequest(d))
                 /\ companion'.gen = companion.gen
                 /\ companion'.worker = [pc |-> "waiting", d |-> d]
    BY <1>1, <2>1, <2>5, SentOnceSends DEF Writes
  <2>6. QED
    BY <1>5, <2>2, <2>3, <2>4, <2>5, CompanionWrites DEF CompanionIs
<1>6. CASE PluginSteps
  <2>1. QueueShrinks /\ UNCHANGED command
    BY <1>6, PluginQueue, PluginFrame
  <2>2. CASE UNCHANGED executed
    BY <1>1, <2>1, <2>2, SentOnceShrinks
  <2>3. CASE PluginExecutes
    <3>1. PICK d \in Deliveries :
            /\ bridge.toPlugin # <<>> /\ IsCommand(NextRequest, d)
            /\ \/ UNCHANGED executed
               \/ /\ executed' = [executed EXCEPT ![d] = @ + 1]
                  /\ bridge'.toPlugin = Tail(bridge.toPlugin)
      BY <1>2, <2>3, PluginExecutesDoes DEF Inv, Takes
    <3>2. QED
      BY <1>1, <2>1, <2>2, <3>1, SentOnceExecutes
  <2>4. QED
    BY <1>2, <1>6, <2>2, <2>3 DEF PluginSteps, PluginNext, PluginLeaves, ServerNotices,
       PluginConnects, PluginBinds, PluginInvalidates, HandlerReturns
<1>7. QED
  BY <1>4, <1>5, <1>6, NextParts

-----------------------------------------------------------------------------
(* Nobody hears of a connection that the plugin has not been bound to.     *)

\* Generations grow, by Connect only.
LEMMA GenGrows ==
    ASSUME Inv, Next
    PROVE  /\ companion.gen \in 0..MaxGen
           /\ \/ companion'.gen = companion.gen
              \/ Connect /\ companion'.gen = companion.gen + 1
<1>1. Phases /\ RelayTyped /\ MacTyped /\ PluginTyped
  BY DEF Inv
<1> DEFINE Grows == \/ companion'.gen = companion.gen
                    \/ Connect /\ companion'.gen = companion.gen + 1
<1> SUFFICES Grows
  BY <1>1, CompanionFields
<1>2. CASE PhoneSteps \/ RelaySteps
  BY <1>2, PhoneFrame, RelayFrame
<1>3. CASE PluginSteps
  BY <1>3, PluginStepsDo DEF Inv, Fails
<1>4. CASE CompanionSteps
  <2>1. CASE Connect
    BY <1>1, <2>1, ConnectDoes DEF CompanionIs
  <2>2. CASE BindReturns
    BY <1>1, <2>2, BindReturnsDoes DEF CompanionIs
  <2>3. CASE ReaderTakes \/ WorkerTakes \/ WorkerSends \/ WorkerReturns \/ WriterWrites
    <3>1. companion.gen \in Gens
      BY <1>1, <2>3, TaskGens
    <3>2. CASE ReaderTakes \/ WorkerTakes \/ WriterWrites
      BY <1>1, <3>1, <3>2, ReaderTakesDoes, WorkerTakesDoes, WriterWritesDoes
         DEF CompanionIs
    <3>3. CASE WorkerSends
      BY <1>1, <3>1, <3>3, WorkerTyped, WorkerSendsDoes DEF CompanionIs
    <3>4. CASE WorkerReturns
      BY <1>1, <3>1, <3>4, WorkerTyped, WorkerReturnsDoes DEF CompanionIs
    <3>5. QED
      BY <2>3, <3>2, <3>3, <3>4
  <2>4. CASE RelayLost \/ TaskFails
    BY <1>1, <2>4, TaskGens, EndsOf, EndsDoes DEF CompanionIs
  <2>5. CASE InvalidateReturns \/ Leave \/ RequestTimesOut \/ Restart
    BY <1>1, <2>5, TaskGens, InvalidateReturnsDoes, LeaveDoes, RequestTimesOutDoes,
       RestartDoes DEF CompanionIs
  <2>6. QED
    BY <1>4, <2>1, <2>2, <2>3, <2>4, <2>5 DEF CompanionSteps, CompanionNext
<1>5. QED
  BY <1>2, <1>3, <1>4, NextParts

\* The plugin is bound by the next request, or gives its binding up.
LEMMA PluginBinding ==
    ASSUME Inv, PluginSteps
    PROVE  \/ desktop'.bound \in {desktop.bound, 0}
           \/ /\ bridge.toPlugin # <<>> /\ NextRequest.op = "bind"
              /\ bridge'.toPlugin = Tail(bridge.toPlugin)
              /\ desktop'.bound = NextRequest.gen
<1>1. PluginTyped /\ MacTyped /\ Phases /\ Counts /\ UNCHANGED outbound
  BY PluginFrame DEF Inv
<1>2. CASE PluginBinds
  BY <1>1, <1>2, PluginBindsDoes DEF Takes
<1>3. CASE PluginInvalidates \/ PluginExecutes \/ HandlerReturns
  BY <1>1, <1>3, PluginInvalidatesDoes, PluginExecutesDoes, HandlerReturnsDoes
<1>4. CASE ServerNotices \/ PluginConnects \/ PluginLeaves
  BY <1>1, <1>4, ServerNoticesDoes, PluginConnectsDoes, PluginLeavesDoes
<1>5. QED
  BY <1>2, <1>3, <1>4 DEF PluginSteps, PluginNext

\* What the queue of requests becomes, and what the Companion adds to it.
LEMMA QueueMoves ==
    ASSUME Inv, Next
    PROVE  \/ QueueShrinks
           \/ \E request \in Requests :
                 /\ bridge'.toPlugin = Append(bridge.toPlugin, request)
                 /\ request.gen = companion'.gen
                 /\ request.op = "bind" => companion'.gen = companion.gen + 1
<1>1. PluginTyped
  BY DEF Inv
<1>2. bridge'.toPlugin = bridge.toPlugin => QueueShrinks
  <2>1. \A i \in DOMAIN bridge.toPlugin : i + 0 = i
    BY <1>1, ToPluginTyped
  <2>2. QED
    BY <1>1, <2>1, ToPluginTyped DEF QueueShrinks
<1>3. CASE PhoneSteps \/ RelaySteps
  BY <1>2, <1>3, PhoneFrame, RelayFrame
<1>4. CASE PluginSteps
  BY <1>4, PluginQueue
<1>5. CASE CompanionSteps
  <2>1. CASE SendsNothing
    BY <1>2, <2>1 DEF SendsNothing
  <2>2. CASE /\ Writes([op |-> "bind", gen |-> companion.gen + 1])
             /\ companion.gen + 1 \in Gens /\ companion'.gen = companion.gen + 1
    <3>1. [op |-> "bind", gen |-> companion.gen + 1] \in Requests
      BY <2>2 DEF Requests
    <3>2. QED
      BY <2>2, <3>1 DEF Writes
  <2>3. CASE /\ Writes([op |-> "invalidate", gen |-> companion.gen])
             /\ companion.gen \in Gens /\ companion'.gen = companion.gen
    <3>1. [op |-> "invalidate", gen |-> companion.gen] \in Requests
      BY <2>3 DEF Requests
    <3>2. QED
      BY <2>3, <3>1 DEF Writes
  <2>4. CASE \E d \in Deliveries :
               /\ companion.phase = "live" /\ Writes(CommandRequest(d))
               /\ companion'.gen = companion.gen
    <3>1. companion.gen \in Gens
      BY <2>4, GenInGens DEF Inv
    <3>2. PICK d \in Deliveries :
             Writes(CommandRequest(d)) /\ companion'.gen = companion.gen
      BY <2>4
    <3>3. /\ CommandRequest(d) \in Requests /\ CommandRequest(d).gen = companion.gen
          /\ CommandRequest(d).op = "command"
      BY <3>1 DEF CommandRequest, Current, Requests
    <3>4. QED
      BY <3>2, <3>3 DEF Writes
  <2>5. QED
    BY <1>5, <2>1, <2>2, <2>3, <2>4, CompanionWrites DEF CompanionIs
<1>6. QED
  BY <1>3, <1>4, <1>5, NextParts

\* A connection that is passed stays so: later bindings are for later connections.
LEMMA PassedStays ==
    ASSUME Inv, Next, NEW g \in 0..MaxGen, Passed(g)
    PROVE  Passed(g)'
<1>1. PluginTyped /\ g \in Nat /\ companion.gen \in Nat
  BY GenGrows, CommandRoutingAssumption DEF Inv
<1>2. g <= companion.gen /\ g <= companion'.gen
  BY <1>1, GenGrows DEF Passed
<1>3. desktop'.bound = 0 \/ g <= desktop'.bound
  <2>1. CASE PluginSteps
    <3>1. CASE /\ bridge.toPlugin # <<>> /\ NextRequest.op = "bind"
               /\ desktop'.bound = NextRequest.gen
      <4>1. /\ NextRequest = bridge.toPlugin[1] /\ 1 \in DOMAIN bridge.toPlugin
            /\ NextRequest.gen \in Gens
        BY <1>1, <3>1, NextRequestTyped
      <4>2. g < NextRequest.gen
        BY <3>1, <4>1 DEF Passed
      <4>3. QED
        BY <1>1, <3>1, <4>1, <4>2 DEF Gens
    <3>2. QED
      BY <2>1, <3>1, PluginBinding DEF Passed
  <2>2. QED
    BY <2>1, NextParts, PhoneFrame, RelayFrame, CompanionFrame DEF Passed
<1>4. ASSUME NEW i \in DOMAIN bridge'.toPlugin, bridge'.toPlugin[i].op = "bind"
      PROVE  g < bridge'.toPlugin[i].gen
  <2>1. CASE QueueShrinks
    <3>1. PICK k \in {0, 1} :
             i + k \in DOMAIN bridge.toPlugin /\ bridge'.toPlugin[i] = bridge.toPlugin[i + k]
      BY <2>1 DEF QueueShrinks
    <3>2. QED
      BY <1>4, <3>1 DEF Passed
  <2>2. CASE \E request \in Requests :
                 /\ bridge'.toPlugin = Append(bridge.toPlugin, request)
                 /\ request.gen = companion'.gen
                 /\ request.op = "bind" => companion'.gen = companion.gen + 1
    <3>1. PICK request \in Requests :
                 /\ bridge'.toPlugin = Append(bridge.toPlugin, request)
                 /\ request.gen = companion'.gen
                 /\ request.op = "bind" => companion'.gen = companion.gen + 1
      BY <2>2
    <3>2. \/ i \in DOMAIN bridge.toPlugin /\ bridge'.toPlugin[i] = bridge.toPlugin[i]
          \/ bridge'.toPlugin[i] = request
      BY <1>1, <3>1, ToPluginTyped
    <3>3. QED
      BY <1>1, <1>2, <1>4, <3>1, <3>2 DEF Passed
  <2>3. QED
    BY <2>1, <2>2, QueueMoves
<1>5. QED
  BY <1>2, <1>3, <1>4 DEF Passed

\* Every step keeps the bindings ascending: Connect numbers them.
LEMMA BindsAscendStep ==
    ASSUME Inv, BindsAscend, Next
    PROVE  BindsAscend'
<1>1. PluginTyped /\ companion.gen \in Nat /\ desktop.bound \in Nat
  BY GenGrows, CommandRoutingAssumption, DesktopFields DEF Inv
<1>2. companion'.gen \in Nat /\ companion.gen <= companion'.gen
  BY <1>1, GenGrows
<1>3. \A i \in DOMAIN bridge.toPlugin :
          bridge.toPlugin[i].gen \in Nat /\ bridge.toPlugin[i].gen <= companion'.gen
  BY <1>1, <1>2, ToPluginTyped DEF BindsAscend, Gens
<1>4. desktop'.bound <= companion'.gen
  <2>1. \/ desktop'.bound \in {desktop.bound, 0}
        \/ bridge.toPlugin # <<>> /\ desktop'.bound = NextRequest.gen
    BY NextParts, PhoneFrame, RelayFrame, CompanionFrame, PluginBinding
  <2>2. bridge.toPlugin # <<>> => NextRequest.gen <= companion'.gen
    BY <1>1, <1>3, NextRequestTyped
  <2>3. QED
    BY <1>1, <1>2, <2>1, <2>2 DEF BindsAscend
<1>5. CASE QueueShrinks
  <2>1. PICK k \in {0, 1} : \A i \in DOMAIN bridge'.toPlugin :
            i + k \in DOMAIN bridge.toPlugin /\ bridge'.toPlugin[i] = bridge.toPlugin[i + k]
    BY <1>5 DEF QueueShrinks
  <2>2. \A i \in DOMAIN bridge'.toPlugin : bridge'.toPlugin[i].gen <= companion'.gen
    BY <1>3, <2>1
  <2>3. ASSUME NEW i \in DOMAIN bridge'.toPlugin, NEW j \in DOMAIN bridge'.toPlugin, i < j,
               bridge'.toPlugin[i].op = "bind", bridge'.toPlugin[j].op = "bind"
        PROVE  bridge'.toPlugin[i].gen < bridge'.toPlugin[j].gen
    <3>1. /\ i + k \in DOMAIN bridge.toPlugin /\ bridge'.toPlugin[i] = bridge.toPlugin[i + k]
          /\ j + k \in DOMAIN bridge.toPlugin /\ bridge'.toPlugin[j] = bridge.toPlugin[j + k]
      BY <2>1
    <3>2. i \in Nat /\ j \in Nat
      BY <1>5 DEF QueueShrinks
    <3>3. i + k < j + k
      BY <2>3, <3>2
    <3>4. QED
      BY <2>3, <3>1, <3>3 DEF BindsAscend
  <2>4. QED
    BY <1>4, <2>2, <2>3 DEF BindsAscend
<1>6. CASE \E request \in Requests :
                 /\ bridge'.toPlugin = Append(bridge.toPlugin, request)
                 /\ request.gen = companion'.gen
                 /\ request.op = "bind" => companion'.gen = companion.gen + 1
  <2>1. PICK request \in Requests :
                 /\ bridge'.toPlugin = Append(bridge.toPlugin, request)
                 /\ request.gen = companion'.gen
                 /\ request.op = "bind" => companion'.gen = companion.gen + 1
    BY <1>6
  <2>2. ASSUME NEW i \in DOMAIN bridge'.toPlugin
        PROVE  \/ /\ i \in DOMAIN bridge.toPlugin /\ i \in 1..Len(bridge.toPlugin)
                  /\ bridge'.toPlugin[i] = bridge.toPlugin[i]
               \/ bridge'.toPlugin[i] = request /\ i = Len(bridge.toPlugin) + 1
    BY <1>1, <2>1, ToPluginTyped
  <2>3. \A i \in DOMAIN bridge'.toPlugin : bridge'.toPlugin[i].gen <= companion'.gen
    BY <1>2, <1>3, <2>1, <2>2
  <2>4. ASSUME NEW i \in DOMAIN bridge'.toPlugin, NEW j \in DOMAIN bridge'.toPlugin, i < j,
               bridge'.toPlugin[i].op = "bind", bridge'.toPlugin[j].op = "bind"
        PROVE  bridge'.toPlugin[i].gen < bridge'.toPlugin[j].gen
    <3>1. Len(bridge.toPlugin) \in Nat
      BY <1>1, ToPluginTyped
    <3>2. i \in DOMAIN bridge.toPlugin /\ bridge'.toPlugin[i] = bridge.toPlugin[i]
      BY <2>2, <2>4, <3>1
    <3>3. CASE j \in DOMAIN bridge.toPlugin /\ bridge'.toPlugin[j] = bridge.toPlugin[j]
      BY <2>4, <3>2, <3>3 DEF BindsAscend
    <3>4. CASE bridge'.toPlugin[j] = request
      <4>1. bridge.toPlugin[i].gen <= companion.gen /\ bridge.toPlugin[i].gen \in Nat
        BY <1>3, <3>2 DEF BindsAscend
      <4>2. request.gen = companion.gen + 1
        BY <2>1, <2>4, <3>4
      <4>3. QED
        BY <1>1, <3>2, <3>4, <4>1, <4>2
    <3>5. QED
      BY <2>2, <3>3, <3>4
  <2>5. QED
    BY <1>4, <2>3, <2>4 DEF BindsAscend
<1>7. QED
  BY <1>5, <1>6, QueueMoves

\* The plugin that is bound to a connection has passed it: the requests to come bind it
\* to later ones.
LEMMA BindPasses ==
    ASSUME Inv, BindsAscend, PluginBinds
    PROVE  \E g \in Gens : g = NextRequest.gen /\ Passed(g)'
<1>1. PluginTyped
  BY DEF Inv
<1>2. /\ Takes({"ok", "error"}) /\ NextRequest.op = "bind"
      /\ desktop'.bound = NextRequest.gen /\ UNCHANGED companion
  BY <1>1, PluginBindsDoes
<1>3. /\ bridge.toPlugin # <<>> /\ bridge'.toPlugin = Tail(bridge.toPlugin)
  BY <1>2 DEF Takes
<1>4. /\ NextRequest = bridge.toPlugin[1] /\ 1 \in DOMAIN bridge.toPlugin
      /\ NextRequest.gen \in Gens
  BY <1>1, <1>3, NextRequestTyped
<1>5. PICK h \in Gens : h = NextRequest.gen
  BY <1>4
<1>6. h <= companion'.gen
  BY <1>2, <1>4, <1>5 DEF BindsAscend
<1>7. ASSUME NEW i \in DOMAIN bridge'.toPlugin, bridge'.toPlugin[i].op = "bind"
      PROVE  h < bridge'.toPlugin[i].gen
  <2>1. Tail(bridge.toPlugin) \in Seq(Requests)
    BY <1>1, <1>3, ToPluginTyped
  <2>2. i \in 1..Len(Tail(bridge.toPlugin))
    BY <1>3, <2>1
  <2>3. i + 1 \in DOMAIN bridge.toPlugin /\ bridge'.toPlugin[i] = bridge.toPlugin[i + 1]
        /\ 1 < i + 1
    BY <1>1, <1>3, <2>2, ToPluginTyped, TailWithin
  <2>4. QED
    BY <1>2, <1>4, <1>5, <1>7, <2>3 DEF BindsAscend
<1>8. desktop'.bound = h /\ h <= desktop'.bound
  BY <1>2, <1>5 DEF Gens
<1>9. Passed(h)'
  BY <1>6, <1>7, <1>8 DEF Passed
<1>10. QED
  BY <1>5, <1>9

\* What the server has heard of a binding is so.
AnswersPassed == \A r \in bridge.toServer : r.request.op = "bind" => Passed(r.request.gen)

\* An answer, the request it is to and the connection of that.
LEMMA ToServerTyped ==
    ASSUME PluginTyped, NEW r \in bridge.toServer
    PROVE  r \in Responses /\ r.request \in Requests /\ r.request.gen \in Gens
<1>1. r \in Responses
  BY BridgeFields
<1>2. r.request \in Requests
  BY <1>1 DEF Responses
<1>3. QED
  BY <1>1, <1>2 DEF Requests

\* The answers to bindings, after a step: those of before, and the one to the next request.
LEMMA AnswersMove ==
    ASSUME Inv, BoundFirst, Next, NEW r \in bridge'.toServer, r.request.op = "bind"
    PROVE  \/ r \in bridge.toServer
           \/ PluginBinds /\ r.request = NextRequest
<1>1. PluginTyped /\ MacTyped /\ RelayTyped /\ Phases /\ Counts
  BY DEF Inv
<1>2. CASE PhoneSteps \/ RelaySteps
  BY <1>2, PhoneFrame, RelayFrame
<1>3. CASE CompanionSteps
  BY <1>1, <1>3, CompanionStepsDo DEF BridgeKept
<1>4. CASE PluginSteps
  <2>1. ASSUME NEW results, Takes(results), NextRequest.op # "bind"
        PROVE  r \in bridge.toServer
    BY <2>1 DEF Takes, Answer
  <2>2. CASE PluginBinds
    BY <1>1, <2>2, PluginBindsDoes DEF Takes, Answer
  <2>3. CASE PluginInvalidates
    BY <1>1, <2>1, <2>3, PluginInvalidatesDoes
  <2>4. CASE PluginExecutes
    BY <1>1, <2>1, <2>4, PluginExecutesDoes DEF IsCommand
  <2>5. CASE HandlerReturns
    <3>1. PICK run \in desktop.running, result \in Remembered :
             bridge'.toServer \subseteq bridge.toServer \cup
                {Answer(run.request, result), Answer(run.request, "error")}
      BY <1>1, <2>5, HandlerReturnsDoes
    <3>2. run.request.op = "command"
      BY DEF BoundFirst
    <3>3. QED
      BY <3>1, <3>2 DEF Answer
  <2>6. CASE ServerNotices \/ PluginConnects \/ PluginLeaves
    <3>1. UNCHANGED outbound
      BY <1>4, PluginFrame
    <3>2. bridge'.toServer = bridge.toServer \/ bridge'.toServer = {}
      BY <1>1, <2>6, <3>1, ServerNoticesDoes, PluginConnectsDoes, PluginLeavesDoes
    <3>3. QED
      BY <3>2
  <2>7. QED
    BY <1>4, <2>2, <2>3, <2>4, <2>5, <2>6 DEF PluginSteps, PluginNext
<1>5. QED
  BY <1>2, <1>3, <1>4, NextParts

\* Every step keeps the answers to bindings passed.
LEMMA AnswersPassedStep ==
    ASSUME Inv, BoundFirst, Next
    PROVE  AnswersPassed'
<1>1. PluginTyped
  BY DEF Inv
<1>2. ASSUME NEW r \in bridge'.toServer, r.request.op = "bind"
      PROVE  Passed(r.request.gen)'
  <2>1. CASE r \in bridge.toServer
    <3>1. PICK g \in Gens : g = r.request.gen
      BY <1>1, <2>1, ToServerTyped
    <3>2. Passed(g) /\ g \in 0..MaxGen
      BY <1>2, <2>1, <3>1 DEF BoundFirst, Gens
    <3>3. Passed(g)'
      BY <3>2, PassedStays
    <3>4. QED
      BY <3>1, <3>3
  <2>2. CASE PluginBinds /\ r.request = NextRequest
    <3>1. PICK g \in Gens : g = NextRequest.gen /\ Passed(g)'
      BY <2>2, BindPasses DEF BoundFirst
    <3>2. r.request.gen = g
      BY <2>2, <3>1
    <3>3. QED
      BY <3>1, <3>2
  <2>3. QED
    BY <1>2, <2>1, <2>2, AnswersMove
<1>3. QED
  BY <1>2 DEF AnswersPassed

\* The handlers that run are those of commands.
RunsAreCommands == \A run \in desktop.running : run.request.op = "command"

\* Every step keeps the running handlers those of commands.
LEMMA RunsAreCommandsStep ==
    ASSUME Inv, RunsAreCommands, Next
    PROVE  RunsAreCommands'
<1>1. PluginTyped /\ MacTyped /\ Phases /\ Counts
  BY DEF Inv
<1>2. UNCHANGED desktop => RunsAreCommands'
  BY DEF RunsAreCommands
<1>3. CASE PluginSteps
  <2>1. CASE PluginExecutes
    <3>1. \/ desktop'.running = desktop.running
          \/ /\ NextRequest.op = "command"
             /\ desktop'.running = desktop.running
                   \cup {[request |-> NextRequest, sock |-> bridge.sock]}
      BY <1>1, <2>1, PluginExecutesDoes DEF IsCommand
    <3>2. QED
      BY <3>1 DEF RunsAreCommands
  <2>2. CASE HandlerReturns
    BY <1>1, <2>2, HandlerReturnsDoes DEF RunsAreCommands
  <2>3. CASE PluginBinds \/ PluginInvalidates \/ PluginLeaves
    BY <1>1, <2>3, PluginBindsDoes, PluginInvalidatesDoes, PluginLeavesDoes
       DEF RunsAreCommands
  <2>4. CASE ServerNotices \/ PluginConnects
    BY <1>1, <1>2, <1>3, <2>4, PluginFrame, ServerNoticesDoes, PluginConnectsDoes
  <2>5. QED
    BY <1>3, <2>1, <2>2, <2>3, <2>4 DEF PluginSteps, PluginNext
<1>4. QED
  BY <1>2, <1>3, NextParts, PhoneFrame, RelayFrame, CompanionFrame

\* A live connection has been passed: BindReturns makes it live.
LivePassed == companion.phase \in {"live", "closing"} => Passed(companion.gen)

\* A connection becomes live when its binding is answered.
LEMMA PhaseMoves ==
    ASSUME Inv, Next
    PROVE  \/ companion'.phase \notin {"live", "closing"}
           \/ /\ companion.phase \in {"live", "closing"} /\ companion'.gen = companion.gen
           \/ /\ Answered([op |-> "bind", gen |-> companion.gen], "ok")
              /\ companion'.gen = companion.gen
<1>1. PluginTyped /\ MacTyped /\ RelayTyped /\ Phases
  BY DEF Inv
<1>2. CASE PhoneSteps \/ RelaySteps
  BY <1>2, PhoneFrame, RelayFrame
<1>3. CASE PluginSteps
  BY <1>3, PluginStepsDo DEF Inv, Fails
<1>4. CASE CompanionSteps
  <2>1. CASE Connect
    BY <1>1, <2>1, ConnectDoes DEF CompanionIs
  <2>2. CASE BindReturns
    BY <1>1, <2>2, BindReturnsDoes DEF CompanionIs
  <2>3. CASE ReaderTakes \/ WorkerTakes \/ WorkerSends \/ WorkerReturns \/ WriterWrites
    <3>1. companion.gen \in Gens
      BY <1>1, <2>3, TaskGens
    <3>2. CASE ReaderTakes \/ WorkerTakes \/ WriterWrites
      BY <1>1, <3>1, <3>2, ReaderTakesDoes, WorkerTakesDoes, WriterWritesDoes
         DEF CompanionIs
    <3>3. CASE WorkerSends
      BY <1>1, <3>1, <3>3, WorkerTyped, WorkerSendsDoes DEF CompanionIs
    <3>4. CASE WorkerReturns
      BY <1>1, <3>1, <3>4, WorkerTyped, WorkerReturnsDoes DEF CompanionIs
    <3>5. QED
      BY <2>3, <3>2, <3>3, <3>4
  <2>4. CASE RelayLost \/ TaskFails
    BY <1>1, <2>4, TaskGens, EndsOf, EndsDoes DEF CompanionIs
  <2>5. CASE InvalidateReturns \/ Leave \/ RequestTimesOut \/ Restart
    BY <1>1, <2>5, TaskGens, InvalidateReturnsDoes, LeaveDoes, RequestTimesOutDoes,
       RestartDoes DEF CompanionIs
  <2>6. QED
    BY <1>4, <2>1, <2>2, <2>3, <2>4, <2>5 DEF CompanionSteps, CompanionNext
<1>5. QED
  BY <1>2, <1>3, <1>4, NextParts

\* Every step keeps the live connection passed.
LEMMA LivePassedStep ==
    ASSUME Inv, BoundFirst, Next
    PROVE  LivePassed'
<1>1. PICK g \in 0..MaxGen : g = companion.gen
  BY GenGrows
<1>2. Answered([op |-> "bind", gen |-> companion.gen], "ok") => Passed(g)
  BY <1>1 DEF Answered, BoundFirst
<1>3. companion.phase \in {"live", "closing"} => Passed(g)
  BY <1>1 DEF BoundFirst
<1>4. Passed(g) => Passed(g)'
  BY PassedStays
<1>5. companion'.phase \in {"live", "closing"} => companion'.gen = g /\ Passed(g)'
  BY <1>1, <1>2, <1>3, <1>4, PhaseMoves
<1>6. QED
  BY <1>5 DEF LivePassed

\* What has come up a link shows that its connection was passed.
Heard(g) == link[g].up # <<>> \/ link[g].handler \in {"announcing", "serving"}
HeardPassed == \A g \in Gens : Heard(g) => Passed(g)

\* A link is heard on when its writer has written, for the live connection.
LEMMA HeardMoves ==
    ASSUME Inv, Next, NEW g \in Gens, Heard(g)'
    PROVE  \/ Heard(g)
           \/ g = companion'.gen /\ companion'.phase \in {"live", "closing"}
<1>1. PluginTyped /\ MacTyped /\ RelayTyped /\ PhoneTyped /\ Phases
  BY DEF Inv
<1>2. link'[g] = link[g] => Heard(g)
  BY DEF Heard
<1>3. CASE PhoneSteps \/ PluginSteps
  BY <1>2, <1>3, PhoneFrame, PluginFrame
<1>4. CASE RelaySteps
  <2>1. UpShrinks(g)
    BY <1>1, <1>4, RelayStepsDo DEF RelaysUp, Relays
  <2>2. QED
    BY <2>1 DEF UpShrinks, Heard
<1>5. CASE CompanionSteps
  <2>1. /\ link'[g].up = link[g].up
        /\ link'[g].handler = link[g].handler \/ link'[g].handler = "waiting"
        => Heard(g)
    BY DEF Heard
  <2>2. CASE Connect
    BY <1>1, <2>1, <2>2, ConnectDoes
  <2>3. CASE BindReturns
    <3>1. /\ link'[g].handler = link[g].handler
          /\ \/ link'[g].up = link[g].up
             \/ g = companion.gen /\ companion'.phase = "live"
      BY <1>1, <2>3, BindReturnsDoes
    <3>2. companion'.gen = companion.gen
      BY <1>1, <2>3, BindReturnsDoes DEF CompanionIs
    <3>3. QED
      BY <2>1, <3>1, <3>2
  <2>4. CASE ReaderTakes
    <3>1. companion.gen \in Gens
      BY <1>1, <2>4, TaskGens
    <3>2. link'[g].up = link[g].up /\ link'[g].handler = link[g].handler
      BY <1>1, <2>4, <3>1, ReaderTakesDoes
    <3>3. QED
      BY <2>1, <3>2
  <2>5. CASE WorkerTakes
    BY <1>1, <1>2, <2>5, TaskGens, WorkerTakesDoes
  <2>6. CASE WorkerSends
    BY <1>1, <1>2, <2>6, TaskGens, WorkerTyped, WorkerSendsDoes
  <2>7. CASE WorkerReturns
    BY <1>1, <1>2, <2>7, TaskGens, WorkerTyped, WorkerReturnsDoes
  <2>8. CASE WriterWrites
    <3>1. /\ companion.alive /\ UNCHANGED companion
          /\ link'[g].handler = link[g].handler
          /\ link'[g].up = link[g].up \/ g = companion.gen
      BY <1>1, <2>8, TaskGens, WriterWritesDoes
    <3>2. companion'.phase \in {"live", "closing"}
      BY <1>1, <3>1 DEF Phases
    <3>3. QED
      BY <2>1, <3>1, <3>2
  <2>9. CASE RelayLost \/ TaskFails
    BY <1>1, <1>2, <2>9, TaskGens, EndsOf, EndsDoes
  <2>10. CASE InvalidateReturns \/ RequestTimesOut
    BY <1>1, <1>2, <2>10, InvalidateReturnsDoes, RequestTimesOutDoes
  <2>11. CASE Leave \/ Restart
    BY <1>1, <2>1, <2>11, TaskGens, LeaveDoes, RestartDoes DEF LinkLeft
  <2>12. QED
    BY <1>5, <2>2, <2>3, <2>4, <2>5, <2>6, <2>7, <2>8, <2>9, <2>10, <2>11
       DEF CompanionSteps, CompanionNext
<1>6. QED
  BY <1>3, <1>4, <1>5, NextParts

\* Every step keeps the links that are heard on passed.
LEMMA HeardPassedStep ==
    ASSUME Inv, BoundFirst, Next
    PROVE  HeardPassed'
<1>1. LivePassed'
  BY LivePassedStep
<1>2. ASSUME NEW g \in Gens, Heard(g)'
      PROVE  Passed(g)'
  <2>1. CASE Heard(g)
    <3>1. Passed(g) /\ g \in 0..MaxGen
      BY <2>1 DEF BoundFirst, Heard, Gens
    <3>2. QED
      BY <3>1, PassedStays
  <2>2. CASE g = companion'.gen /\ companion'.phase \in {"live", "closing"}
    BY <1>1, <2>2 DEF LivePassed
  <2>3. QED
    BY <1>2, <2>1, <2>2, HeardMoves
<1>3. QED
  BY <1>2 DEF HeardPassed

\* No Mac at all is a generation that is always passed.
LEMMA NonePassed ==
    ASSUME PluginTyped, MacTyped
    PROVE  0 \in 0..MaxGen /\ Passed(0)
<1>1. companion.gen \in 0..MaxGen /\ desktop.bound \in 0..MaxGen
  BY CompanionFields, DesktopFields
<1>2. \A i \in DOMAIN bridge.toPlugin : 0 < bridge.toPlugin[i].gen
  BY ToPluginTyped DEF Gens
<1>3. QED
  BY <1>1, <1>2, CommandRoutingAssumption DEF Passed

\* Every step keeps the current Mac passed: it has said hello.
LEMMA MacPassedStep ==
    ASSUME Inv, BoundFirst, Next
    PROVE  Passed(mac)'
<1>1. PluginTyped /\ MacTyped /\ RelayTyped /\ PhoneTyped
  BY DEF Inv
<1>2. \/ mac' \in {mac, 0}
      \/ mac' \in Gens /\ link[mac'].up # <<>>
  <2>1. CASE RelaySteps
    BY <1>1, <2>1, RelayStepsDo DEF RelaysUp, Relays, MacMoves
  <2>2. QED
    BY <2>1, NextParts, PhoneFrame, CompanionFrame, PluginFrame
<1>3. PICK g : g = mac'
  OBVIOUS
<1>4. g \in 0..MaxGen /\ Passed(g)
  <2>1. mac \in 0..MaxGen /\ Passed(mac)
    BY <1>1 DEF RelayTyped, BoundFirst
  <2>2. g \in Gens /\ link[g].up # <<>> => g \in 0..MaxGen /\ Passed(g)
    BY DEF BoundFirst, Gens
  <2>3. QED
    BY <1>1, <1>2, <1>3, <2>1, <2>2, NonePassed
<1>5. Passed(g)'
  BY <1>4, PassedStays
<1>6. QED
  BY <1>3, <1>5 DEF Passed

\* What the phone sees and what it is about to see.
PhonePassed ==
    /\ Passed(phone.mac)
    /\ \A i \in DOMAIN phone.frames :
          phone.frames[i].type = "presence" => Passed(phone.frames[i].gen)

\* A frame of presence shows a connection that is passed.
Shown(frame) == frame.type = "presence" => frame.gen \in 0..MaxGen /\ Passed(frame.gen)

\* A frame that shows a passed connection goes on doing so.
LEMMA ShownStays ==
    ASSUME Inv, Next, NEW frame, Shown(frame)
    PROVE  Shown(frame)'
<1>1. CASE frame.type = "presence"
  <2>1. PICK g \in 0..MaxGen : g = frame.gen
    BY <1>1 DEF Shown
  <2>2. Passed(g)'
    BY <1>1, <2>1, PassedStays DEF Shown
  <2>3. QED
    BY <2>1, <2>2 DEF Shown
<1>2. QED
  BY <1>1 DEF Shown

\* So do all the frames the phone has.
LEMMA FramesShown ==
    ASSUME PhoneTyped, BoundFirst
    PROVE  \A i \in DOMAIN phone.frames : Shown(phone.frames[i])
<1>1. phone.frames \in Seq(PhoneFrames)
  BY FramesTyped
<1>2. ASSUME NEW i \in DOMAIN phone.frames
      PROVE  Shown(phone.frames[i])
  <2>1. phone.frames[i] \in PhoneFrames
    BY <1>1
  <2>2. phone.frames[i].type = "presence" => phone.frames[i].gen \in 0..MaxGen
    BY <2>1 DEF PhoneFrames, Receipts
  <2>3. QED
    BY <2>2 DEF Shown, BoundFirst
<1>3. QED
  BY <1>2

\* What the phone sees after a step: what it saw, a frame it had, or nothing.
LEMMA SeenPassed ==
    ASSUME Inv, BoundFirst, Next
    PROVE  \E g \in 0..MaxGen : g = phone'.mac /\ Passed(g)
<1>1. PluginTyped /\ MacTyped /\ RelayTyped /\ PhoneTyped
  BY DEF Inv
<1>2. phone.mac \in 0..MaxGen /\ Passed(phone.mac)
  BY <1>1 DEF PhoneTyped, Phones, BoundFirst
<1>3. phone'.mac = phone.mac => \E g \in 0..MaxGen : g = phone'.mac /\ Passed(g)
  BY <1>2
<1>4. CASE PhoneSteps
  <2>1. CASE \E d \in Deliveries : Submit(d) \/ Resend(d)
    BY <1>1, <1>3, <2>1, SubmitDoes, ResendDoes DEF Inv
  <2>2. CASE Reads
    <3>1. CASE phone'.mac \in {phone.mac, 0}
      BY <1>1, <1>3, <3>1, NonePassed
    <3>2. CASE /\ phone.frames # <<>> /\ Head(phone.frames).type = "presence"
               /\ phone'.mac = Head(phone.frames).gen
      <4>1. 1 \in DOMAIN phone.frames /\ Head(phone.frames) = phone.frames[1]
        BY <1>1, <3>2, FramesTyped
      <4>2. Shown(Head(phone.frames))
        BY <1>1, <4>1, FramesShown
      <4>3. QED
        BY <3>2, <4>2 DEF Shown
    <3>3. QED
      BY <2>2, <3>1, <3>2 DEF Reads
  <2>3. QED
    BY <1>1, <1>4, <2>1, <2>2, PhoneStepsDo
<1>5. CASE RelaySteps
  BY <1>1, <1>3, <1>5, RelayStepsDo DEF RelaysUp, Relays, Tells
<1>6. QED
  BY <1>3, <1>4, <1>5, NextParts, CompanionFrame, PluginFrame

\* The frames of the phone after a step: those it had, and one the relay tells it.
LEMMA FramesMove ==
    ASSUME Inv, BoundFirst, Next, NEW i \in DOMAIN phone'.frames
    PROVE  \E frame : frame = phone'.frames[i] /\ Shown(frame)'
<1>1. PluginTyped /\ MacTyped /\ RelayTyped /\ PhoneTyped
  BY DEF Inv
<1>2. PICK frame : frame = phone'.frames[i]
  OBVIOUS
<1> SUFFICES Shown(frame)
  BY <1>2, ShownStays
<1>3. \A j \in DOMAIN phone.frames : Shown(phone.frames[j])
  BY <1>1, FramesShown
<1>4. phone.frames \in Seq(PhoneFrames)
  BY <1>1, FramesTyped
<1>5. phone'.frames = phone.frames => Shown(frame)
  BY <1>2, <1>3
<1>6. CASE PhoneSteps
  <2>1. CASE \E d \in Deliveries : Submit(d) \/ Resend(d)
    BY <1>1, <1>5, <2>1, SubmitDoes, ResendDoes DEF Inv
  <2>2. CASE phone.frames # <<>> /\ phone'.frames = Tail(phone.frames)
    <3>1. i + 1 \in DOMAIN phone.frames /\ frame = phone.frames[i + 1]
      BY <1>2, <1>4, <2>2, TailWithin
    <3>2. QED
      BY <1>3, <3>1
  <2>3. CASE phone'.frames = <<>>
    BY <2>3
  <2>4. CASE phone'.frames = <<[type |-> "presence", gen |-> mac]>>
    <3>1. frame = [type |-> "presence", gen |-> mac]
      BY <1>2, <2>4
    <3>2. mac \in 0..MaxGen /\ Passed(mac)
      BY <1>1 DEF RelayTyped, BoundFirst
    <3>3. QED
      BY <3>1, <3>2 DEF Shown
  <2>5. QED
    BY <1>1, <1>5, <1>6, <2>1, <2>2, <2>3, <2>4, PhoneStepsDo DEF Reads
<1>7. CASE RelaySteps
  <2>1. CASE phone'.frames = phone.frames
    BY <1>5, <2>1
  <2>2. CASE \E told \in PhoneFrames :
                Tellable(told) /\ phone'.frames = Append(phone.frames, told)
    <3>1. PICK told \in PhoneFrames :
             Tellable(told) /\ phone'.frames = Append(phone.frames, told)
      BY <2>2
    <3>2. Shown(told)
      <4>1. CASE told = [type |-> "presence", gen |-> 0]
        BY <1>1, <4>1, NonePassed DEF Shown
      <4>2. CASE \E g \in Gens : /\ told = [type |-> "presence", gen |-> g]
                                 /\ link[g].up # <<>> \/ link[g].handler = "announcing"
        <5>1. PICK g \in Gens : /\ told = [type |-> "presence", gen |-> g]
                                /\ link[g].up # <<>> \/ link[g].handler = "announcing"
          BY <4>2
        <5>2. Passed(g) /\ g \in 0..MaxGen
          BY <5>1 DEF BoundFirst, Gens
        <5>3. QED
          BY <5>1, <5>2 DEF Shown
      <4>3. CASE told \in Receipts
        BY <4>3 DEF Receipts, Shown
      <4>4. QED
        BY <3>1, <4>1, <4>2, <4>3 DEF Tellable
    <3>3. i \in DOMAIN phone.frames \/ frame = told
      BY <1>2, <1>4, <3>1
    <3>4. i \in DOMAIN phone.frames => frame = phone.frames[i]
      BY <1>2, <1>4, <3>1
    <3>5. QED
      BY <1>3, <3>2, <3>3, <3>4
  <2>3. QED
    BY <1>1, <1>7, <2>1, <2>2, RelayStepsDo DEF RelaysUp, Relays, Tells
<1>8. QED
  BY <1>5, <1>6, <1>7, NextParts, CompanionFrame, PluginFrame

\* Every step keeps BoundFirst.
LEMMA BoundFirstStep ==
    ASSUME Inv, BoundFirst, Next
    PROVE  BoundFirst'
<1>1. BindsAscend' /\ RunsAreCommands'
  BY BindsAscendStep, RunsAreCommandsStep DEF BoundFirst, RunsAreCommands
<1>2. AnswersPassed' /\ LivePassed' /\ HeardPassed' /\ Passed(mac)'
  BY AnswersPassedStep, LivePassedStep, HeardPassedStep, MacPassedStep
<1>3. Passed(phone.mac)'
  <2>1. PICK g \in 0..MaxGen : g = phone'.mac /\ Passed(g)
    BY SeenPassed
  <2>2. Passed(g)'
    BY <2>1, PassedStays
  <2>3. QED
    BY <2>1, <2>2 DEF Passed
<1>4. ASSUME NEW i \in DOMAIN phone'.frames, phone'.frames[i].type = "presence"
      PROVE  Passed(phone.frames[i].gen)'
  <2>1. PICK frame : frame = phone'.frames[i] /\ Shown(frame)'
    BY FramesMove
  <2>2. PICK g : g = phone'.frames[i].gen /\ Passed(g)'
    BY <1>4, <2>1 DEF Shown
  <2>3. QED
    BY <2>2 DEF Passed
<1>5. QED
  BY <1>1, <1>2, <1>3, <1>4
     DEF BoundFirst, RunsAreCommands, AnswersPassed, LivePassed, HeardPassed, Heard

-----------------------------------------------------------------------------
(* A delivery that is sent once is in one place.                           *)

\* The receipts under way, by where they are.
Going(receipt) ==
    \/ \E i \in DOMAIN outbound : outbound[i] = receipt
    \/ receipt # Hello /\ \E g \in Gens : InUp(g, receipt)
    \/ receipt.type = "receipt" /\ \E i \in DOMAIN phone.frames : phone.frames[i] = receipt

\* The same as ReceiptsUnderWay, before and after a step.
LEMMA UnderWayIsGoing ==
    ASSUME NEW receipt
    PROVE  /\ receipt \in ReceiptsUnderWay <=> Going(receipt)
           /\ (receipt \in ReceiptsUnderWay)' <=> Going(receipt)'
<1> DEFINE Frames == {frame \in Range(phone.frames) : frame.type = "receipt"}
           Ups == UNION {Range(link[g].up) \ {Hello} : g \in Gens}
<1>1. receipt \in Range(outbound) <=> \E i \in DOMAIN outbound : outbound[i] = receipt
  BY DEF Range
<1>2. receipt \in Ups <=> receipt # Hello /\ \E g \in Gens : InUp(g, receipt)
  BY DEF Range, InUp
<1>3. receipt \in Frames <=>
         receipt.type = "receipt" /\ \E i \in DOMAIN phone.frames : phone.frames[i] = receipt
  BY DEF Range
<1>4. receipt \in ReceiptsUnderWay <=>
         receipt \in Range(outbound) \/ receipt \in Ups \/ receipt \in Frames
  <2>1. ReceiptsUnderWay = Range(outbound) \cup Ups \cup Frames
    BY DEF ReceiptsUnderWay
  <2> HIDE DEF Ups, Frames
  <2>2. QED
    BY <2>1
<1>5. receipt \in ReceiptsUnderWay <=> Going(receipt)
  BY <1>1, <1>2, <1>3, <1>4 DEF Going
<1>6. (receipt \in Range(outbound))' <=>
         \E i \in DOMAIN outbound' : outbound'[i] = receipt
  BY DEF Range
<1>7. (receipt \in Ups)' <=> receipt # Hello /\ \E g \in Gens : InUp(g, receipt)'
  BY DEF Range, InUp
<1>8. (receipt \in Frames)' <=> /\ receipt.type = "receipt"
                               /\ \E i \in DOMAIN phone'.frames : phone'.frames[i] = receipt
  BY DEF Range
<1>9. (receipt \in ReceiptsUnderWay)' <=>
         (receipt \in Range(outbound))' \/ (receipt \in Ups)' \/ (receipt \in Frames)'
  <2>1. ReceiptsUnderWay' = Range(outbound)' \cup Ups' \cup Frames'
    BY DEF ReceiptsUnderWay
  <2> HIDE DEF Ups, Frames
  <2>2. QED
    BY <2>1
<1>10. (receipt \in ReceiptsUnderWay)' <=> Going(receipt)'
  BY <1>6, <1>7, <1>8, <1>9 DEF Going
<1>11. QED
  BY <1>5, <1>10

\* What the Companion does to the receipts.
LEMMA CompanionReceipts ==
    ASSUME Inv, CompanionSteps
    PROVE  /\ \A g \in Gens : \/ link'[g].up = link[g].up
                              \/ link'[g].up = Append(link[g].up, Hello)
                              \/ outbound # <<>> /\ link'[g].up = Append(link[g].up, Head(outbound))
           /\ \/ outbound' = outbound \/ outbound' = <<>>
              \/ outbound # <<>> /\ outbound' = Tail(outbound)
              \/ \E receipt \in Receipts : outbound' = Append(outbound, receipt)
<1>1. PluginTyped /\ MacTyped /\ RelayTyped /\ Phases
  BY DEF Inv
<1>2. companion.gen \in Gens =>
         \A d \in Deliveries, result \in Outcomes : Receipt(d, result) \in Receipts
  BY DEF Receipt, Current, Receipts
<1>3. "rejected" \in Outcomes /\ "duplicate" \in Outcomes
  BY DEF Outcomes, Remembered
<1>4. CASE Connect
  BY <1>1, <1>4, ConnectDoes
<1>5. CASE BindReturns
  BY <1>1, <1>5, BindReturnsDoes
<1>6. CASE ReaderTakes
  <2>1. companion.gen \in Gens
    BY <1>1, <1>6, TaskGens
  <2>2. \A g \in Gens : link'[g].up = link[g].up
    BY <1>1, <1>6, <2>1, ReaderTakesDoes
  <2>3. outbound' = outbound
        \/ \E d \in Deliveries : outbound' = Append(outbound, Receipt(d, "rejected"))
    BY <1>1, <1>6, <2>1, ReaderTakesDoes
  <2>4. QED
    BY <1>2, <1>3, <2>1, <2>2, <2>3
<1>7. CASE WorkerTakes
  <2>1. companion.gen \in Gens
    BY <1>1, <1>7, TaskGens
  <2>2. UNCHANGED link
    BY <1>1, <1>7, <2>1, WorkerTakesDoes
  <2>3. outbound' = outbound
        \/ \E d \in Deliveries, result \in Outcomes :
              outbound' = Append(outbound, Receipt(d, result))
    BY <1>1, <1>3, <1>7, <2>1, WorkerTakesDoes
  <2>4. QED
    BY <1>2, <2>1, <2>2, <2>3
<1>8. CASE WorkerSends
  <2>1. companion.gen \in Gens
    BY <1>1, <1>8, TaskGens
  <2>2. UNCHANGED link
    BY <1>1, <1>8, <2>1, WorkerSendsDoes, WorkerTyped
  <2>3. outbound' = outbound
        \/ \E d \in Deliveries : outbound' = Append(outbound, Receipt(d, "rejected"))
    BY <1>1, <1>8, <2>1, WorkerSendsDoes, WorkerTyped
  <2>4. QED
    BY <1>2, <1>3, <2>1, <2>2, <2>3
<1>9. CASE WorkerReturns
  <2>1. companion.gen \in Gens
    BY <1>1, <1>9, TaskGens
  <2>2. UNCHANGED link
    BY <1>1, <1>9, <2>1, WorkerReturnsDoes, WorkerTyped
  <2>3. outbound' = outbound
        \/ \E d \in Deliveries, result \in Outcomes :
              outbound' = Append(outbound, Receipt(d, result))
    BY <1>1, <1>9, <2>1, WorkerReturnsDoes, WorkerTyped
  <2>4. QED
    BY <1>2, <2>1, <2>2, <2>3
<1>10. CASE WriterWrites
  BY <1>1, <1>10, TaskGens, WriterWritesDoes
<1>11. CASE RelayLost \/ TaskFails
  BY <1>1, <1>11, TaskGens, EndsOf, EndsDoes
<1>12. CASE InvalidateReturns \/ RequestTimesOut
  BY <1>1, <1>12, InvalidateReturnsDoes, RequestTimesOutDoes
<1>13. CASE Leave \/ Restart
  BY <1>1, <1>13, TaskGens, LeaveDoes, RestartDoes DEF LinkLeft
<1>14. QED
  BY <1>4, <1>5, <1>6, <1>7, <1>8, <1>9, <1>10, <1>11, <1>12, <1>13
     DEF CompanionSteps, CompanionNext

\* No step makes a receipt but the Companion's, which appends it to its outbound queue.
LEMMA ReceiptsMove ==
    ASSUME Inv, Next, NEW receipt, (receipt \in ReceiptsUnderWay)'
    PROVE  \/ receipt \in ReceiptsUnderWay
           \/ receipt \in Receipts /\ outbound' = Append(outbound, receipt)
<1>1. PluginTyped /\ MacTyped /\ RelayTyped /\ PhoneTyped
  BY DEF Inv
<1>2. Going(receipt)'
  BY UnderWayIsGoing
<1> DEFINE Goal == \/ Going(receipt)
                   \/ receipt \in Receipts /\ outbound' = Append(outbound, receipt)
<1> SUFFICES Goal
  BY UnderWayIsGoing
<1>3. Hello \notin Receipts
      /\ \A r \in PhoneFrames : r.type = "receipt" => r \in Receipts /\ r # Hello
  BY DEF Hello, Receipts, PhoneFrames
<1>4. \A g \in Gens : UpShrinks(g) => (InUp(g, receipt)' => InUp(g, receipt))
  BY DEF UpShrinks
<1>5. UNCHANGED <<outbound, phone>> /\ (\A g \in Gens : InUp(g, receipt)' => InUp(g, receipt))
        => Goal
  BY <1>2 DEF Going
<1>6. UNCHANGED <<link, outbound>> =>
         Going(receipt) \/ (receipt.type = "receipt" /\
            \E i \in DOMAIN phone'.frames : phone'.frames[i] = receipt)
  BY <1>2 DEF Going, InUp
<1>7. CASE PhoneSteps
  <2>1. ASSUME NEW i \in DOMAIN phone'.frames, phone'.frames[i] = receipt,
               receipt.type = "receipt"
        PROVE  \E j \in DOMAIN phone.frames : phone.frames[j] = receipt
    <3>1. phone.frames \in Seq(PhoneFrames)
      BY <1>1, FramesTyped
    <3>2. CASE phone'.frames = phone.frames
      BY <2>1, <3>2
    <3>3. CASE phone.frames # <<>> /\ phone'.frames = Tail(phone.frames)
      BY <2>1, <3>1, <3>3, TailWithin
    <3>4. CASE phone'.frames = <<>>
      BY <2>1, <3>4
    <3>5. CASE phone'.frames = <<[type |-> "presence", gen |-> mac]>>
      BY <2>1, <3>5
    <3>6. phone' = phone \/ Reads
      BY <1>1, <1>7, PhoneStepsDo, SubmitDoes, ResendDoes DEF Inv
    <3>7. QED
      BY <3>2, <3>3, <3>4, <3>5, <3>6 DEF Reads
  <2>2. UNCHANGED <<link, outbound>>
    BY <1>7, PhoneFrame
  <2>3. QED
    BY <1>6, <2>1, <2>2 DEF Going
<1>8. CASE RelaySteps
  <2>1. (\A g \in Gens : UpShrinks(g)) /\ Tells /\ UNCHANGED outbound
    BY <1>1, <1>8, RelayStepsDo, RelayFrame DEF RelaysUp, Relays
  <2>2. \A g \in Gens : InUp(g, receipt)' => InUp(g, receipt)
    BY <1>4, <2>1
  <2>3. CASE phone'.frames = phone.frames
    BY <1>2, <2>1, <2>2, <2>3 DEF Going
  <2>4. CASE \E told \in PhoneFrames :
                Tellable(told) /\ phone'.frames = Append(phone.frames, told)
    <3>1. PICK told \in PhoneFrames :
             Tellable(told) /\ phone'.frames = Append(phone.frames, told)
      BY <2>4
    <3>2. phone.frames \in Seq(PhoneFrames)
      BY <1>1, FramesTyped
    <3>3. \A i \in DOMAIN phone'.frames :
             \/ phone'.frames[i] = told
             \/ i \in DOMAIN phone.frames /\ phone'.frames[i] = phone.frames[i]
      BY <3>1, <3>2
    <3>4. told.type = "receipt" => told # Hello /\ \E g \in Gens : InUp(g, told)
      BY <1>3, <3>1 DEF Tellable
    <3>5. QED
      BY <1>2, <2>1, <2>2, <3>3, <3>4 DEF Going
  <2>5. QED
    BY <2>1, <2>3, <2>4 DEF Tells
<1>9. CASE CompanionSteps
  <2>1. UNCHANGED phone
    BY <1>9, CompanionFrame
  <2>2. outbound \in Seq(Receipts)
    BY <1>1, CompanionFields
  <2>3. ASSUME NEW g \in Gens, InUp(g, receipt)', receipt # Hello
        PROVE  \/ InUp(g, receipt)
               \/ \E i \in DOMAIN outbound : outbound[i] = receipt
    <3>1. link[g].up \in Seq({Hello} \cup Receipts)
      BY <1>1, LinkTyped
    <3>2. PICK i \in DOMAIN link'[g].up : link'[g].up[i] = receipt
      BY <2>3 DEF InUp
    <3>3. CASE link'[g].up = link[g].up
      BY <3>2, <3>3 DEF InUp
    <3>4. CASE link'[g].up = Append(link[g].up, Hello)
      <4>1. i \in DOMAIN link[g].up /\ link'[g].up[i] = link[g].up[i]
        BY <2>3, <3>1, <3>2, <3>4
      <4>2. QED
        BY <3>2, <4>1 DEF InUp
    <3>5. CASE outbound # <<>> /\ link'[g].up = Append(link[g].up, Head(outbound))
      <4>1. 1 \in DOMAIN outbound /\ outbound[1] = Head(outbound)
        BY <2>2, <3>5
      <4>2. CASE receipt = Head(outbound)
        BY <4>1, <4>2
      <4>3. CASE receipt # Head(outbound)
        <5>1. Head(outbound) \in Receipts
          BY <2>2, <3>5
        <5>2. i \in DOMAIN link[g].up /\ link'[g].up[i] = link[g].up[i]
          BY <3>1, <3>2, <3>5, <4>3, <5>1
        <5>3. QED
          BY <3>2, <5>2 DEF InUp
      <4>4. QED
        BY <4>2, <4>3
    <3>6. QED
      BY <1>9, <3>3, <3>4, <3>5, CompanionReceipts
  <2>4. ASSUME NEW i \in DOMAIN outbound', outbound'[i] = receipt
        PROVE  \/ \E j \in DOMAIN outbound : outbound[j] = receipt
               \/ receipt \in Receipts /\ outbound' = Append(outbound, receipt)
    <3>1. CASE outbound' = outbound \/ outbound' = <<>>
      BY <2>4, <3>1
    <3>2. CASE outbound # <<>> /\ outbound' = Tail(outbound)
      BY <2>2, <2>4, <3>2, TailWithin
    <3>3. CASE \E r \in Receipts : outbound' = Append(outbound, r)
      <4>1. PICK r \in Receipts : outbound' = Append(outbound, r)
        BY <3>3
      <4>2. i \in DOMAIN outbound \/ receipt = r
        BY <2>2, <2>4, <4>1
      <4>3. i \in DOMAIN outbound => outbound[i] = receipt
        BY <2>2, <2>4, <4>1
      <4>4. QED
        BY <4>1, <4>2, <4>3
    <3>4. QED
      BY <1>9, <3>1, <3>2, <3>3, CompanionReceipts
  <2>5. QED
    BY <1>2, <2>1, <2>3, <2>4 DEF Going
<1>10. CASE PluginSteps
  BY <1>2, <1>10, PluginFrame DEF Going, InUp
<1>11. QED
  BY <1>7, <1>8, <1>9, <1>10, NextParts

\* A queue that shrinks holds no delivery that it did not hold, nor one more often.
Shorter(before, after) ==
    \/ after \in {before, <<>>}
    \/ before # <<>> /\ after = Tail(before)
Offset(before, after) == IF before # <<>> /\ after = Tail(before) THEN 1 ELSE 0

\* Where the elements of a shorter queue were.
LEMMA ShorterIs ==
    ASSUME NEW S, NEW before \in Seq(S), NEW after, Shorter(before, after)
    PROVE  /\ Offset(before, after) \in {0, 1}
           /\ \A i \in DOMAIN after :
                 /\ i \in Nat /\ i + Offset(before, after) \in DOMAIN before
                 /\ after[i] = before[i + Offset(before, after)]
<1>1. CASE before # <<>> /\ after = Tail(before)
  <2>1. after \in Seq(S)
    BY <1>1
  <2>2. \A i \in DOMAIN after : i \in Nat
    BY <2>1
  <2>3. QED
    BY <1>1, <2>2, TailWithin DEF Offset
<1>2. CASE ~(before # <<>> /\ after = Tail(before))
  <2>1. Offset(before, after) = 0
    BY <1>2 DEF Offset
  <2>2. after \in {before, <<>>}
    BY <1>2 DEF Shorter
  <2>3. \A i \in DOMAIN after : i \in Nat /\ i \in DOMAIN before /\ after[i] = before[i]
    BY <2>2
  <2>4. QED
    BY <2>1, <2>3
<1>3. QED
  BY <1>1, <1>2

\* A shorter queue is not a longer one.
LEMMA ShorterIsNoLonger ==
    ASSUME NEW S, NEW before \in Seq(S), NEW after, Shorter(before, after), NEW x \in S
    PROVE  after # Append(before, x)
<1>1. Len(Append(before, x)) = Len(before) + 1 /\ Len(before) \in Nat
  OBVIOUS
<1>2. CASE after \in {before, <<>>}
  BY <1>1, <1>2
<1>3. CASE before # <<>> /\ after = Tail(before)
  <2>1. Len(after) = Len(before) - 1
    BY <1>3
  <2>2. QED
    BY <1>1, <2>1
<1>4. QED
  BY <1>2, <1>3 DEF Shorter

\* Links that shrink hold no delivery anew.
LEMMA LinkShrinks ==
    ASSUME RelayTyped, \A g \in Gens : Shorter(link[g].down, link'[g].down),
           NEW d \in Deliveries
    PROVE  (OnLink(d)' => OnLink(d)) /\ (LinkedOnce(d) => LinkedOnce(d)')
<1> DEFINE K(g) == Offset(link[g].down, link'[g].down)
<1>1. ASSUME NEW g \in Gens
      PROVE  /\ K(g) \in {0, 1}
             /\ \A i \in DOMAIN link'[g].down :
                   /\ i \in Nat /\ i + K(g) \in DOMAIN link[g].down
                   /\ link'[g].down[i] = link[g].down[i + K(g)]
  <2>1. link[g].down \in Seq(Deliveries)
    BY LinkTyped
  <2>2. QED
    BY <2>1, ShorterIs
<1> HIDE DEF K
<1>2. OnLink(d)' => OnLink(d)
  BY <1>1 DEF OnLink
<1>3. ASSUME LinkedOnce(d), NEW g \in Gens, NEW h \in Gens,
             NEW i \in DOMAIN link'[g].down, NEW j \in DOMAIN link'[h].down,
             link'[g].down[i] = d, link'[h].down[j] = d
      PROVE  g = h /\ i = j
  <2>1. g = h /\ i + K(g) = j + K(h)
    BY <1>1, <1>3 DEF LinkedOnce
  <2>2. i \in Nat /\ j \in Nat /\ K(g) = K(h) /\ K(g) \in {0, 1}
    BY <1>1, <2>1
  <2>3. QED
    BY <2>1, <2>2
<1>4. QED
  BY <1>2, <1>3 DEF LinkedOnce

\* A Companion's queue that shrinks holds no delivery anew.
LEMMA QueuedShrinks ==
    ASSUME MacTyped, Shorter(companion.queue, companion'.queue), NEW d \in Deliveries
    PROVE  (Queued(d)' => Queued(d)) /\ (QueuedOnce(d) => QueuedOnce(d)')
<1> DEFINE k == Offset(companion.queue, companion'.queue)
<1>1. /\ k \in {0, 1}
      /\ \A i \in DOMAIN companion'.queue :
            /\ i \in Nat /\ i + k \in DOMAIN companion.queue
            /\ companion'.queue[i] = companion.queue[i + k]
  <2>1. companion.queue \in Seq(Deliveries)
    BY CompanionFields
  <2>2. QED
    BY <2>1, ShorterIs
<1> HIDE DEF k
<1>2. Queued(d)' => Queued(d)
  BY <1>1 DEF Queued
<1>3. ASSUME QueuedOnce(d), NEW i \in DOMAIN companion'.queue, NEW j \in DOMAIN companion'.queue,
             companion'.queue[i] = d, companion'.queue[j] = d
      PROVE  i = j
  <2>1. i + k = j + k
    BY <1>1, <1>3 DEF QueuedOnce
  <2>2. QED
    BY <1>1, <2>1
<1>4. QED
  BY <1>2, <1>3 DEF QueuedOnce

\* The plugin's queue that shrinks holds no delivery anew.
LEMMA AtPluginShrinks ==
    ASSUME QueueShrinks, NEW d \in Deliveries
    PROVE  AtPlugin(d)' => AtPlugin(d)
BY DEF QueueShrinks, AtPlugin

\* A delivery that moves nowhere.
Rests(d) ==
    /\ asked'[d] <= asked[d]
    /\ OnLink(d)' => OnLink(d)
    /\ LinkedOnce(d) => LinkedOnce(d)'
    /\ Queued(d)' => Queued(d)
    /\ QueuedOnce(d) => QueuedOnce(d)'
    /\ Held(d)' => Held(d)
    /\ AtPlugin(d)' => AtPlugin(d)
    /\ DealtWith(d)' => DealtWith(d)

\* A delivery that moves nowhere stays where it is.
LEMMA RestsInPlace ==
    ASSUME NEW d \in Deliveries, Rests(d), asked[d] \in Nat, asked'[d] \in Nat
    PROVE  (Nowhere(d) => Nowhere(d)') /\ (OnePlace(d) => OnePlace(d)')
BY DEF Rests, Nowhere, OnePlace

\* What is said of a delivery, when nothing new is said of it that is not so.
LEMMA SaidStays ==
    ASSUME Inv, Next, NEW d \in Deliveries, SaidIsSo(d), executed'[d] = executed[d],
           command'[d].kind = command[d].kind,
           \A receipt \in Receipts : outbound' = Append(outbound, receipt) /\ receipt.d = d =>
                                        Means(receipt.result, d) /\ ~Running(d)',
           \A r \in bridge'.toServer : IsCommand(r.request, d) =>
              \/ r \in bridge.toServer
              \/ (r.result # "error" => Means(r.result, d)) /\ ~Running(d)',
           \A run \in desktop'.running : IsCommand(run.request, d) =>
                                          run \in desktop.running,
           command'[d].status = "desktop_accepted" =>
              \/ command[d].status = "desktop_accepted"
              \/ (executed[d] > 0 \/ command[d].kind \in Resolvable) /\ ~Running(d)'
    PROVE  SaidIsSo(d)'
<1>1. \A result : Means(result, d)' <=> Means(result, d)
  BY DEF Means
<1>2. ASSUME NEW receipt, (receipt \in ReceiptsUnderWay)', receipt.d = d
      PROVE  \/ receipt \in ReceiptsUnderWay
             \/ Means(receipt.result, d)' /\ ~Running(d)'
  <2>1. CASE receipt \in Receipts /\ outbound' = Append(outbound, receipt)
    BY <1>1, <1>2, <2>1
  <2>2. QED
    BY <1>2, <2>1, ReceiptsMove
<1>3. Running(d)' => Running(d)
  BY DEF Running
<1>4. RunsAlone(d)
  BY DEF SaidIsSo
<1>5. Running(d)' => Unsaid(d)'
  BY <1>2, <1>3, <1>4 DEF RunsAlone, Unsaid
<1>6. RunsAlone(d)'
  BY <1>3, <1>4, <1>5 DEF RunsAlone
<1>7. \A receipt \in ReceiptsUnderWay' : receipt.d = d => Means(receipt.result, d)'
  BY <1>1, <1>2 DEF SaidIsSo
<1>8. \A r \in bridge'.toServer :
         IsCommand(r.request, d) /\ r.result # "error" => Means(r.result, d)'
  BY <1>1 DEF SaidIsSo
<1>9. command'[d].status = "desktop_accepted" =>
         executed'[d] > 0 \/ command'[d].kind \in Resolvable
  BY DEF SaidIsSo
<1>10. QED
  BY <1>6, <1>7, <1>8, <1>9 DEF SaidIsSo

\* The tickets over a step of the Companion.
LEMMA CompanionDealt ==
    ASSUME Inv, CompanionSteps, Next, NEW d \in Deliveries, DealtWith(d)'
    PROVE  \/ DealtWith(d)
           \/ companion'.results[d] # "none"
           \/ \E receipt \in Receipts : outbound' = Append(outbound, receipt) /\ receipt.d = d
<1>1. UNCHANGED <<command, desktop, executed>> /\ bridge'.toServer \subseteq bridge.toServer
  BY CompanionFrame, CompanionStepsDo DEF Inv, BridgeKept
<1>2. ASSUME NEW receipt, (receipt \in ReceiptsUnderWay)', receipt.d = d
      PROVE  \/ DealtWith(d)
             \/ \E r \in Receipts : outbound' = Append(outbound, r) /\ r.d = d
  BY <1>2, ReceiptsMove DEF DealtWith
<1>3. QED
  BY <1>1, <1>2 DEF DealtWith, Running

\* What every step of the Companion leaves as it is.
LEMMA CompanionTicket ==
    ASSUME Inv, OneTicket, CompanionSteps, Next, NEW d \in Deliveries
    PROVE  /\ UNCHANGED <<command, asked, executed>>
           /\ asked[d] \in Nat
           /\ /\ command[d].sends = 1
              /\ \A receipt \in Receipts :
                    outbound' = Append(outbound, receipt) /\ receipt.d = d =>
                       Means(receipt.result, d) /\ ~Running(d)
              => SaidIsSo(d)'
           /\ Rests(d) =>
                 /\ command[d].status = "none" => Nowhere(d)'
                 /\ command[d].sends = 1 => OnePlace(d)'
<1>1. UNCHANGED <<command, asked, executed, desktop>>
      /\ bridge'.toServer \subseteq bridge.toServer
  BY CompanionFrame, CompanionStepsDo DEF Inv, BridgeKept
<1>2. asked[d] \in Nat
  BY CommandRoutingAssumption DEF Inv, PhoneTyped
<1>3. Ticket(d)
  BY DEF OneTicket
<1>4. Running(d)' <=> Running(d)
  BY <1>1 DEF Running
<1>5. QED
  BY <1>1, <1>2, <1>3, <1>4, RestsInPlace, SaidStays DEF Ticket

\* The commands on a link go, or are taken from its head.
LEMMA CompanionLinks ==
    ASSUME Inv, CompanionSteps, NEW d \in Deliveries
    PROVE  (OnLink(d)' => OnLink(d)) /\ (LinkedOnce(d) => LinkedOnce(d)')
<1>1. PluginTyped /\ MacTyped /\ RelayTyped /\ Phases
  BY DEF Inv
<1> DEFINE Goal == \A g \in Gens : Shorter(link[g].down, link'[g].down)
<1> SUFFICES Goal
  BY <1>1, LinkShrinks
<1>2. (\A g \in Gens : link'[g].down \in {link[g].down, <<>>}) => Goal
  BY DEF Shorter
<1>3. UNCHANGED link => Goal
  BY <1>2
<1> HIDE DEF Goal
<1>4. CASE Connect \/ BindReturns
  BY <1>1, <1>2, <1>4, ConnectDoes, BindReturnsDoes
<1>5. CASE ReaderTakes
  <2>1. companion.gen \in Gens
    BY <1>1, <1>5, TaskGens
  <2>2. /\ link[companion.gen].down # <<>>
        /\ link'[companion.gen].down = Tail(link[companion.gen].down)
        /\ \A h \in Gens \ {companion.gen} : link'[h] = link[h]
    BY <1>1, <1>5, <2>1, ReaderTakesDoes
  <2>3. QED
    BY <2>2 DEF Goal, Shorter
<1>6. CASE WorkerTakes
  BY <1>1, <1>3, <1>6, TaskGens, WorkerTakesDoes
<1>7. CASE WorkerSends
  BY <1>1, <1>3, <1>7, TaskGens, WorkerTyped, WorkerSendsDoes
<1>8. CASE WorkerReturns
  BY <1>1, <1>3, <1>8, TaskGens, WorkerTyped, WorkerReturnsDoes
<1>9. CASE WriterWrites
  BY <1>1, <1>2, <1>9, TaskGens, WriterWritesDoes
<1>10. CASE RelayLost \/ TaskFails
  BY <1>1, <1>3, <1>10, TaskGens, EndsOf, EndsDoes
<1>11. CASE InvalidateReturns \/ RequestTimesOut
  BY <1>1, <1>3, <1>11, InvalidateReturnsDoes, RequestTimesOutDoes
<1>12. CASE Leave \/ Restart
  BY <1>1, <1>2, <1>12, TaskGens, LeaveDoes, RestartDoes DEF LinkLeft
<1>13. QED
  BY <1>4, <1>5, <1>6, <1>7, <1>8, <1>9, <1>10, <1>11, <1>12
     DEF CompanionSteps, CompanionNext

\* A step that gives no delivery a new place.
Quiet ==
    /\ companion'.queue \in {companion.queue, <<>>}
    /\ companion'.worker.pc = "yielded" => companion'.worker = companion.worker
    /\ \A d \in Deliveries : companion'.results[d] # "none" => companion.results[d] # "none"
    /\ Shorter(outbound, outbound')

\* The steps that are not quiet: the reader's and the worker's.
LEMMA CompanionSorts ==
    ASSUME Inv, CompanionSteps
    PROVE  Quiet \/ ReaderTakes \/ WorkerTakes \/ WorkerSends \/ WorkerReturns
<1>1. PluginTyped /\ MacTyped /\ RelayTyped /\ Phases
  BY DEF Inv
<1>2. ASSUME Shorter(outbound, outbound'), companion'.queue \in {companion.queue, <<>>},
             companion'.worker.pc = "yielded" => companion'.worker = companion.worker,
             companion'.results \in {companion.results, NoResults}
      PROVE  Quiet
  BY <1>2 DEF Quiet, NoResults
<1>3. /\ outbound' = outbound => Shorter(outbound, outbound')
      /\ outbound' = <<>> => Shorter(outbound, outbound')
  BY DEF Shorter
<1>4. NoWork.pc # "yielded"
  BY DEF NoWork
<1>5. CASE Connect
  BY <1>1, <1>2, <1>3, <1>5, ConnectDoes DEF CompanionIs
<1>6. CASE BindReturns
  BY <1>1, <1>2, <1>3, <1>6, BindReturnsDoes DEF CompanionIs
<1>7. CASE WriterWrites
  <2>1. companion.gen \in Gens
    BY <1>1, <1>7, TaskGens
  <2>2. Shorter(outbound, outbound') /\ UNCHANGED companion
    BY <1>1, <1>7, <2>1, WriterWritesDoes DEF Shorter
  <2>3. QED
    BY <2>2 DEF Quiet
<1>8. CASE RelayLost \/ TaskFails
  <2>1. companion.gen \in Gens
    BY <1>1, <1>8, TaskGens
  <2>2. PICK tasksRun \in BOOLEAN : Ends(tasksRun)
    BY <1>8, EndsOf
  <2>3. QED
    BY <1>1, <1>2, <1>3, <2>1, <2>2, EndsDoes DEF CompanionIs
<1>9. CASE InvalidateReturns
  BY <1>1, <1>2, <1>3, <1>9, InvalidateReturnsDoes DEF CompanionIs
<1>10. CASE Leave
  BY <1>1, <1>2, <1>3, <1>4, <1>10, TaskGens, LeaveDoes DEF CompanionIs
<1>11. CASE Restart
  BY <1>1, <1>2, <1>3, <1>4, <1>11, RestartDoes DEF CompanionIs
<1>12. CASE RequestTimesOut
  <2>1. /\ outbound' = outbound
        /\ \/ CompanionIs(companion.gen, "leaving", FALSE, companion.queue,
                          companion.worker, companion.results)
           \/ CompanionIs(companion.gen, companion.phase, companion.alive,
                          companion.queue, [pc |-> "failed", d |-> companion.worker.d],
                          companion.results)
    BY <1>1, <1>12, RequestTimesOutDoes
  <2>2. /\ companion'.queue = companion.queue /\ companion'.results = companion.results
        /\ companion'.worker = companion.worker \/ companion'.worker.pc = "failed"
    BY <2>1 DEF CompanionIs
  <2>3. QED
    BY <1>2, <1>3, <2>1, <2>2
<1>13. QED
  BY <1>5, <1>6, <1>7, <1>8, <1>9, <1>10, <1>11, <1>12 DEF CompanionSteps, CompanionNext

\* A quiet step keeps every ticket.
LEMMA QuietTicket ==
    ASSUME Inv, OneTicket, CompanionSteps, Next, Quiet, NEW d \in Deliveries,
           AtPlugin(d)' => AtPlugin(d)
    PROVE  Ticket(d)'
<1>1. MacTyped /\ outbound \in Seq(Receipts)
  BY CompanionFields DEF Inv
<1>2. \A receipt \in Receipts : outbound' # Append(outbound, receipt)
  BY <1>1, ShorterIsNoLonger DEF Quiet
<1>3. companion'.results[d] # "none" => DealtWith(d)
  BY DEF Quiet, DealtWith
<1>4. DealtWith(d)' => DealtWith(d)
  BY <1>2, <1>3, CompanionDealt
<1>5. (Queued(d)' => Queued(d)) /\ (QueuedOnce(d) => QueuedOnce(d)')
  BY <1>1, QueuedShrinks DEF Quiet, Shorter
<1>6. Held(d)' => Held(d)
  BY DEF Quiet, Held
<1>7. UNCHANGED <<command, asked>> /\ asked[d] \in Nat
  BY CompanionTicket
<1>8. Rests(d)
  BY <1>4, <1>5, <1>6, <1>7, CompanionLinks DEF Rests
<1>9. QED
  BY <1>2, <1>7, <1>8, CompanionTicket DEF Ticket

\* A delivery that nobody has dealt with was not done: to refuse it is the truth.
LEMMA Refusal ==
    ASSUME Inv, NEW d \in Deliveries, ~DealtWith(d)
    PROVE  Means("rejected", d) /\ ~Running(d)
<1>1. executed[d] \in Nat /\ ~(executed[d] > 0)
  BY CommandRoutingAssumption, BridgeFields DEF Inv, DealtWith
<1>2. QED
  BY <1>1 DEF Means, DealtWith

\* The fields of a receipt.
LEMMA RefusalIs ==
    ASSUME NEW d \in Deliveries, NEW result
    PROVE  Receipt(d, result).d = d /\ Receipt(d, result).result = result
BY DEF Receipt

\* The Companion says something of delivery d, and nothing of another.
LEMMA OtherIsQuiet ==
    ASSUME Inv, CompanionSteps, Next, NEW d \in Deliveries, NEW result \in Outcomes,
           companion.gen \in Gens,
           outbound' \in {outbound, Append(outbound, Receipt(d, result))},
           NEW receipt \in Receipts, outbound' = Append(outbound, receipt)
    PROVE  receipt.d = d /\ receipt.result = result
<1>1. outbound \in Seq(Receipts) /\ Receipt(d, result) \in Receipts
  BY CompanionFields DEF Inv, Receipt, Current, Receipts
<1>2. Len(Append(outbound, receipt)) = Len(outbound) + 1 /\ Len(outbound) \in Nat
  BY <1>1
<1>3. outbound' # outbound
  BY <1>2
<1>4. Append(outbound, receipt)[Len(outbound) + 1] = receipt
      /\ Append(outbound, Receipt(d, result))[Len(outbound) + 1] = Receipt(d, result)
  BY <1>1
<1>5. receipt = Receipt(d, result)
  BY <1>3, <1>4
<1>6. QED
  BY <1>5, RefusalIs

\* The reader takes a command off its link: into the queue, or, the queue being full, it
\* is refused.
LEMMA ReaderTicket ==
    ASSUME Inv, OneTicket, ReaderTakes, CompanionSteps, Next, NEW e \in Deliveries
    PROVE  Ticket(e)'
<1>1. PluginTyped /\ MacTyped /\ RelayTyped /\ Phases
  BY DEF Inv
<1>2. companion.gen \in Gens
  BY <1>1, TaskGens
<1>3. PICK d \in Deliveries :
         /\ link[companion.gen].down # <<>> /\ d = Head(link[companion.gen].down)
         /\ UNCHANGED bridge
         /\ link'[companion.gen].down = Tail(link[companion.gen].down)
         /\ \A h \in Gens \ {companion.gen} : link'[h] = link[h]
         /\ companion'.worker = companion.worker /\ companion'.results = companion.results
         /\ \/ /\ companion'.queue = Append(companion.queue, d) /\ outbound' = outbound
            \/ /\ UNCHANGED companion
               /\ outbound' = Append(outbound, Receipt(d, "rejected"))
  BY <1>1, <1>2, ReaderTakesDoes DEF CompanionIs
<1>4. /\ AtPlugin(e)' <=> AtPlugin(e)
      /\ Held(e)' <=> Held(e)
      /\ (OnLink(e)' => OnLink(e)) /\ (LinkedOnce(e) => LinkedOnce(e)')
  BY <1>3, CompanionLinks DEF AtPlugin, Held
<1>5. UNCHANGED <<command, asked, executed>> /\ asked[e] \in Nat
  BY CompanionTicket
<1>6. outbound' \in {outbound, Append(outbound, Receipt(d, "rejected"))}
      /\ "rejected" \in Outcomes
  BY <1>3 DEF Outcomes, Remembered
<1>7. \A receipt \in Receipts : outbound' = Append(outbound, receipt) =>
         receipt.d = d /\ receipt.result = "rejected"
  BY <1>2, <1>6, OtherIsQuiet
<1>8. companion.queue \in Seq(Deliveries)
  BY <1>1, CompanionFields
<1>9. CASE e # d
  <2>1. DealtWith(e)' => DealtWith(e)
    <3>1. companion'.results[e] # "none" => DealtWith(e)
      BY <1>3 DEF DealtWith
    <3>2. QED
      BY <1>7, <1>9, <3>1, CompanionDealt
  <2>2. (Queued(e)' => Queued(e)) /\ (QueuedOnce(e) => QueuedOnce(e)')
    <3>1. CASE UNCHANGED companion
      BY <3>1 DEF Queued, QueuedOnce
    <3>2. CASE companion'.queue = Append(companion.queue, d)
      <4>1. \A i \in DOMAIN companion'.queue : companion'.queue[i] = e =>
               i \in DOMAIN companion.queue /\ companion.queue[i] = e
        BY <1>8, <1>9, <3>2
      <4>2. QED
        BY <4>1 DEF Queued, QueuedOnce
    <3>3. QED
      BY <1>3, <3>1, <3>2
  <2>3. Rests(e)
    BY <1>4, <1>5, <2>1, <2>2 DEF Rests
  <2>4. QED
    BY <1>5, <1>7, <1>9, <2>3, CompanionTicket DEF Ticket
<1>10. CASE e = d
  <2>1. OnLink(d) /\ 1 \in DOMAIN link[companion.gen].down
        /\ link[companion.gen].down[1] = d
    <3>1. link[companion.gen].down \in Seq(Deliveries)
      BY <1>1, <1>2, LinkTyped
    <3>2. 1 \in DOMAIN link[companion.gen].down /\ link[companion.gen].down[1] = d
      BY <1>3, <3>1
    <3>3. QED
      BY <1>2, <3>2 DEF OnLink
  <2>2. command[d].status # "none"
    BY <2>1 DEF OneTicket, Ticket, Nowhere
  <2>3. ASSUME command[d].sends = 1
        PROVE  OnePlace(d)' /\ SaidIsSo(d)'
    <3>1. OnePlace(d)
      BY <2>3 DEF OneTicket, Ticket
    <3>2. /\ ~(asked[d] > 0) /\ ~Queued(d) /\ ~Held(d) /\ ~AtPlugin(d) /\ ~DealtWith(d)
          /\ LinkedOnce(d) /\ QueuedOnce(d)
      BY <2>1, <3>1 DEF OnePlace
    <3>3. ~OnLink(d)'
      <4>1. ASSUME NEW h \in Gens, NEW j \in DOMAIN link'[h].down, link'[h].down[j] = d
            PROVE  FALSE
        <5>1. CASE h # companion.gen
          <6>1. link[h].down[j] = d /\ j \in DOMAIN link[h].down
            BY <1>3, <4>1, <5>1
          <6>2. h = companion.gen
            BY <1>2, <2>1, <3>2, <4>1, <6>1 DEF LinkedOnce
          <6>3. QED
            BY <5>1, <6>2
        <5>2. CASE h = companion.gen
          <6>1. link[h].down # <<>> /\ link'[h].down = Tail(link[h].down)
            BY <1>3, <5>2
          <6>2. link[h].down \in Seq(Deliveries) /\ Tail(link[h].down) \in Seq(Deliveries)
            BY <1>1, <6>1, LinkTyped
          <6>3. j \in 1..Len(Tail(link[h].down))
            BY <4>1, <6>1, <6>2
          <6>4. j + 1 \in DOMAIN link[h].down /\ link[h].down[j + 1] = d /\ j + 1 # 1
            BY <4>1, <6>1, <6>2, <6>3, TailWithin
          <6>5. QED
            BY <2>1, <3>2, <5>2, <6>4 DEF LinkedOnce
        <5>3. QED
          BY <5>1, <5>2
      <4>2. QED
        BY <4>1 DEF OnLink
    <3>4. LinkedOnce(d)' /\ ~Held(d)' /\ ~AtPlugin(d)'
      BY <1>4, <1>10, <3>2
    <3>5. SaidIsSo(d)'
      BY <1>7, <1>10, <2>3, <3>2, Refusal, CompanionTicket
    <3>6. CASE companion'.queue = Append(companion.queue, d) /\ outbound' = outbound
      <4>1. ~DealtWith(d)'
        <5>1. companion'.results[d] = "none"
          BY <1>3, <3>2 DEF DealtWith
        <5>2. \A receipt \in Receipts : outbound' # Append(outbound, receipt)
          <6>1. outbound \in Seq(Receipts) /\ Shorter(outbound, outbound')
            BY <1>1, <3>6, CompanionFields DEF Shorter
          <6>2. QED
            BY <6>1, ShorterIsNoLonger
        <5>3. QED
          BY <3>2, <5>1, <5>2, CompanionDealt
      <4>2. QueuedOnce(d)'
        <5>1. \A i \in DOMAIN companion'.queue :
                 companion'.queue[i] = d => i = Len(companion.queue) + 1
          BY <1>8, <3>2, <3>6 DEF Queued
        <5>2. QED
          BY <5>1 DEF QueuedOnce
      <4>3. QED
        BY <1>5, <1>10, <3>2, <3>3, <3>4, <3>5, <4>1, <4>2 DEF OnePlace
    <3>7. CASE UNCHANGED companion
      <4>1. ~Queued(d)' /\ QueuedOnce(d)'
        BY <3>2, <3>7 DEF Queued, QueuedOnce
      <4>2. QED
        BY <1>5, <1>10, <3>2, <3>3, <3>4, <3>5, <4>1 DEF OnePlace
    <3>8. QED
      BY <1>3, <3>6, <3>7
  <2>4. QED
    BY <1>5, <1>10, <2>2, <2>3 DEF Ticket
<1>11. QED
  BY <1>9, <1>10

\* The worker takes the head of the queue: to hold it, or to say at once what it knows.
LEMMA WorkerTakesTicket ==
    ASSUME Inv, OneTicket, WorkerTakes, CompanionSteps, Next, NEW e \in Deliveries
    PROVE  Ticket(e)'
<1>1. PluginTyped /\ MacTyped /\ RelayTyped /\ Phases
  BY DEF Inv
<1>2. companion.gen \in Gens
  BY <1>1, TaskGens
<1>3. PICK d \in Deliveries :
         /\ companion.worker.pc = "idle" /\ companion.queue # <<>>
         /\ d = Head(companion.queue) /\ UNCHANGED bridge
         /\ companion'.queue = Tail(companion.queue)
         /\ companion'.results = companion.results
         /\ \/ /\ companion.results[d] # "none" /\ companion'.worker = companion.worker
               /\ outbound' = Append(outbound, Receipt(d, "duplicate"))
            \/ /\ companion'.worker = companion.worker
               /\ outbound' = Append(outbound, Receipt(d, "rejected"))
            \/ /\ companion'.worker = [pc |-> "yielded", d |-> d]
               /\ outbound' = outbound
  BY <1>1, <1>2, WorkerTakesDoes DEF CompanionIs
<1>4. /\ AtPlugin(e)' <=> AtPlugin(e)
      /\ Held(e)' => e = d /\ outbound' = outbound
      /\ (OnLink(e)' => OnLink(e)) /\ (LinkedOnce(e) => LinkedOnce(e)')
  BY <1>3, CompanionLinks DEF AtPlugin, Held
<1>5. UNCHANGED <<command, asked, executed>> /\ asked[e] \in Nat
  BY CompanionTicket
<1>6. PICK result \in {"duplicate", "rejected"} :
         /\ result = "duplicate" => companion.results[d] # "none"
         /\ outbound' \in {outbound, Append(outbound, Receipt(d, result))}
  BY <1>3
<1>7. \A receipt \in Receipts : outbound' = Append(outbound, receipt) =>
         receipt.d = d /\ receipt.result = result
  BY <1>2, <1>6, OtherIsQuiet DEF Outcomes, Remembered
<1>8. companion.queue \in Seq(Deliveries)
  BY <1>1, CompanionFields
<1>9. (Queued(e)' => Queued(e)) /\ (QueuedOnce(e) => QueuedOnce(e)')
  BY <1>1, <1>3, QueuedShrinks DEF Shorter
<1>10. CASE e # d
  <2>1. DealtWith(e)' => DealtWith(e)
    <3>1. companion'.results[e] # "none" => DealtWith(e)
      BY <1>3 DEF DealtWith
    <3>2. QED
      BY <1>7, <1>10, <3>1, CompanionDealt
  <2>2. Rests(e)
    BY <1>4, <1>5, <1>9, <1>10, <2>1 DEF Rests
  <2>3. QED
    BY <1>5, <1>7, <1>10, <2>2, CompanionTicket DEF Ticket
<1>11. CASE e = d
  <2>1. Queued(d) /\ 1 \in DOMAIN companion.queue /\ companion.queue[1] = d
    <3>1. 1 \in DOMAIN companion.queue /\ companion.queue[1] = d
      BY <1>3, <1>8
    <3>2. QED
      BY <3>1 DEF Queued
  <2>2. command[d].status # "none"
    BY <2>1 DEF OneTicket, Ticket, Nowhere
  <2>3. ASSUME command[d].sends = 1
        PROVE  OnePlace(d)' /\ SaidIsSo(d)'
    <3>1. OnePlace(d)
      BY <2>3 DEF OneTicket, Ticket
    <3>2. /\ ~(asked[d] > 0) /\ ~OnLink(d) /\ ~AtPlugin(d) /\ ~DealtWith(d)
          /\ LinkedOnce(d) /\ QueuedOnce(d)
      BY <2>1, <3>1 DEF OnePlace
    <3>3. companion.results[d] = "none" /\ result = "rejected"
      BY <1>6, <3>2 DEF DealtWith
    <3>4. ~Queued(d)'
      <4>1. ASSUME NEW j \in DOMAIN companion'.queue, companion'.queue[j] = d
            PROVE  FALSE
        <5>1. Tail(companion.queue) \in Seq(Deliveries)
          BY <1>3, <1>8
        <5>2. j \in 1..Len(Tail(companion.queue))
          BY <1>3, <4>1, <5>1
        <5>3. j + 1 \in DOMAIN companion.queue /\ companion.queue[j + 1] = d /\ j + 1 # 1
          BY <1>3, <1>8, <4>1, <5>1, <5>2, TailWithin
        <5>4. QED
          BY <2>1, <3>2, <5>3 DEF QueuedOnce
      <4>2. QED
        BY <4>1 DEF Queued
    <3>5. SaidIsSo(d)'
      BY <1>7, <1>11, <2>3, <3>2, <3>3, Refusal, CompanionTicket
    <3>6. CASE outbound' = outbound
      <4>1. \A receipt \in Receipts : outbound' # Append(outbound, receipt)
        <5>1. outbound \in Seq(Receipts) /\ Shorter(outbound, outbound')
          BY <1>1, <3>6, CompanionFields DEF Shorter
        <5>2. QED
          BY <5>1, ShorterIsNoLonger
      <4>2. ~DealtWith(d)'
        BY <1>3, <3>2, <3>3, <4>1, CompanionDealt
      <4>3. QED
        BY <1>4, <1>5, <1>9, <1>11, <3>2, <3>4, <3>5, <4>2 DEF OnePlace
    <3>7. CASE outbound' # outbound
      BY <1>4, <1>5, <1>9, <1>11, <3>2, <3>4, <3>5, <3>7 DEF OnePlace
    <3>8. QED
      BY <3>6, <3>7
  <2>4. QED
    BY <1>5, <1>11, <2>2, <2>3 DEF Ticket
<1>12. QED
  BY <1>10, <1>11

\* The worker sends what it holds to the plugin, or refuses it, or fails.
LEMMA WorkerSendsTicket ==
    ASSUME Inv, OneTicket, WorkerSends, CompanionSteps, Next, NEW e \in Deliveries
    PROVE  Ticket(e)'
<1>1. PluginTyped /\ MacTyped /\ RelayTyped /\ Phases
  BY DEF Inv
<1>2. companion.gen \in Gens
  BY <1>1, TaskGens
<1>3. PICK d \in Deliveries :
         /\ companion.worker.pc = "yielded" /\ companion.worker.d = d
         /\ companion'.queue = companion.queue /\ companion'.results = companion.results
         /\ \/ /\ companion'.worker = NoWork /\ UNCHANGED bridge
               /\ outbound' = Append(outbound, Receipt(d, "rejected"))
            \/ /\ companion'.worker = [pc |-> "failed", d |-> d]
               /\ outbound' = outbound /\ UNCHANGED bridge
            \/ /\ companion'.worker = [pc |-> "waiting", d |-> d]
               /\ outbound' = outbound /\ SendsOnly(CommandRequest(d))
  BY <1>1, <1>2, WorkerSendsDoes, WorkerTyped DEF CompanionIs
<1>4. /\ ~Held(e)'
      /\ (OnLink(e)' => OnLink(e)) /\ (LinkedOnce(e) => LinkedOnce(e)')
      /\ (Queued(e)' <=> Queued(e)) /\ (QueuedOnce(e)' <=> QueuedOnce(e))
  BY <1>3, CompanionLinks DEF Held, NoWork, Queued, QueuedOnce
<1>5. UNCHANGED <<command, asked, executed>> /\ asked[e] \in Nat
  BY CompanionTicket
<1>6. outbound' \in {outbound, Append(outbound, Receipt(d, "rejected"))}
      /\ "rejected" \in Outcomes
  BY <1>3 DEF Outcomes, Remembered
<1>7. \A receipt \in Receipts : outbound' = Append(outbound, receipt) =>
         receipt.d = d /\ receipt.result = "rejected"
  BY <1>2, <1>6, OtherIsQuiet
<1>8. AtPlugin(e)' => AtPlugin(e) \/ (e = d /\ outbound' = outbound)
  <2>1. CASE SendsNothing
    BY <2>1 DEF SendsNothing, AtPlugin
  <2>2. CASE bridge'.toPlugin = Append(bridge.toPlugin, CommandRequest(d))
             /\ outbound' = outbound
    <3>1. bridge.toPlugin \in Seq(Requests)
      BY <1>1, ToPluginTyped
    <3>2. CommandRequest(d).d = d
      BY DEF CommandRequest
    <3>3. \A i \in DOMAIN bridge'.toPlugin :
             \/ bridge'.toPlugin[i] = CommandRequest(d)
             \/ i \in DOMAIN bridge.toPlugin /\ bridge'.toPlugin[i] = bridge.toPlugin[i]
      BY <2>2, <3>1
    <3>4. QED
      BY <2>2, <3>2, <3>3 DEF AtPlugin, IsCommand
  <2>3. QED
    BY <1>3, <2>1, <2>2 DEF SendsOnly, SendsNothing
<1>9. CASE e # d
  <2>1. DealtWith(e)' => DealtWith(e)
    <3>1. companion'.results[e] # "none" => DealtWith(e)
      BY <1>3 DEF DealtWith
    <3>2. QED
      BY <1>7, <1>9, <3>1, CompanionDealt
  <2>2. Rests(e)
    BY <1>4, <1>5, <1>8, <1>9, <2>1 DEF Rests
  <2>3. QED
    BY <1>5, <1>7, <1>9, <2>2, CompanionTicket DEF Ticket
<1>10. CASE e = d
  <2>1. Held(d)
    BY <1>3 DEF Held
  <2>2. command[d].status # "none"
    BY <2>1 DEF OneTicket, Ticket, Nowhere
  <2>3. ASSUME command[d].sends = 1
        PROVE  OnePlace(d)' /\ SaidIsSo(d)'
    <3>1. OnePlace(d)
      BY <2>3 DEF OneTicket, Ticket
    <3>2. /\ ~(asked[d] > 0) /\ ~OnLink(d) /\ ~Queued(d) /\ ~AtPlugin(d) /\ ~DealtWith(d)
          /\ LinkedOnce(d) /\ QueuedOnce(d)
      BY <2>1, <3>1 DEF OnePlace
    <3>3. SaidIsSo(d)'
      BY <1>7, <1>10, <2>3, <3>2, Refusal, CompanionTicket
    <3>4. CASE outbound' = outbound
      <4>1. \A receipt \in Receipts : outbound' # Append(outbound, receipt)
        <5>1. outbound \in Seq(Receipts) /\ Shorter(outbound, outbound')
          BY <1>1, <3>4, CompanionFields DEF Shorter
        <5>2. QED
          BY <5>1, ShorterIsNoLonger
      <4>2. companion'.results[d] = "none"
        BY <1>3, <3>2 DEF DealtWith
      <4>3. ~DealtWith(d)'
        BY <3>2, <4>1, <4>2, CompanionDealt
      <4>4. QED
        BY <1>4, <1>5, <1>10, <3>2, <3>3, <4>3 DEF OnePlace
    <3>5. CASE outbound' # outbound
      BY <1>4, <1>5, <1>8, <1>10, <3>2, <3>3, <3>5 DEF OnePlace
    <3>6. QED
      BY <3>4, <3>5
  <2>4. QED
    BY <1>5, <1>10, <2>2, <2>3 DEF Ticket
<1>11. QED
  BY <1>9, <1>10

\* The plugin has answered: the delivery had been dealt with, and the answer is so.
LEMMA WorkerReturnsTicket ==
    ASSUME Inv, OneTicket, WorkerReturns, CompanionSteps, Next, NEW e \in Deliveries
    PROVE  Ticket(e)'
<1>1. PluginTyped /\ MacTyped /\ RelayTyped /\ Phases
  BY DEF Inv
<1>2. companion.gen \in Gens
  BY <1>1, TaskGens
<1>3. PICK d \in Deliveries :
         /\ companion.worker.pc = "waiting" /\ SendsNothing
         /\ companion'.queue = companion.queue
         /\ companion'.worker \in {NoWork, [pc |-> "failed", d |-> d]}
         /\ \/ outbound' = outbound /\ companion'.results = companion.results
            \/ \E result \in Outcomes :
                  /\ Answered(CommandRequest(d), result)
                  /\ outbound' = Append(outbound, Receipt(d, result))
                  /\ companion'.results = [companion.results EXCEPT ![d] = result]
  BY <1>1, <1>2, WorkerReturnsDoes, WorkerTyped DEF CompanionIs
<1>4. /\ ~Held(e)' /\ (AtPlugin(e)' <=> AtPlugin(e))
      /\ (OnLink(e)' => OnLink(e)) /\ (LinkedOnce(e) => LinkedOnce(e)')
      /\ (Queued(e)' <=> Queued(e)) /\ (QueuedOnce(e)' <=> QueuedOnce(e))
  BY <1>3, CompanionLinks DEF Held, NoWork, Queued, QueuedOnce, AtPlugin, SendsNothing
<1>5. UNCHANGED <<command, asked, executed>> /\ asked[e] \in Nat
  BY CompanionTicket
<1>6. CASE outbound' = outbound /\ companion'.results = companion.results
  <2>1. Quiet
    BY <1>3, <1>6 DEF Quiet, Shorter, NoWork
  <2>2. QED
    BY <1>4, <2>1, QuietTicket
<1>7. CASE \E result \in Outcomes :
              /\ Answered(CommandRequest(d), result)
              /\ outbound' = Append(outbound, Receipt(d, result))
              /\ companion'.results = [companion.results EXCEPT ![d] = result]
  <2>1. PICK result \in Outcomes :
              /\ Answered(CommandRequest(d), result)
              /\ outbound' = Append(outbound, Receipt(d, result))
              /\ companion'.results = [companion.results EXCEPT ![d] = result]
    BY <1>7
  <2>2. \A receipt \in Receipts : outbound' = Append(outbound, receipt) =>
           receipt.d = d /\ receipt.result = result
    BY <1>2, <2>1, OtherIsQuiet
  <2>3. PICK r \in bridge.toServer :
           IsCommand(r.request, d) /\ r.result = result /\ r.result # "error"
    BY <2>1 DEF Answered, IsCommand, CommandRequest, Outcomes, Remembered
  <2>4. DealtWith(d)
    BY <2>3 DEF DealtWith
  <2>5. companion'.results[e] # "none" => DealtWith(e)
    <3>1. e # d => companion'.results[e] = companion.results[e]
      BY <1>1, <2>1, CompanionFields DEF Results
    <3>2. QED
      BY <2>4, <3>1 DEF DealtWith
  <2>6. DealtWith(e)' => DealtWith(e)
    BY <2>2, <2>4, <2>5, CompanionDealt
  <2>7. Rests(e)
    BY <1>4, <1>5, <2>6 DEF Rests
  <2>8. command[d].sends = 1 => Means(result, d) /\ ~Running(d)
    BY <2>3 DEF OneTicket, Ticket, SaidIsSo, RunsAlone, Unsaid
  <2>9. command[e].sends = 1 => SaidIsSo(e)'
    BY <2>2, <2>8, CompanionTicket
  <2>10. QED
    BY <1>5, <2>7, <2>9, CompanionTicket DEF Ticket
<1>8. QED
  BY <1>3, <1>6, <1>7

\* Every step of the Companion keeps every ticket.
LEMMA CompanionTicketStep ==
    ASSUME Inv, OneTicket, CompanionSteps, Next
    PROVE  OneTicket'
<1>1. ASSUME NEW e \in Deliveries
      PROVE  Ticket(e)'
  <2>1. CASE ReaderTakes \/ WorkerTakes \/ WorkerSends \/ WorkerReturns
    BY <2>1, ReaderTicket, WorkerTakesTicket, WorkerSendsTicket, WorkerReturnsTicket
  <2>2. CASE Quiet /\ ~WorkerSends
    <3>1. AtPlugin(e)' => AtPlugin(e)
      <4>1. PluginTyped
        BY DEF Inv
      <4>2. CASE SendsNothing
        BY <4>2 DEF SendsNothing, AtPlugin
      <4>3. ASSUME NEW request \in Requests, Writes(request), request.op # "command"
            PROVE  AtPlugin(e)' => AtPlugin(e)
        <5>1. \A i \in DOMAIN bridge'.toPlugin :
                 \/ bridge'.toPlugin[i] = request
                 \/ i \in DOMAIN bridge.toPlugin /\ bridge'.toPlugin[i] = bridge.toPlugin[i]
          BY <4>1, <4>3, ToPluginTyped DEF Writes
        <5>2. QED
          BY <4>3, <5>1 DEF AtPlugin, IsCommand
      <4>4. SendsNothing \/ \E request \in Requests : Writes(request) /\ request.op # "command"
        <5>1. \A g \in Gens : /\ [op |-> "bind", gen |-> g] \in Requests
                              /\ [op |-> "invalidate", gen |-> g] \in Requests
          BY DEF Requests
        <5>2. QED
          BY <2>2, <5>1, CompanionWrites
      <4>5. QED
        BY <4>2, <4>3, <4>4
    <3>2. QED
      BY <2>2, <3>1, QuietTicket
  <2>3. QED
    BY <2>1, <2>2, CompanionSorts
<1>2. QED
  BY <1>1 DEF OneTicket

\* The tickets over a step of the phone.
LEMMA SameOutbound ==
    ASSUME MacTyped, UNCHANGED outbound
    PROVE  \A receipt \in Receipts : outbound' # Append(outbound, receipt)
<1>1. outbound \in Seq(Receipts) /\ Shorter(outbound, outbound')
  BY CompanionFields DEF Shorter
<1>2. QED
  BY <1>1, ShorterIsNoLonger

\* A step of the phone moves no delivery but the one it sends.
LEMMA PhoneKeepsPlaces ==
    ASSUME Inv, PhoneSteps, Next, NEW d \in Deliveries
    PROVE  /\ OnLink(d)' <=> OnLink(d)
           /\ LinkedOnce(d)' <=> LinkedOnce(d)
           /\ Queued(d)' <=> Queued(d)
           /\ QueuedOnce(d)' <=> QueuedOnce(d)
           /\ Held(d)' <=> Held(d)
           /\ AtPlugin(d)' <=> AtPlugin(d)
           /\ DealtWith(d)' => \/ DealtWith(d)
                               \/ /\ command'[d].status = "desktop_accepted"
                                  /\ command[d].status # "desktop_accepted"
           /\ Running(d)' <=> Running(d)
           /\ \A receipt \in Receipts : outbound' # Append(outbound, receipt)
           /\ asked[d] \in Nat /\ asked'[d] \in Nat
<1>1. UNCHANGED <<mac, link, sessions, companion, outbound, bridge, desktop, executed>>
  BY PhoneFrame
<1>2. \A receipt \in Receipts : outbound' # Append(outbound, receipt)
  BY <1>1, SameOutbound DEF Inv
<1>3. \A receipt : (receipt \in ReceiptsUnderWay)' => receipt \in ReceiptsUnderWay
  BY <1>2, ReceiptsMove
<1>4. PhoneTyped /\ PhoneTyped'
  BY TypesStep DEF Inv
<1>5. QED
  BY <1>1, <1>2, <1>3, <1>4, CommandRoutingAssumption
     DEF OnLink, LinkedOnce, Queued, QueuedOnce, Held, AtPlugin, DealtWith, Running,
         PhoneTyped

\* Submit gives a delivery its ticket, Resend ends it, and the rest keep it.
LEMMA PhoneTicketStep ==
    ASSUME Inv, OneTicket, PhoneSteps, Next
    PROVE  OneTicket'
<1>1. UNCHANGED <<mac, link, sessions, companion, outbound, bridge, desktop, executed>>
  BY PhoneFrame
<1>2. PhoneTyped /\ RelayTyped /\ PluginTyped /\ Counts
  BY DEF Inv
<1>3. ASSUME NEW e \in Deliveries, Rests(e), command'[e].sends = command[e].sends,
             command'[e].kind = command[e].kind,
             command'[e].status = "none" <=> command[e].status = "none",
             /\ command[e].sends = 1 /\ SaidIsSo(e) /\ command'[e].status = "desktop_accepted"
             => \/ command[e].status = "desktop_accepted"
                \/ /\ executed[e] > 0 \/ command[e].kind \in Resolvable
                   /\ ~Running(e)
      PROVE  Ticket(e)'
  <2>1. command[e].sends = 1 /\ SaidIsSo(e) => SaidIsSo(e)'
    BY <1>1, <1>3, PhoneKeepsPlaces, SaidStays
  <2>2. (Nowhere(e) => Nowhere(e)') /\ (OnePlace(e) => OnePlace(e)')
    BY <1>3, PhoneKeepsPlaces, RestsInPlace
  <2>3. QED
    BY <1>3, <2>1, <2>2 DEF OneTicket, Ticket
<1>4. CASE \E d \in Deliveries : Submit(d)
  <2>1. PICK d \in Deliveries : Submit(d)
    BY <1>4
  <2>2. ASSUME NEW e \in Deliveries \ {d}
        PROVE  Ticket(e)'
    <3>1. Rests(e)
      BY <1>2, <2>1, PhoneKeepsPlaces, SubmitDoes DEF Rests
    <3>2. QED
      BY <1>2, <1>3, <2>1, <3>1, SubmitDoes
  <2>3. Ticket(d)'
    <3>1. /\ command[d].status = "none" /\ command'[d].status = "local_pending"
          /\ UNCHANGED phone
      BY <1>2, <2>1, SubmitDoes
    <3>2. Nowhere(d)
      BY <3>1 DEF OneTicket, Ticket
    <3>3. /\ ~OnLink(d)' /\ ~Queued(d)' /\ ~Held(d)' /\ ~AtPlugin(d)' /\ ~DealtWith(d)'
      BY <3>1, <3>2, PhoneKeepsPlaces DEF Nowhere
    <3>4. LinkedOnce(d)' /\ QueuedOnce(d)'
      BY <3>3 DEF OnLink, Queued, LinkedOnce, QueuedOnce
    <3>5. SaidIsSo(d)'
      BY <3>1, <3>3 DEF DealtWith, Running, SaidIsSo, RunsAlone
    <3>6. QED
      BY <3>1, <3>3, <3>4, <3>5 DEF Ticket, OnePlace
  <2>4. QED
    BY <2>2, <2>3 DEF OneTicket
<1>5. CASE \E d \in Deliveries : Resend(d)
  <2>1. PICK d \in Deliveries : Resend(d)
    BY <1>5
  <2>2. ASSUME NEW e \in Deliveries \ {d}
        PROVE  Ticket(e)'
    <3>1. Rests(e)
      BY <1>2, <2>1, PhoneKeepsPlaces, ResendDoes DEF Rests
    <3>2. QED
      BY <1>2, <1>3, <2>1, <3>1, ResendDoes
  <2>3. Ticket(d)'
    <3>1. /\ command[d].status = "unknown" /\ command'[d].status = "unknown"
          /\ command'[d].sends = command[d].sends + 1
      BY <1>2, <2>1, ResendDoes
    <3>2. command[d].sends > 0 /\ command[d].sends \in Nat
      BY <1>2, <3>1, CommandRoutingAssumption DEF Counts, PhoneTyped, Commands
    <3>3. command'[d].sends # 1
      BY <3>1, <3>2
    <3>4. QED
      BY <3>1, <3>3 DEF Ticket
  <2>4. QED
    BY <2>2, <2>3 DEF OneTicket
<1>6. CASE Settles /\ Reads /\ \A d \in Deliveries : Accepts(d)
  <2>1. ASSUME NEW e \in Deliveries
        PROVE  Ticket(e)'
    <3>1. ASSUME command'[e].status = "desktop_accepted",
                 command[e].status # "desktop_accepted"
          PROVE  /\ DealtWith(e)
                 /\ SaidIsSo(e) => /\ executed[e] > 0 \/ command[e].kind \in Resolvable
                                   /\ ~Running(e)
      <4>1. CASE /\ phone.frames # <<>> /\ Head(phone.frames).type = "receipt"
                 /\ Head(phone.frames).d = e
                 /\ Head(phone.frames).result \notin {"rejected", "unknown"}
        <5>1. 1 \in DOMAIN phone.frames /\ Head(phone.frames) = phone.frames[1]
          BY <1>2, <4>1, FramesTyped
        <5>2. Going(Head(phone.frames))
          BY <4>1, <5>1 DEF Going
        <5>3. Head(phone.frames) \in ReceiptsUnderWay
          BY <5>2, UnderWayIsGoing
        <5>4. Head(phone.frames).result \in {"executed", "duplicate", "already_resolved"}
          BY <1>2, <4>1, FramesTyped DEF PhoneFrames, Receipts, Outcomes, Remembered
        <5>5. DealtWith(e)
          BY <4>1, <5>3 DEF DealtWith
        <5>6. SaidIsSo(e) => Means(Head(phone.frames).result, e) /\ ~Running(e)
          BY <4>1, <5>3 DEF SaidIsSo, RunsAlone, Unsaid
        <5>7. QED
          BY <5>4, <5>5, <5>6 DEF Means
      <4>2. CASE executed[e] > 0 /\ command[e].kind = "submit"
        BY <4>2 DEF DealtWith, SaidIsSo, RunsAlone, Awaits
      <4>3. QED
        BY <1>6, <3>1, <4>1, <4>2 DEF Accepts
    <3>2. Rests(e)
      BY <1>6, <3>1, PhoneKeepsPlaces DEF Rests, Settles
    <3>3. QED
      BY <1>3, <1>6, <3>1, <3>2 DEF Settles
  <2>2. QED
    BY <2>1 DEF OneTicket
<1>7. QED
  BY <1>2, <1>4, <1>5, <1>6, PhoneStepsDo

\* The tickets over a step of the relay: a delivery that was asked for goes down a link.
LEMMA RelayTicketStep ==
    ASSUME Inv, OneTicket, RelaySteps, Next
    PROVE  OneTicket'
<1>1. UNCHANGED <<command, companion, outbound, bridge, desktop, executed>>
  BY RelayFrame
<1>2. PhoneTyped /\ RelayTyped /\ Counts /\ MacTyped
  BY DEF Inv
<1>3. \A receipt \in Receipts : outbound' # Append(outbound, receipt)
  BY <1>1, <1>2, SameOutbound
<1>4. \A receipt : (receipt \in ReceiptsUnderWay)' => receipt \in ReceiptsUnderWay
  BY <1>3, ReceiptsMove
<1>5. ASSUME NEW e \in Deliveries
      PROVE  /\ Queued(e)' <=> Queued(e)
             /\ QueuedOnce(e)' <=> QueuedOnce(e)
             /\ Held(e)' <=> Held(e)
             /\ AtPlugin(e)' <=> AtPlugin(e)
             /\ DealtWith(e)' => DealtWith(e)
             /\ SaidIsSo(e) => SaidIsSo(e)'
             /\ asked[e] \in Nat /\ asked'[e] \in Nat
  <2>1. PhoneTyped'
    BY TypesStep
  <2>2. asked[e] \in Nat /\ asked'[e] \in Nat
    BY <1>2, <2>1, CommandRoutingAssumption DEF PhoneTyped
  <2>3. SaidIsSo(e) => SaidIsSo(e)'
    BY <1>1, <1>3, SaidStays
  <2>4. QED
    BY <1>1, <1>4, <2>2, <2>3 DEF Queued, QueuedOnce, Held, AtPlugin, DealtWith, Running
<1>6. ASSUME NEW e \in Deliveries, asked'[e] <= asked[e],
             OnLink(e)' => OnLink(e), LinkedOnce(e) => LinkedOnce(e)'
      PROVE  Ticket(e)'
  <2>1. Rests(e)
    BY <1>5, <1>6 DEF Rests
  <2>2. (Nowhere(e) => Nowhere(e)') /\ (OnePlace(e) => OnePlace(e)')
    BY <1>5, <2>1, RestsInPlace
  <2>3. QED
    BY <1>1, <1>5, <2>2 DEF OneTicket, Ticket
<1>7. CASE RelaysUp
  <2>1. \A g \in Gens : Shorter(link[g].down, link'[g].down)
    BY <1>7 DEF RelaysUp, DownShrinks, Shorter
  <2>2. ASSUME NEW e \in Deliveries
        PROVE  Ticket(e)'
    <3>1. asked'[e] = asked[e]
      BY <1>7 DEF RelaysUp
    <3>2. (OnLink(e)' => OnLink(e)) /\ (LinkedOnce(e) => LinkedOnce(e)')
      BY <1>2, <2>1, LinkShrinks
    <3>3. QED
      BY <1>5, <1>6, <3>1, <3>2
  <2>3. QED
    BY <2>2 DEF OneTicket
<1>8. CASE \E d \in Deliveries :
                 /\ asked[d] > 0 /\ asked'[d] = asked[d] - 1
                 /\ \A e \in Deliveries \ {d} : asked'[e] = asked[e]
                 /\ \A g \in Gens : \/ link'[g].down = link[g].down
                                    \/ g = mac /\ link'[g].down = Append(link[g].down, d)
  <2>1. PICK d \in Deliveries :
                 /\ asked[d] > 0 /\ asked'[d] = asked[d] - 1
                 /\ \A e \in Deliveries \ {d} : asked'[e] = asked[e]
                 /\ \A g \in Gens : \/ link'[g].down = link[g].down
                                    \/ g = mac /\ link'[g].down = Append(link[g].down, d)
    BY <1>8
  <2>2. ASSUME NEW g \in Gens, NEW i \in DOMAIN link'[g].down
        PROVE  \/ i \in DOMAIN link[g].down /\ link'[g].down[i] = link[g].down[i]
               \/ g = mac /\ i = Len(link[g].down) + 1 /\ link'[g].down[i] = d
    <3>1. link[g].down \in Seq(Deliveries)
      BY <1>2, LinkTyped
    <3>2. CASE link'[g].down = link[g].down
      BY <2>2, <3>2
    <3>3. CASE g = mac /\ link'[g].down = Append(link[g].down, d)
      <4>1. \/ i \in DOMAIN link[g].down /\ Append(link[g].down, d)[i] = link[g].down[i]
            \/ i = Len(link[g].down) + 1 /\ Append(link[g].down, d)[i] = d
        <5>1. i \in DOMAIN Append(link[g].down, d)
          BY <2>2, <3>3
        <5>2. QED
          BY <3>1, <5>1
      <4>2. QED
        BY <3>3, <4>1
    <3>4. QED
      BY <2>1, <3>2, <3>3
  <2>3. ASSUME NEW e \in Deliveries \ {d}
        PROVE  Ticket(e)'
    <3>1. \A g \in Gens : \A i \in DOMAIN link'[g].down : link'[g].down[i] = e =>
             i \in DOMAIN link[g].down /\ link[g].down[i] = e
      BY <2>2, <2>3
    <3>2. (OnLink(e)' => OnLink(e)) /\ (LinkedOnce(e) => LinkedOnce(e)')
      BY <3>1 DEF OnLink, LinkedOnce
    <3>3. asked'[e] <= asked[e]
      BY <1>5, <2>1, <2>3
    <3>4. QED
      BY <1>6, <3>2, <3>3
  <2>4. Ticket(d)'
    <3>1. asked[d] \in Nat /\ asked[d] <= command[d].sends /\ command[d].status # "none"
      BY <1>2, <1>5, <2>1 DEF Counts, OneTicket, Ticket, Nowhere
    <3>2. ASSUME command[d].sends = 1
          PROVE  OnePlace(d)' /\ SaidIsSo(d)'
      <4>1. OnePlace(d) /\ SaidIsSo(d)
        BY <3>2 DEF OneTicket, Ticket
      <4>2. /\ ~OnLink(d) /\ ~Queued(d) /\ ~Held(d) /\ ~AtPlugin(d) /\ ~DealtWith(d)
            /\ QueuedOnce(d)
        BY <2>1, <4>1 DEF OnePlace
      <4>3. asked'[d] = 0
        BY <2>1, <3>1, <3>2
      <4>4. LinkedOnce(d)'
        <5>1. \A g \in Gens : \A i \in DOMAIN link'[g].down : link'[g].down[i] = d =>
                 g = mac /\ i = Len(link[mac].down) + 1
          BY <2>2, <4>2 DEF OnLink
        <5>2. QED
          BY <5>1 DEF LinkedOnce
      <4>5. QED
        BY <1>5, <4>1, <4>2, <4>3, <4>4 DEF OnePlace
    <3>3. QED
      BY <1>1, <3>1, <3>2 DEF Ticket
  <2>5. QED
    BY <2>3, <2>4 DEF OneTicket
<1>9. QED
  BY <1>2, <1>7, <1>8, RelayStepsDo

\* The tickets over a step of the plugin.
LEMMA PluginKeepsPlaces ==
    ASSUME Inv, PluginSteps, Next, NEW d \in Deliveries
    PROVE  /\ UNCHANGED <<command, asked>>
           /\ OnLink(d)' <=> OnLink(d)
           /\ LinkedOnce(d)' <=> LinkedOnce(d)
           /\ Queued(d)' <=> Queued(d)
           /\ QueuedOnce(d)' <=> QueuedOnce(d)
           /\ Held(d)' => Held(d)
           /\ AtPlugin(d)' => AtPlugin(d)
           /\ companion'.results = companion.results
           /\ \A receipt \in Receipts : outbound' # Append(outbound, receipt)
           /\ \A receipt : (receipt \in ReceiptsUnderWay)' => receipt \in ReceiptsUnderWay
           /\ asked[d] \in Nat /\ asked'[d] \in Nat
<1>1. UNCHANGED <<command, asked, link, outbound>>
  BY PluginFrame
<1>2. Fails \/ UNCHANGED companion
  BY PluginStepsDo DEF Inv
<1>3. /\ companion'.queue = companion.queue /\ companion'.results = companion.results
      /\ companion'.worker.pc = "yielded" =>
            companion.worker.pc = "yielded" /\ companion'.worker.d = companion.worker.d
  BY <1>2 DEF Fails
<1>4. AtPlugin(d)' => AtPlugin(d)
  BY PluginQueue, AtPluginShrinks
<1>5. \A receipt \in Receipts : outbound' # Append(outbound, receipt)
  BY <1>1, SameOutbound DEF Inv
<1>6. \A receipt : (receipt \in ReceiptsUnderWay)' => receipt \in ReceiptsUnderWay
  BY <1>5, ReceiptsMove
<1>7. asked[d] \in Nat
  BY CommandRoutingAssumption DEF Inv, PhoneTyped
<1>8. /\ OnLink(d)' <=> OnLink(d)
      /\ LinkedOnce(d)' <=> LinkedOnce(d)
  BY <1>1 DEF OnLink, LinkedOnce
<1>9. /\ Queued(d)' <=> Queued(d)
      /\ QueuedOnce(d)' <=> QueuedOnce(d)
      /\ Held(d)' => Held(d)
  BY <1>3 DEF Queued, QueuedOnce, Held
<1>10. QED
  BY <1>1, <1>3, <1>4, <1>5, <1>6, <1>7, <1>8, <1>9

\* A delivery that the plugin did not do in this step keeps its ticket, if what the
\* plugin says of it is so.
LEMMA PluginRests ==
    ASSUME Inv, OneTicket, PluginSteps, Next, NEW d \in Deliveries,
           executed'[d] = executed[d],
           desktop'.receipts[d] # "none" => DealtWith(d),
           \A r \in bridge'.toServer : IsCommand(r.request, d) =>
              \/ r \in bridge.toServer
              \/ /\ DealtWith(d)
                 /\ command[d].sends = 1 =>
                       (r.result # "error" => Means(r.result, d)) /\ ~Running(d)',
           \A run \in desktop'.running : IsCommand(run.request, d) =>
                                          run \in desktop.running
    PROVE  Ticket(d)'
<1>1. DealtWith(d)' => DealtWith(d)
  <2>1. ASSUME DealtWith(d)'
        PROVE  DealtWith(d)
    <3>1. CASE executed'[d] > 0
      BY <3>1 DEF DealtWith
    <3>2. CASE desktop'.receipts[d] # "none"
      BY <3>2
    <3>3. CASE companion'.results[d] # "none"
      BY <3>3, PluginKeepsPlaces DEF DealtWith
    <3>4. CASE (\E receipt \in ReceiptsUnderWay : receipt.d = d)'
      BY <3>4, PluginKeepsPlaces DEF DealtWith
    <3>5. CASE \E r \in bridge'.toServer : IsCommand(r.request, d)
      BY <3>5 DEF DealtWith
    <3>6. CASE Running(d)'
      BY <3>6 DEF DealtWith, Running
    <3>7. CASE command'[d].status = "desktop_accepted"
      BY <3>7, PluginKeepsPlaces DEF DealtWith
    <3>8. QED
      BY <2>1, <3>1, <3>2, <3>3, <3>4, <3>5, <3>6, <3>7 DEF DealtWith
  <2>2. QED
    BY <2>1
<1>2. Rests(d)
  BY <1>1, PluginKeepsPlaces DEF Rests
<1>3. (Nowhere(d) => Nowhere(d)') /\ (OnePlace(d) => OnePlace(d)')
  BY <1>2, PluginKeepsPlaces, RestsInPlace
<1>4. command[d].sends = 1 /\ SaidIsSo(d) => SaidIsSo(d)'
  BY PluginKeepsPlaces, SaidStays
<1>5. UNCHANGED command
  BY PluginKeepsPlaces
<1>6. QED
  BY <1>3, <1>4, <1>5 DEF OneTicket, Ticket

\* The next request and the answer to it say nothing of a delivery they do not name.
LEMMA TakesOther ==
    ASSUME PluginTyped, NEW d \in Deliveries, NEW results, Takes(results),
           ~IsCommand(NextRequest, d)
    PROVE  \A r \in bridge'.toServer : IsCommand(r.request, d) => r \in bridge.toServer
  BY DEF Takes, Answer, IsCommand

\* A step that executes nothing: the socket, a binding, or a handler that returns.
LEMMA StillTicket ==
    ASSUME Inv, OneTicket, RunsAreCommands, PluginSteps, Next, ~PluginExecutes,
           NEW d \in Deliveries
    PROVE  Ticket(d)'
<1>1. PluginTyped /\ MacTyped /\ Phases
  BY DEF Inv
<1>2. UNCHANGED outbound
  BY PluginFrame
<1>3. NoResults[d] = "none"
  BY DEF NoResults
<1>4. CASE PluginBinds
  <2>1. /\ Takes({"ok", "error"}) /\ NextRequest.op = "bind"
        /\ desktop'.receipts \in {desktop.receipts, NoResults}
        /\ desktop'.running = desktop.running
        /\ UNCHANGED <<companion, executed>>
    BY <1>1, <1>4, PluginBindsDoes
  <2>2. \A r \in bridge'.toServer : IsCommand(r.request, d) => r \in bridge.toServer
    BY <1>1, <2>1, TakesOther DEF IsCommand
  <2>3. desktop'.receipts[d] # "none" => DealtWith(d)
    BY <1>3, <2>1 DEF DealtWith
  <2>4. QED
    BY <2>1, <2>2, <2>3, PluginRests
<1>5. CASE PluginInvalidates
  <2>1. /\ Takes({"ok"}) /\ NextRequest.op = "invalidate"
        /\ desktop'.receipts \in {desktop.receipts, NoResults}
        /\ desktop'.running = desktop.running
        /\ UNCHANGED <<companion, executed>>
    BY <1>1, <1>5, PluginInvalidatesDoes
  <2>2. \A r \in bridge'.toServer : IsCommand(r.request, d) => r \in bridge.toServer
    BY <1>1, <2>1, TakesOther DEF IsCommand
  <2>3. desktop'.receipts[d] # "none" => DealtWith(d)
    BY <1>3, <2>1 DEF DealtWith
  <2>4. QED
    BY <2>1, <2>2, <2>3, PluginRests
<1>6. CASE HandlerReturns
  <2>1. PICK run \in desktop.running, result \in Remembered :
           /\ bridge'.toServer \subseteq bridge.toServer \cup
                 {Answer(run.request, result), Answer(run.request, "error")}
           /\ desktop'.running = desktop.running \ {run}
           /\ desktop'.receipts \in {desktop.receipts,
                                     [desktop.receipts EXCEPT ![run.request.d] = result]}
           /\ result \in HandlerAnswers(command[run.request.d].kind)
           /\ UNCHANGED executed
    BY <1>1, <1>6, HandlerReturnsDoes
  <2>2. run.request.op = "command"
    BY <2>1 DEF RunsAreCommands
  <2>3. desktop'.receipts[d] # "none" => DealtWith(d)
    <3>1. CASE run.request.d = d
      BY <2>1, <2>2, <3>1 DEF DealtWith, Running, IsCommand
    <3>2. CASE run.request.d # d
      <4>1. desktop'.receipts[d] = desktop.receipts[d]
        BY <1>1, <2>1, <3>2, DesktopFields DEF Memories
      <4>2. QED
        BY <4>1 DEF DealtWith
    <3>3. QED
      BY <3>1, <3>2
  <2>4. ASSUME NEW r \in bridge'.toServer, IsCommand(r.request, d), r \notin bridge.toServer
        PROVE  /\ DealtWith(d)
               /\ command[d].sends = 1 =>
                     (r.result # "error" => Means(r.result, d)) /\ ~Running(d)'
    <3>1. r.request = run.request /\ r.result \in {result, "error"} /\ run.request.d = d
      BY <2>1, <2>4 DEF Answer, IsCommand
    <3>2. Running(d) /\ DealtWith(d)
      BY <2>1, <2>4, <3>1 DEF Running, DealtWith
    <3>3. ASSUME command[d].sends = 1
          PROVE  (r.result # "error" => Means(r.result, d)) /\ ~Running(d)'
      <4>1. RunsAlone(d)
        BY <3>3 DEF OneTicket, Ticket, SaidIsSo
      <4>2. ~Running(d)'
        BY <2>1, <2>4, <3>1, <4>1 DEF RunsAlone, Running
      <4>3. executed[d] > 0 /\ command[d].kind \in Awaits
        BY <3>2, <4>1 DEF RunsAlone
      <4>4. r.result # "error" => Means(r.result, d)
        BY <2>1, <3>1, <4>3 DEF Means, HandlerAnswers
      <4>5. QED
        BY <4>2, <4>4
    <3>4. QED
      BY <3>2, <3>3
  <2>5. QED
    BY <2>1, <2>3, <2>4, PluginRests
<1>7. CASE ServerNotices \/ PluginConnects
  <2>1. bridge'.toServer = bridge.toServer /\ UNCHANGED <<desktop, executed>>
    BY <1>1, <1>2, <1>7, ServerNoticesDoes, PluginConnectsDoes
  <2>2. desktop'.receipts[d] # "none" => DealtWith(d)
    BY <2>1 DEF DealtWith
  <2>3. QED
    BY <2>1, <2>2, PluginRests
<1>8. CASE PluginLeaves
  <2>1. /\ bridge'.toServer = {}
        /\ \/ UNCHANGED desktop
           \/ desktop'.receipts = NoResults /\ desktop'.running = {}
        /\ UNCHANGED executed
    BY <1>1, <1>8, PluginLeavesDoes
  <2>2. desktop'.receipts[d] # "none" => DealtWith(d)
    BY <1>3, <2>1 DEF DealtWith
  <2>3. QED
    BY <2>1, <2>2, PluginRests
<1>9. QED
  BY <1>4, <1>5, <1>6, <1>7, <1>8 DEF PluginSteps, PluginNext

\* The command that the plugin takes was at the plugin, and is there no more.
LEMMA TakenIsGone ==
    ASSUME Inv, NEW d \in Deliveries, bridge.toPlugin # <<>>, IsCommand(NextRequest, d),
           bridge'.toPlugin = Tail(bridge.toPlugin)
    PROVE  AtPlugin(d) /\ ~AtPlugin(d)'
<1>1. PluginTyped /\ SentOnce
  BY DEF Inv
<1>2. 1 \in DOMAIN bridge.toPlugin /\ NextRequest = bridge.toPlugin[1]
  BY <1>1, NextRequestTyped
<1>3. AtPlugin(d)
  BY <1>2 DEF AtPlugin
<1>4. ASSUME NEW i \in DOMAIN bridge'.toPlugin
      PROVE  ~IsCommand(bridge'.toPlugin[i], d)
  <2>1. bridge.toPlugin \in Seq(Requests)
    BY <1>1, BridgeFields
  <2>2. /\ i + 1 \in DOMAIN bridge.toPlugin /\ i \in Nat /\ i > 0
        /\ bridge'.toPlugin[i] = bridge.toPlugin[i + 1]
    BY <1>4, <2>1
  <2>3. IsCommand(bridge.toPlugin[i + 1], d) => 1 = i + 1
    BY <1>1, <1>2, <2>2 DEF SentOnce
  <2>4. QED
    BY <2>2, <2>3
<1>5. QED
  BY <1>3, <1>4 DEF AtPlugin

\* The plugin executes: nobody had dealt with the delivery, and it says what it did.
LEMMA ExecutesTicket ==
    ASSUME Inv, OneTicket, PluginExecutes, PluginSteps, Next, NEW e \in Deliveries
    PROVE  Ticket(e)'
<1>1. PluginTyped /\ Counts /\ SentOnce
  BY DEF Inv
<1>2. PICK d \in Deliveries, result \in {"rejected", "already_resolved"} :
           /\ bridge.toPlugin # <<>> /\ IsCommand(NextRequest, d)
           /\ \/ /\ desktop.receipts[d] # "none" /\ Takes({"duplicate"})
                 /\ UNCHANGED <<desktop, executed>>
              \/ /\ Takes({result}) /\ UNCHANGED executed
                 /\ result = "already_resolved" => command[d].kind \in Resolvable
                 /\ desktop'.receipts = [desktop.receipts EXCEPT ![d] = result]
                 /\ desktop'.running = desktop.running
              \/ /\ executed' = [executed EXCEPT ![d] = @ + 1]
                 /\ \/ /\ Takes({"executed"}) /\ desktop'.running = desktop.running
                       /\ desktop'.receipts = [desktop.receipts EXCEPT ![d] = "executed"]
                    \/ /\ command[d].kind \in Awaits
                       /\ Takes({}) /\ desktop'.receipts = desktop.receipts
                       /\ desktop'.running = desktop.running
                             \cup {[request |-> NextRequest, sock |-> bridge.sock]}
  BY <1>1, PluginExecutesDoes
<1>3. PICK results : Takes(results)
  BY <1>2
<1>4. bridge'.toPlugin = Tail(bridge.toPlugin)
  BY <1>3 DEF Takes
<1>5. AtPlugin(d) /\ ~AtPlugin(d)'
  BY <1>2, <1>4, TakenIsGone
<1>6. CASE e # d
  <2>1. ~IsCommand(NextRequest, e)
    BY <1>2, <1>6 DEF IsCommand
  <2>2. \A r \in bridge'.toServer : IsCommand(r.request, e) => r \in bridge.toServer
    BY <1>1, <1>3, <2>1, TakesOther
  <2>3. executed'[e] = executed[e]
    BY <1>1, <1>2, <1>6, BridgeFields
  <2>4. desktop'.receipts[e] = desktop.receipts[e]
    BY <1>1, <1>2, <1>6, DesktopFields DEF Memories
  <2>5. \A run \in desktop'.running : IsCommand(run.request, e) => run \in desktop.running
    BY <1>2, <2>1
  <2>6. desktop'.receipts[e] # "none" => DealtWith(e)
    BY <2>4 DEF DealtWith
  <2>7. QED
    BY <2>2, <2>3, <2>5, <2>6, PluginRests
<1>7. CASE e = d
  <2>1. command[d].status # "none"
    BY <1>5 DEF OneTicket, Ticket, Nowhere
  <2>2. UNCHANGED command
    BY PluginKeepsPlaces
  <2>3. ASSUME command[d].sends = 1
        PROVE  OnePlace(d)' /\ SaidIsSo(d)'
    <3>1. OnePlace(d) /\ SaidIsSo(d)
      BY <2>3 DEF OneTicket, Ticket
    <3>2. /\ ~DealtWith(d) /\ ~Held(d) /\ ~Queued(d) /\ ~OnLink(d) /\ asked[d] = 0
          /\ LinkedOnce(d) /\ QueuedOnce(d)
      BY <1>5, <3>1, PluginKeepsPlaces DEF OnePlace
    <3>3. OnePlace(d)'
      BY <1>5, <3>2, PluginKeepsPlaces DEF OnePlace
    <3>4. /\ desktop.receipts[d] = "none" /\ executed[d] = 0
          /\ \A r \in bridge.toServer : ~IsCommand(r.request, d)
          /\ ~Running(d) /\ command[d].status # "desktop_accepted"
          /\ \A receipt \in ReceiptsUnderWay : receipt.d # d
      <4>1. executed[d] \in Nat
        BY <1>1, BridgeFields, CommandRoutingAssumption
      <4>2. QED
        BY <3>2, <4>1 DEF DealtWith
    <3>5. \A receipt \in ReceiptsUnderWay' : receipt.d # d
      BY <3>4, PluginKeepsPlaces
    <3>6. CASE /\ Takes({result}) /\ UNCHANGED executed
               /\ result = "already_resolved" => command[d].kind \in Resolvable
               /\ desktop'.running = desktop.running
      <4>1. \A r \in bridge'.toServer : IsCommand(r.request, d) => r.result = result
        BY <3>4, <3>6 DEF Takes, Answer
      <4>2. executed'[d] = 0 /\ ~Running(d)'
        BY <3>4, <3>6 DEF Running
      <4>3. Means(result, d)'
        BY <2>2, <3>6, <4>2 DEF Means
      <4>4. QED
        BY <2>2, <3>3, <3>4, <3>5, <4>1, <4>2, <4>3 DEF SaidIsSo, RunsAlone, Running
    <3>7. CASE /\ executed' = [executed EXCEPT ![d] = @ + 1]
               /\ Takes({"executed"}) /\ desktop'.running = desktop.running
      <4>1. \A r \in bridge'.toServer : IsCommand(r.request, d) => r.result = "executed"
        BY <3>4, <3>7 DEF Takes, Answer
      <4>2. executed'[d] > 0 /\ ~Running(d)'
        BY <1>1, <3>4, <3>7, BridgeFields DEF Running
      <4>3. Means("executed", d)'
        BY <4>2 DEF Means
      <4>4. QED
        BY <2>2, <3>3, <3>4, <3>5, <4>1, <4>2, <4>3 DEF SaidIsSo, RunsAlone, Running
    <3>8. CASE /\ executed' = [executed EXCEPT ![d] = @ + 1]
               /\ command[d].kind \in Awaits /\ Takes({})
               /\ desktop'.running = desktop.running
                     \cup {[request |-> NextRequest, sock |-> bridge.sock]}
      <4>1. \A r \in bridge'.toServer : ~IsCommand(r.request, d)
        BY <3>4, <3>8 DEF Takes
      <4>2. executed'[d] > 0
        BY <1>1, <3>4, <3>8, BridgeFields
      <4>3. \A run, other \in desktop'.running :
               IsCommand(run.request, d) /\ IsCommand(other.request, d) => run = other
        BY <3>4, <3>8 DEF Running
      <4>4. Unsaid(d)'
        BY <2>2, <3>4, <3>5, <4>1 DEF Unsaid
      <4>5. QED
        BY <2>2, <3>3, <3>4, <3>5, <3>8, <4>1, <4>2, <4>3, <4>4 DEF SaidIsSo, RunsAlone
    <3>9. QED
      BY <1>2, <3>4, <3>6, <3>7, <3>8
  <2>4. QED
    BY <1>7, <2>1, <2>2, <2>3 DEF Ticket
<1>8. QED
  BY <1>6, <1>7

\* Every step of the plugin keeps every ticket.
LEMMA PluginTicketStep ==
    ASSUME Inv, OneTicket, RunsAreCommands, PluginSteps, Next
    PROVE  OneTicket'
<1>1. ASSUME NEW d \in Deliveries
      PROVE  Ticket(d)'
  <2>1. CASE PluginExecutes
    BY <2>1, ExecutesTicket
  <2>2. CASE ~PluginExecutes
    BY <2>2, StillTicket
  <2>3. QED
    BY <2>1, <2>2
<1>2. QED
  BY <1>1 DEF OneTicket

-----------------------------------------------------------------------------
(* The theorems.                                                           *)

\* The parts that the steps are proved from.
LEMMA IInvParts ==
    IInv <=> Inv /\ BoundFirst /\ OneTicket /\ faults \in 0..MaxFaults
BY TypeParts DEF IInv, Inv

\* The invariant holds at the start.
LEMMA InitIInv == Init => IInv
<1>1. SUFFICES ASSUME Init
               PROVE  IInv
  OBVIOUS
<1>2. /\ 0 \in 0..MaxGen /\ 0 \in 0..MaxSends /\ 0 \in 0..MaxFaults
      /\ 0 \in 0..(MaxFaults + 1) /\ NoDelivery \notin Deliveries
      /\ 0 <= CommandLimit /\ 0 \notin Gens
  BY CommandRoutingAssumption DEF Gens
<1>3. PhoneTyped
  BY <1>1, <1>2 DEF Init, PhoneTyped, Commands, Kinds, Statuses, Phones
<1>4. RelayTyped
  BY <1>1, <1>2 DEF Init, RelayTyped, Links, NoLink
<1>5. NoWork \in Workers /\ NoResults \in Results /\ <<>> \in Seq(Deliveries)
  BY NoneTyped
<1>6. MacTyped
  BY <1>1, <1>2, <1>5 DEF Init, MacTyped, Companions
<1>7. PluginTyped
  BY <1>1, <1>2 DEF Init, PluginTyped, Bridges, Socks, Desktops, Memories, NoResults
<1>8. Counts
  BY <1>1, <1>2 DEF Init, Counts
<1>9. Phases
  BY <1>1 DEF Init, Phases, NoWork
<1>10. SentOnce
  BY <1>1 DEF Init, SentOnce
<1>11. BoundFirst
  <2>1. BindsAscend
    BY <1>1 DEF Init, BindsAscend
  <2>2. Passed(0)
    BY <1>1 DEF Init, Passed
  <2>3. QED
    BY <1>1, <2>1, <2>2 DEF Init, BoundFirst, NoLink
<1>12. ASSUME NEW d \in Deliveries
       PROVE  Ticket(d)
  <2>1. /\ ~OnLink(d) /\ ~Queued(d) /\ ~Held(d) /\ ~AtPlugin(d) /\ asked[d] = 0
    BY <1>1, <1>12 DEF Init, OnLink, Queued, Held, AtPlugin, NoLink, NoWork
  <2>2. \A receipt : ~Going(receipt)
    BY <1>1 DEF Init, Going, InUp, NoLink
  <2>3. ReceiptsUnderWay = {}
    BY <2>2, UnderWayIsGoing
  <2>4. ~DealtWith(d)
    BY <1>1, <1>12, <2>3 DEF Init, DealtWith, Running, NoResults
  <2>5. command[d].sends = 0
    BY <1>1, <1>12 DEF Init
  <2>6. QED
    BY <2>1, <2>4, <2>5 DEF Ticket, Nowhere
<1>13. faults \in 0..MaxFaults
  BY <1>1, <1>2 DEF Init
<1>14. QED
  BY <1>3, <1>4, <1>6, <1>7, <1>8, <1>9, <1>10, <1>11, <1>12, <1>13, IInvParts
     DEF Inv, OneTicket

\* Every step keeps every ticket.
LEMMA OneTicketStep ==
    ASSUME Inv, BoundFirst, OneTicket, Next
    PROVE  OneTicket'
<1>1. RunsAreCommands
  BY DEF BoundFirst, RunsAreCommands
<1>2. QED
  BY <1>1, NextParts, PhoneTicketStep, RelayTicketStep, CompanionTicketStep, PluginTicketStep

\* The invariant is about the variables alone.
LEMMA StutterIInv == IInv /\ UNCHANGED vars => IInv'
<1>1. SUFFICES ASSUME IInv, UNCHANGED vars
               PROVE  IInv'
  OBVIOUS
<1>2. /\ UNCHANGED <<command, phone, asked, answers, mac, link, sessions>>
      /\ UNCHANGED <<companion, outbound, bridge, desktop, executed, faults>>
  BY <1>1 DEF vars
<1>3. TypeOK'
  <2>1. Inv /\ faults' \in 0..MaxFaults
    BY <1>1, <1>2, IInvParts
  <2>2. PhoneTyped' /\ RelayTyped'
    BY <1>2, <2>1 DEF Inv, PhoneTyped, RelayTyped
  <2>3. MacTyped'
    BY <1>2, <2>1 DEF Inv, MacTyped
  <2>4. PluginTyped'
    BY <1>2, <2>1 DEF Inv, PluginTyped
  <2>5. QED
    BY <2>1, <2>2, <2>3, <2>4, TypePartsAfter
<1>4. Counts' /\ Phases'
  BY <1>1, <1>2 DEF IInv, Counts, Phases
<1>5. \A d \in Deliveries : Spent(d)' <=> Spent(d)
  BY <1>2 DEF Spent
<1>6. SentOnce'
  BY <1>1, <1>2, <1>5 DEF IInv, SentOnce
<1>7. BoundFirst'
  BY <1>1, <1>2 DEF IInv, BoundFirst, BindsAscend, Passed
<1>8. ReceiptsUnderWay' = ReceiptsUnderWay
  BY <1>2 DEF ReceiptsUnderWay
<1>9. ASSUME NEW d \in Deliveries
      PROVE  Ticket(d)'
  <2>1. /\ OnLink(d)' <=> OnLink(d)
        /\ Queued(d)' <=> Queued(d)
        /\ Held(d)' <=> Held(d)
        /\ AtPlugin(d)' <=> AtPlugin(d)
        /\ LinkedOnce(d)' <=> LinkedOnce(d)
        /\ QueuedOnce(d)' <=> QueuedOnce(d)
    BY <1>2 DEF OnLink, Queued, Held, AtPlugin, LinkedOnce, QueuedOnce
  <2>2. DealtWith(d)' <=> DealtWith(d)
    BY <1>2, <1>8 DEF DealtWith, Running
  <2>3. SaidIsSo(d)' <=> SaidIsSo(d)
    BY <1>2, <1>8 DEF SaidIsSo, Means, RunsAlone, Running, Unsaid
  <2>4. QED
    BY <1>1, <1>2, <2>1, <2>2, <2>3 DEF IInv, OneTicket, Ticket, Nowhere, OnePlace
<1>10. QED
  BY <1>3, <1>4, <1>6, <1>7, <1>9 DEF IInv, OneTicket

\* Every step keeps the invariant.
LEMMA StepIInv == IInv /\ [Next]_vars => IInv'
<1>1. ASSUME IInv, Next
      PROVE  IInv'
  <2>1. Inv /\ BoundFirst /\ OneTicket /\ faults \in 0..MaxFaults
    BY <1>1, IInvParts
  <2>2. TypeOK'
    BY <1>1, <2>1, TypeStep
  <2>3. Counts' /\ Phases' /\ SentOnce' /\ BoundFirst'
    BY <1>1, <2>1, CountsStep, PhasesStep, SentOnceStep, BoundFirstStep
  <2>4. OneTicket'
    BY <1>1, <2>1, OneTicketStep
  <2>5. QED
    BY <2>2, <2>3, <2>4 DEF IInv
<1>2. QED
  BY <1>1, StutterIInv

\* The invariant holds in every state of every behaviour.
LEMMA InvariantHolds == Spec => []IInv
BY InitIInv, StepIInv, PTL DEF Spec

\* Every state has the types of TypeOK.
THEOREM RoutingIsTyped == Spec => []TypeOK
<1>1. IInv => TypeOK
  BY DEF IInv
<1>2. QED
  BY <1>1, InvariantHolds, PTL

\* Claudian is told to do a delivery at most once (PluginExecutes).
THEOREM CommandsExecuteOnce == Spec => []ExecutedOnce
<1>1. ASSUME IInv
      PROVE  ExecutedOnce
  <2>1. ASSUME NEW d \in Deliveries
        PROVE  executed[d] <= 1
    <3>1. executed[d] \in Nat
      BY <1>1, CommandRoutingAssumption DEF IInv, TypeOK
    <3>2. executed[d] > 0 => executed[d] = 1
      BY <1>1 DEF IInv, SentOnce
    <3>3. QED
      BY <3>1, <3>2
  <2>2. QED
    BY <2>1 DEF ExecutedOnce
<1>2. QED
  BY <1>1, InvariantHolds, PTL

\* A receipt on its way is the last word, and says what is so.
LEMMA TicketsAreTrue ==
    ASSUME Inv, BoundFirst, OneTicket
    PROVE  ReceiptsAreTrue
<1>1. ASSUME NEW d \in Deliveries, command[d].sends = 1
      PROVE  /\ \A receipt \in ReceiptsUnderWay : receipt.d = d =>
                   Over(d) /\ Means(receipt.result, d)
             /\ command[d].status = "desktop_accepted" =>
                   Over(d) /\ (executed[d] > 0 \/ command[d].kind \in Resolvable)
  <2>1. OnePlace(d) /\ SaidIsSo(d) /\ RunsAlone(d)
    BY <1>1 DEF OneTicket, Ticket, SaidIsSo
  <2>2. DealtWith(d) /\ ~Running(d) => Over(d)
    <3>1. DealtWith(d) => \A r \in Range(bridge.toPlugin) : r.op = "command" => r.d # d
      BY <2>1 DEF OnePlace, AtPlugin, IsCommand, Range
    <3>2. ~Running(d) => \A run \in desktop.running : run.request.d # d
      BY DEF BoundFirst, Running, IsCommand
    <3>3. QED
      BY <3>1, <3>2 DEF Over
  <2>3. ASSUME NEW receipt \in ReceiptsUnderWay, receipt.d = d
        PROVE  Over(d) /\ Means(receipt.result, d)
    <3>1. DealtWith(d) /\ ~Running(d)
      BY <2>1, <2>3 DEF DealtWith, RunsAlone, Unsaid
    <3>2. QED
      BY <2>1, <2>2, <2>3, <3>1 DEF SaidIsSo
  <2>4. ASSUME command[d].status = "desktop_accepted"
        PROVE  Over(d) /\ (executed[d] > 0 \/ command[d].kind \in Resolvable)
    <3>1. DealtWith(d) /\ ~Running(d)
      BY <2>1, <2>4 DEF DealtWith, RunsAlone, Unsaid
    <3>2. QED
      BY <2>1, <2>2, <2>4, <3>1 DEF SaidIsSo
  <2>5. QED
    BY <2>3, <2>4
<1>2. QED
  BY <1>1 DEF ReceiptsAreTrue

\* Of a delivery sent once, a receipt on its way back to the phone is the last word and
\* says what is so: no handler runs on (HandlerReturns), and Claudian was told or not as
\* the receipt's result and the kind of the command say (Means).
THEOREM ReceiptsStayTrue == Spec => []ReceiptsAreTrue
<1>1. IInv => ReceiptsAreTrue
  BY IInvParts, TicketsAreTrue
<1>2. QED
  BY <1>1, InvariantHolds, PTL

\* The step that executes: the plugin is bound to the command's connection, and the
\* relay and the phone know of none that the plugin has not been bound to.
LEMMA StepNoLateExecution ==
    ASSUME Inv, BoundFirst, Next, NEW d \in Deliveries, executed'[d] # executed[d]
    PROVE  mac <= command[d].gen /\ phone.mac <= command[d].gen
<1>1. PhoneTyped /\ RelayTyped /\ PluginTyped /\ MacTyped /\ Counts /\ Phases /\ SentOnce
  BY DEF Inv
<1>2. PluginSteps
  BY NextParts, PhoneFrame, RelayFrame, CompanionFrame
<1>3. PluginExecutes
  <2>1. PluginBinds \/ PluginInvalidates \/ HandlerReturns \/ PluginLeaves
           => UNCHANGED executed
    BY <1>1, PluginBindsDoes, PluginInvalidatesDoes, HandlerReturnsDoes, PluginLeavesDoes
  <2>2. ServerNotices \/ PluginConnects => UNCHANGED executed
    BY DEF ServerNotices, PluginConnects
  <2>3. QED
    BY <1>2, <2>1, <2>2 DEF PluginSteps, PluginNext
<1>4. PICK e \in Deliveries :
           /\ bridge.toPlugin # <<>> /\ IsCommand(NextRequest, e)
           /\ \/ UNCHANGED executed
              \/ /\ desktop.bound = command[e].gen
                 /\ executed' = [executed EXCEPT ![e] = @ + 1]
  BY <1>1, <1>3, PluginExecutesDoes
<1>5. e = d /\ desktop.bound = command[d].gen
  BY <1>1, <1>4, BridgeFields
<1>6. NextRequest.gen = command[d].gen /\ NextRequest.gen \in Gens
  BY <1>1, <1>4, <1>5, NextRequestTyped DEF SentOnce
<1>7. desktop.bound # 0
  BY <1>5, <1>6 DEF Gens
<1>8. Passed(mac) /\ Passed(phone.mac)
  BY DEF BoundFirst
<1>9. QED
  BY <1>5, <1>7, <1>8 DEF Passed

\* No command for a connection older than the one that the relay, or the phone, knows
\* is executed any more.
THEOREM NothingRunsLate == Spec => NoLateExecution
<1>1. IInv /\ [Next]_vars =>
         [\A d \in Deliveries : executed'[d] # executed[d] =>
             mac <= command[d].gen /\ phone.mac <= command[d].gen]_vars
  BY IInvParts, StepNoLateExecution
<1>2. QED
  BY <1>1, InvariantHolds, PTL DEF Spec, NoLateExecution
=============================================================================
