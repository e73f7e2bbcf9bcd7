--------------------------- MODULE CommandRouting ---------------------------
(***************************************************************************)
(* A command's way from the phone to Claudian and its receipt's way back:  *)
(*   src/mobile/view.js, reducer.js           submits, tracks the outcome  *)
(*   gateway/relay/app.py, presence.py        routes to the live Mac       *)
(*   gateway/mac_companion/stream_pump.py     one connection per           *)
(*                                            generation, a command worker *)
(*   gateway/mac_companion/bridge_server.py   requests to the plugin       *)
(*   src/desktop/companion-channel.js         answers them, one socket     *)
(*   src/desktop-adapter.js                   binding, receipts, execution *)
(* There are three unreliable links: HTTP and a WebSocket between phone    *)
(* and relay, a WebSocket per generation between relay and Companion, and  *)
(* the bridge socket between Companion and plugin.  Each process is an     *)
(* event loop: a step is the code between two awaits.  Generations are     *)
(* numbered across restarts of the Companion, each of which starts a new   *)
(* session, so that one number stands for a (session, generation) pair.    *)
(***************************************************************************)
EXTENDS Integers, FiniteSets, Sequences, Functions

CONSTANTS
    Deliveries,   \* delivery ids
    NoDelivery,   \* what the idle command worker is at
    MaxGen,       \* bound: connections the Companion makes
    MaxSends,     \* bound: times one delivery is sent; the protocol allows a
                  \* retry of the same delivery, the phone's view makes none
    MaxFaults,    \* bound: faults in a behaviour
    Faults,       \* the faults that happen: a subset of FaultKinds
    CommandLimit  \* size of the Companion's command queue

FaultKinds == {"http", "refuse", "phone", "link", "bridge", "reload", "restart",
               "timeout", "stale", "throw"}

ASSUME CommandRoutingAssumption ==
    /\ IsFiniteSet(Deliveries) /\ NoDelivery \notin Deliveries
    /\ MaxGen \in Nat /\ MaxSends \in Nat /\ MaxFaults \in Nat
    /\ Faults \subseteq FaultKinds
    /\ CommandLimit \in Nat \ {0}

VARIABLES
    command,    \* command[d]: the phone's record of delivery d, with its kind
    phone,      \* the phone's WebSocket: connected, the Mac it sees, its frames
    asked,      \* asked[d]: HTTP requests that carry d to the relay
    answers,    \* HTTP answers on their way to the phone
    mac,        \* the relay's presence: generation of the current Mac, 0 for none
    link,       \* link[g]: the relay WebSocket of generation g
    sessions,   \* the first generation of every Companion process
    companion,  \* the Companion's connection, command worker and result cache
    outbound,   \* receipts the Companion has yet to write; survives connections
    bridge,     \* the bridge socket between Companion and plugin
    desktop,    \* the adapter: its binding, receipts and running handlers
    executed,   \* history: how often Claudian was told to do d
    faults      \* counter of the bound

vars == <<command, phone, asked, answers, mac, link, sessions, companion, outbound,
          bridge, desktop, executed, faults>>
relayVars == <<mac, link, sessions>>
phoneVars == <<command, phone, asked, answers>>
macVars == <<companion, outbound>>
pluginVars == <<bridge, desktop, executed>>

Gens == 1..MaxGen

(* The commands, by how the adapter handles them:                          *)
(*   submit   message.submit, remembered in the step that tells Claudian   *)
(*   control  turn.stop, approval.respond, history.list, likewise          *)
(*   steer    turn.steer, which awaits Claudian before it is remembered    *)
(*   history  the other history commands and keyframe.request, likewise    *)
(* What a control or steer command is about may have ended before it comes. *)
Kinds == {"submit", "control", "steer", "history"}
Awaits == {"steer", "history"}
Resolvable == {"control", "steer"}

\* "duplicate" is what a delivery with a receipt is told; the others are remembered.
Remembered == {"executed", "rejected", "already_resolved", "unknown"}
Outcomes == Remembered \cup {"duplicate"}
Statuses == {"none", "local_pending", "relay_accepted", "unknown",
             "desktop_accepted", "rejected"}

Receipts == [type : {"receipt"}, gen : Gens, d : Deliveries, result : Outcomes]
Requests == [op : {"bind", "invalidate"}, gen : Gens]
            \cup [op : {"command"}, gen : Gens, d : Deliveries]
Responses == [request : Requests, result : Outcomes \cup {"ok", "error"}]
PhoneFrames == [type : {"presence"}, gen : 0..MaxGen]
               \cup Receipts
Hello == [type |-> "hello"]

TypeOK ==
    /\ command \in [Deliveries -> [status : Statuses, gen : 0..MaxGen,
                                kind : Kinds, sends : 0..MaxSends]]
    /\ phone \in [ws : BOOLEAN, mac : 0..MaxGen, frames : Seq(PhoneFrames)]
    /\ asked \in [Deliveries -> 0..MaxSends]
    /\ answers \subseteq [d : Deliveries,
                          status : {"relay_accepted", "rejected", "unknown", "ignored"}]
    /\ mac \in 0..MaxGen
    /\ link \in [Gens -> [state : {"none", "open", "cut", "closed"},
                          handler : {"none", "waiting", "announcing", "serving", "done"},
                          down : Seq(Deliveries),
                          up : Seq({Hello} \cup Receipts)]]
    /\ sessions \subseteq Gens
    /\ companion \in [gen : 0..MaxGen,
                      phase : {"idle", "binding", "live", "closing", "leaving"},
                      alive : BOOLEAN,
                      queue : Seq(Deliveries),
                      worker : [pc : {"idle", "yielded", "waiting", "failed"},
                                d : Deliveries \cup {NoDelivery}],
                      results : [Deliveries -> Outcomes \cup {"none"}]]
    /\ Len(companion.queue) <= CommandLimit
    /\ outbound \in Seq(Receipts)
    /\ bridge \in [sock : 0..(MaxFaults + 1), state : {"up", "dead", "down"},
                   bound : 0..(MaxFaults + 1),
                   toPlugin : Seq(Requests), toServer : SUBSET Responses]
    /\ desktop \in [bound : 0..MaxGen,
                    receipts : [Deliveries -> Remembered \cup {"none"}],
                    running : SUBSET [request : Requests, sock : 1..(MaxFaults + 1)]]
    /\ executed \in [Deliveries -> 0..MaxSends]
    /\ faults \in 0..MaxFaults

NoLink == [state |-> "none", handler |-> "none", down |-> <<>>, up |-> <<>>]
NoWork == [pc |-> "idle", d |-> NoDelivery]
NoResults == [d \in Deliveries |-> "none"]

Init ==
    /\ command = [d \in Deliveries |-> [status |-> "none", gen |-> 0, kind |-> "submit",
                                        sends |-> 0]]
    /\ phone = [ws |-> FALSE, mac |-> 0, frames |-> <<>>]
    /\ asked = [d \in Deliveries |-> 0] /\ answers = {}
    /\ mac = 0 /\ link = [g \in Gens |-> NoLink] /\ sessions = {1} \cap Gens
    /\ companion = [gen |-> 0, phase |-> "idle", alive |-> FALSE, queue |-> <<>>,
                    worker |-> NoWork, results |-> NoResults]
    /\ outbound = <<>>
    /\ bridge = [sock |-> 0, state |-> "down", bound |-> 0,
                 toPlugin |-> <<>>, toServer |-> {}]
    /\ desktop = [bound |-> 0, receipts |-> NoResults, running |-> {}]
    /\ executed = [d \in Deliveries |-> 0]
    /\ faults = 0

Fault(kind) == kind \in Faults /\ faults < MaxFaults /\ faults' = faults + 1

-----------------------------------------------------------------------------
(* The phone.                                                              *)

Allowed == [none             |-> {},
            local_pending    |-> {"relay_accepted", "unknown", "desktop_accepted", "rejected"},
            relay_accepted   |-> {"desktop_accepted", "rejected"},
            unknown          |-> {"relay_accepted", "desktop_accepted", "rejected"},
            desktop_accepted |-> {},
            rejected         |-> {}]

Moved(record, status) ==
    IF status \in Allowed[record.status] THEN [record EXCEPT !.status = status] ELSE record

\* markUnacceptedCommandsUnknown and rejectUnacceptedCommands
AllMoved(from, status) ==
    [d \in Deliveries |-> IF command[d].status \in from THEN Moved(command[d], status)
                          ELSE command[d]]

(* A command is built for the Mac the phone sees.                          *)
Submit(d) ==
    /\ command[d].status = "none" /\ phone.mac # 0 /\ MaxSends > 0
    /\ \E kind \in Kinds :
          command' = [command EXCEPT ![d] = [status |-> "local_pending", gen |-> phone.mac,
                                             kind |-> kind, sends |-> 1]]
    /\ asked' = [asked EXCEPT ![d] = 1]
    /\ UNCHANGED <<phone, answers, relayVars, macVars, pluginVars, faults>>

(* The same delivery again, byte for byte, because nothing is known of it. *)
Resend(d) ==
    /\ command[d].status = "unknown" /\ command[d].sends < MaxSends
    /\ command' = [command EXCEPT ![d].sends = @ + 1]
    /\ asked' = [asked EXCEPT ![d] = @ + 1]
    /\ UNCHANGED <<phone, answers, relayVars, macVars, pluginVars, faults>>

(* The answer to the POST.  An error without a type is an unknown frame,   *)
(* which the replica ignores.                                              *)
AnswerArrives ==
    \E answer \in answers :
        /\ command' = [command EXCEPT ![answer.d] = Moved(@, answer.status)]
        /\ answers' = answers \ {answer}
        /\ UNCHANGED <<phone, asked, relayVars, macVars, pluginVars, faults>>

\* What is already resolved counts as accepted; so does a duplicate, of whatever it is one.
ResultStatus(result) == IF result \in {"rejected", "unknown"} THEN result
                        ELSE "desktop_accepted"

PhoneReads ==
    /\ phone.frames # <<>>
    /\ LET frame == Head(phone.frames)
           rest == [phone EXCEPT !.frames = Tail(@)]
       IN \/ /\ frame.type = "presence"
             /\ phone' = [rest EXCEPT !.mac = frame.gen]
             /\ command' = IF frame.gen = 0
                           THEN AllMoved({"local_pending", "relay_accepted"}, "rejected")
                           ELSE command
          \/ /\ frame.type = "receipt"
             /\ phone' = rest
             /\ command' = [command EXCEPT ![frame.d] = Moved(@, ResultStatus(frame.result))]
    /\ UNCHANGED <<asked, answers, relayVars, macVars, pluginVars, faults>>

(* A keyframe of the event stream shows a submitted message with the       *)
(* delivery it came from, any time after Claudian got it.                  *)
KeyframeShows(d) ==
    /\ phone.ws /\ executed[d] > 0 /\ command[d].kind = "submit"
    /\ command[d].status \notin {"desktop_accepted", "rejected"}
    /\ command' = [command EXCEPT ![d] = Moved(@, "desktop_accepted")]
    /\ UNCHANGED <<phone, asked, answers, relayVars, macVars, pluginVars, faults>>

(* A new WebSocket starts with the Mac offline, until the snapshot of the  *)
(* presence arrives.                                                       *)
PhoneConnects ==
    /\ ~phone.ws
    /\ phone' = [ws |-> TRUE, mac |-> 0, frames |-> <<[type |-> "presence", gen |-> mac]>>]
    /\ UNCHANGED <<command, asked, answers, relayVars, macVars, pluginVars, faults>>

PhoneDisconnects ==
    /\ Fault("phone")
    /\ phone.ws
    /\ phone' = [phone EXCEPT !.ws = FALSE, !.frames = <<>>]
    /\ command' = AllMoved({"local_pending"}, "unknown")
    /\ UNCHANGED <<asked, answers, relayVars, macVars, pluginVars>>

-----------------------------------------------------------------------------
(* The relay.                                                              *)

Told(frame) == IF phone.ws THEN [phone EXCEPT !.frames = Append(@, frame)] ELSE phone

(* submit_command: compare, then enqueue, under the presence lock.         *)
Routable(d) == mac # 0 /\ command[d].gen = mac

Route(d) ==
    /\ asked[d] > 0
    /\ asked' = [asked EXCEPT ![d] = @ - 1]
    /\ \/ /\ Routable(d)
          /\ link' = IF link[mac].state = "open"
                     THEN [link EXCEPT ![mac].down = Append(@, d)] ELSE link
          /\ answers' = answers \cup {[d |-> d, status |-> "relay_accepted"]}
       \/ /\ ~Routable(d)
          /\ answers' = answers \cup {[d |-> d, status |-> "rejected"]}
          /\ UNCHANGED link
    /\ UNCHANGED <<command, phone, mac, sessions, macVars, pluginVars, faults>>

(* The relay is shutting down, or the credential is no longer active.      *)
Refuse(d) ==
    /\ Fault("refuse")
    /\ asked[d] > 0
    /\ asked' = [asked EXCEPT ![d] = @ - 1]
    /\ answers' = answers \cup {[d |-> d, status |-> "ignored"]}
    /\ UNCHANGED <<command, phone, relayVars, macVars, pluginVars>>

(* The POST fails on its way there, or its answer on the way back.         *)
HttpFails(d) ==
    /\ Fault("http")
    /\ \/ /\ asked[d] > 0
          /\ asked' = [asked EXCEPT ![d] = @ - 1]
          /\ answers' = answers \cup {[d |-> d, status |-> "unknown"]}
       \/ /\ UNCHANGED asked
          /\ \E answer \in answers :
                /\ answer.d = d /\ answer.status # "unknown"
                /\ answers' = (answers \ {answer}) \cup {[answer EXCEPT !.status = "unknown"]}
    /\ UNCHANGED <<command, phone, relayVars, macVars, pluginVars>>

SameSession(g, h) == \A s \in sessions : s <= g <=> s <= h

StaleHello(g) == mac # 0 /\ SameSession(g, mac) /\ g <= mac

(* mac.hello: refused if it is older than the current Mac of its session;  *)
(* else it takes over.  The socket it supersedes is closed, which waits for *)
(* the other side or for a timeout, before the phone is told.              *)
MacHello(g) ==
    /\ link[g].handler = "waiting" /\ link[g].up # <<>>
    /\ \/ /\ StaleHello(g)
          /\ link' = [link EXCEPT ![g] = [@ EXCEPT !.state = "cut", !.handler = "done",
                                                   !.up = <<>>, !.down = <<>>]]
          /\ UNCHANGED <<mac, phone>>
       \/ /\ mac = 0
          /\ mac' = g
          /\ link' = [link EXCEPT ![g].handler = "serving", ![g].up = Tail(@)]
          /\ phone' = Told([type |-> "presence", gen |-> g])
       \/ /\ mac # 0 /\ ~StaleHello(g)
          /\ mac' = g
          /\ link' = [link EXCEPT ![g].handler = "announcing", ![g].up = Tail(@),
                                  ![mac] = [@ EXCEPT !.state = "cut", !.down = <<>>, !.up = <<>>]]
          /\ UNCHANGED phone
    /\ UNCHANGED <<command, asked, answers, sessions, macVars, pluginVars, faults>>

MacAnnounces(g) ==
    /\ link[g].handler = "announcing"
    /\ link' = [link EXCEPT ![g].handler = "serving"]
    /\ phone' = Told([type |-> "presence", gen |-> g])
    /\ UNCHANGED <<command, asked, answers, mac, sessions, macVars, pluginVars, faults>>

(* A receipt is broadcast only if this connection is the current Mac and   *)
(* the receipt carries its generation.                                     *)
MacReceipt(g) ==
    /\ link[g].handler = "serving" /\ link[g].up # <<>>
    /\ LET frame == Head(link[g].up)
       IN phone' = IF frame # Hello /\ mac = g /\ frame.gen = g THEN Told(frame) ELSE phone
    /\ link' = [link EXCEPT ![g].up = Tail(@)]
    /\ UNCHANGED <<command, asked, answers, mac, sessions, macVars, pluginVars, faults>>

\* Fault variant: any connection that ends takes the Mac offline.
UnregisteredAnyway(g) == 0

\* unregister_mac: only the connection that is current gives up the place.
Unregistered(g) == IF mac = g THEN 0 ELSE mac

(* The relay sees that the socket is gone.                                 *)
MacGone(g) ==
    /\ link[g].state \in {"cut", "closed"} /\ link[g].up = <<>>
    /\ link[g].handler \in {"waiting", "serving"}
    /\ link' = [link EXCEPT ![g].handler = "done"]
    /\ mac' = Unregistered(g)
    /\ phone' = IF mac' # mac THEN Told([type |-> "presence", gen |-> 0]) ELSE phone
    /\ UNCHANGED <<command, asked, answers, sessions, macVars, pluginVars, faults>>

(* The network between relay and Companion fails; neither knows yet.       *)
LinkFails(g) ==
    /\ Fault("link")
    /\ link[g].state = "open"
    /\ link' = [link EXCEPT ![g] = [@ EXCEPT !.state = "cut", !.up = <<>>, !.down = <<>>]]
    /\ UNCHANGED <<phoneVars, mac, sessions, macVars, pluginVars>>

-----------------------------------------------------------------------------
(* The Companion.  Its writer, reader, event pump and command worker run   *)
(* while companion.alive; the dispatcher accepts commands only while the   *)
(* connection is live.                                                     *)

Current == companion.gen
Active == companion.phase = "live"

Sent(request) == IF bridge.state = "up"
                 THEN [bridge EXCEPT !.toPlugin = Append(@, request)] ELSE bridge

\* Fault variant: the hello goes out without waiting for the plugin to be bound.
ConnectUnbound ==
    /\ companion.phase = "idle" /\ Current < MaxGen /\ bridge.state # "down"
    /\ companion' = [companion EXCEPT !.gen = @ + 1, !.phase = "binding"]
    /\ link' = [link EXCEPT ![Current + 1] =
                   [@ EXCEPT !.state = "open", !.handler = "waiting", !.up = <<Hello>>]]
    /\ bridge' = Sent([op |-> "bind", gen |-> Current + 1])
    /\ UNCHANGED <<phoneVars, mac, sessions, outbound, desktop, executed, faults>>

(* run_connection: a new generation binds the plugin first.  An attempt    *)
(* that finds no plugin changes nothing but the generation number, and is  *)
(* left out.                                                               *)
Connect ==
    /\ companion.phase = "idle" /\ Current < MaxGen /\ bridge.state # "down"
    /\ companion' = [companion EXCEPT !.gen = @ + 1, !.phase = "binding"]
    /\ link' = [link EXCEPT ![Current + 1] = [@ EXCEPT !.state = "open", !.handler = "waiting"]]
    /\ bridge' = Sent([op |-> "bind", gen |-> Current + 1])
    /\ UNCHANGED <<phoneVars, mac, sessions, outbound, desktop, executed, faults>>

Answered(request, result) == [request |-> request, result |-> result] \in bridge.toServer

Taken(request) == [bridge EXCEPT !.toServer = {r \in @ : r.request # request}]

(* The plugin is bound: the tasks start, the writer with the hello.        *)
BindReturns ==
    LET request == [op |-> "bind", gen |-> Current]
    IN /\ companion.phase = "binding"
       /\ \/ /\ Answered(request, "ok")
             /\ companion' = [companion EXCEPT !.phase = "live", !.alive = TRUE]
             /\ bridge' = [Taken(request) EXCEPT !.bound = bridge.sock]
             /\ link' = IF link[Current].state = "open"
                        THEN [link EXCEPT ![Current].up = Append(@, Hello)] ELSE link
          \/ /\ Answered(request, "error")
             /\ companion' = [companion EXCEPT !.phase = "leaving"]
             /\ bridge' = Taken(request)
             /\ UNCHANGED link
       /\ UNCHANGED <<phoneVars, mac, sessions, outbound, desktop, executed, faults>>

Receipt(d, result) == [type |-> "receipt", gen |-> Current, d |-> d, result |-> result]

\* Fault variants: a worker whose request timed out asks again, or says no.
WorkerRetries ==
    /\ companion.worker.pc = "waiting"
    /\ companion' = [companion EXCEPT !.worker.pc = "yielded"]
    /\ UNCHANGED outbound
WorkerRejects ==
    /\ companion.worker.pc = "waiting"
    /\ companion' = [companion EXCEPT !.worker = NoWork]
    /\ outbound' = Append(outbound, Receipt(companion.worker.d, "rejected"))

\* The timeout is an error of the worker: it says nothing, and the connection ends.
WorkerGivesUp ==
    /\ companion.worker.pc = "waiting"
    /\ companion' = [companion EXCEPT !.worker.pc = "failed"]
    /\ UNCHANGED outbound

(* A bridge request of the connection or of its worker times out.          *)
RequestTimesOut ==
    /\ Fault("timeout")
    /\ \/ /\ companion.phase \in {"binding", "closing"}
          /\ companion' = [companion EXCEPT !.phase = "leaving", !.alive = FALSE]
          /\ UNCHANGED outbound
       \/ WorkerGivesUp
    /\ UNCHANGED <<phoneVars, relayVars, pluginVars>>

HasRoom(queue) == Len(queue) < CommandLimit

ReaderTakes ==
    /\ companion.alive /\ link[Current].down # <<>>
    /\ link' = [link EXCEPT ![Current].down = Tail(@)]
    /\ LET d == Head(link[Current].down)
       IN IF HasRoom(companion.queue)
          THEN /\ companion' = [companion EXCEPT !.queue = Append(@, d)]
               /\ UNCHANGED outbound
          ELSE /\ outbound' = Append(outbound, Receipt(d, "rejected"))
               /\ UNCHANGED companion
    /\ UNCHANGED <<phoneVars, mac, sessions, pluginVars, faults>>

(* dispatch, up to its yield: a delivery whose result is known, a command  *)
(* for another generation, or one to execute.                              *)
WorkerTakes ==
    /\ companion.alive /\ companion.worker.pc = "idle" /\ companion.queue # <<>>
    /\ LET d == Head(companion.queue)
           rest == [companion EXCEPT !.queue = Tail(@)]
       IN CASE companion.results[d] # "none" ->
                 /\ outbound' = Append(outbound, Receipt(d, "duplicate"))
                 /\ companion' = rest
            [] companion.results[d] = "none" /\ ~(Active /\ command[d].gen = Current) ->
                 /\ outbound' = Append(outbound, Receipt(d, "rejected"))
                 /\ companion' = rest
            [] OTHER ->
                 /\ companion' = [rest EXCEPT !.worker = [pc |-> "yielded", d |-> d]]
                 /\ UNCHANGED outbound
    /\ UNCHANGED <<phoneVars, relayVars, pluginVars, faults>>

CommandRequest(d) == [op |-> "command", gen |-> Current, d |-> d]

(* dispatch, after its yield.                                              *)
WorkerSends ==
    /\ companion.alive /\ companion.worker.pc = "yielded"
    /\ LET d == companion.worker.d
       IN CASE ~Active ->
                 /\ outbound' = Append(outbound, Receipt(d, "rejected"))
                 /\ companion' = [companion EXCEPT !.worker = NoWork]
                 /\ UNCHANGED bridge
            [] Active /\ (bridge.bound # bridge.sock \/ bridge.state = "down") ->
                 /\ companion' = [companion EXCEPT !.worker.pc = "failed"]
                 /\ UNCHANGED <<outbound, bridge>>
            [] OTHER ->
                 /\ bridge' = Sent(CommandRequest(d))
                 /\ companion' = [companion EXCEPT !.worker.pc = "waiting"]
                 /\ UNCHANGED outbound
    /\ UNCHANGED <<phoneVars, relayVars, desktop, executed, faults>>

(* The plugin's answer is remembered and becomes the receipt; an error     *)
(* ends the worker.                                                        *)
WorkerReturns ==
    /\ companion.alive /\ companion.worker.pc = "waiting"
    /\ LET d == companion.worker.d
       IN /\ bridge' = Taken(CommandRequest(d))
          /\ \/ /\ Answered(CommandRequest(d), "error")
                /\ companion' = [companion EXCEPT !.worker.pc = "failed"]
                /\ UNCHANGED outbound
             \/ \E result \in Outcomes :
                   /\ Answered(CommandRequest(d), result)
                   /\ companion' = [companion EXCEPT !.worker = NoWork, !.results[d] = result]
                   /\ outbound' = Append(outbound, Receipt(d, result))
    /\ UNCHANGED <<phoneVars, relayVars, desktop, executed, faults>>

(* The writer does not look at a receipt's generation.                     *)
WriterWrites ==
    /\ companion.alive /\ outbound # <<>>
    /\ outbound' = Tail(outbound)
    /\ link' = IF link[Current].state = "open"
               THEN [link EXCEPT ![Current].up = Append(@, Head(outbound))] ELSE link
    /\ UNCHANGED <<phoneVars, mac, sessions, companion, pluginVars, faults>>

TransportEnded == bridge.sock # bridge.bound \/ bridge.state = "down"

(* The end of run_connection: deactivate, then invalidate the binding if   *)
(* the plugin still has it.  The other tasks are cancelled before that if  *)
(* a task returned, after it if one raised.                                *)
Ends(tasksRun) ==
    /\ bridge' = [(IF TransportEnded THEN bridge
                   ELSE Sent([op |-> "invalidate", gen |-> Current])) EXCEPT !.bound = 0]
    /\ companion' = [companion EXCEPT
                        !.phase = IF TransportEnded THEN "leaving" ELSE "closing",
                        !.alive = tasksRun /\ ~TransportEnded,
                        !.results = NoResults]
    /\ UNCHANGED <<phoneVars, relayVars, outbound, desktop, executed, faults>>

RelayLost == Active /\ link[Current].state # "open" /\ \E raised \in BOOLEAN : Ends(raised)

TaskFails == Active /\ (companion.worker.pc = "failed" \/ TransportEnded) /\ Ends(TRUE)

InvalidateReturns ==
    LET request == [op |-> "invalidate", gen |-> Current]
    IN /\ companion.phase = "closing"
       /\ Answered(request, "ok")
       /\ companion' = [companion EXCEPT !.phase = "leaving", !.alive = FALSE]
       /\ bridge' = Taken(request)
       /\ UNCHANGED <<phoneVars, relayVars, outbound, desktop, executed, faults>>

(* run_forever closes the socket; frames already written still arrive.     *)
Leave ==
    /\ companion.phase = "leaving"
    /\ companion' = [companion EXCEPT !.phase = "idle", !.queue = <<>>, !.worker = NoWork,
                                      !.results = NoResults]
    /\ link' = [link EXCEPT ![Current].state = IF @ = "open" THEN "closed" ELSE @,
                            ![Current].down = <<>>]
    /\ UNCHANGED <<phoneVars, mac, sessions, outbound, pluginVars, faults>>

(* The Companion's process dies; the next one is a new session.  What the  *)
(* plugin has received it still handles.                                   *)
Restart ==
    /\ Fault("restart")
    /\ Current \in 1..(MaxGen - 1) /\ Current + 1 \notin sessions
    /\ sessions' = sessions \cup {Current + 1}
    /\ companion' = [companion EXCEPT !.phase = "idle", !.alive = FALSE, !.queue = <<>>,
                                      !.worker = NoWork, !.results = NoResults]
    /\ outbound' = <<>>
    /\ bridge' = [bridge EXCEPT !.state = "down", !.bound = 0, !.toServer = {}]
    /\ link' = [link EXCEPT ![Current].state = IF @ = "open" THEN "cut" ELSE @,
                            ![Current].down = <<>>]
    /\ UNCHANGED <<phoneVars, mac, desktop, executed>>

-----------------------------------------------------------------------------
(* The bridge socket and the plugin.                                       *)

\* _fail_pending: what waits for an answer gets an error.
FailPending(c) ==
    [c EXCEPT !.phase = IF @ \in {"binding", "closing"} THEN "leaving" ELSE @,
              !.alive = IF c.phase = "closing" THEN FALSE ELSE @,
              !.worker.pc = IF @ = "waiting" THEN "failed" ELSE @]

(* The plugin's end of the socket goes, and the server does not know yet.  *)
(* The plugin may come back as a new instance, or have cleared its binding *)
(* itself (refreshCompatibility).                                          *)
PluginLeaves ==
    /\ bridge.state = "up"
    /\ \/ Fault("bridge") /\ UNCHANGED desktop
       \/ /\ Fault("reload")
          /\ desktop' = [bound |-> 0, receipts |-> NoResults, running |-> {}]
    /\ bridge' = [bridge EXCEPT !.state = "dead", !.toPlugin = <<>>, !.toServer = {}]
    /\ UNCHANGED <<phoneVars, relayVars, macVars, executed>>

ServerNotices ==
    /\ bridge.state = "dead"
    /\ bridge' = [bridge EXCEPT !.state = "down"]
    /\ companion' = FailPending(companion)
    /\ UNCHANGED <<phoneVars, relayVars, outbound, desktop, executed, faults>>

(* A new authenticated socket replaces the one before it.                  *)
PluginConnects ==
    /\ bridge.state # "up" /\ bridge.sock <= MaxFaults
    /\ bridge' = [bridge EXCEPT !.sock = @ + 1, !.state = "up", !.toPlugin = <<>>]
    /\ companion' = FailPending(companion)
    /\ UNCHANGED <<phoneVars, relayVars, outbound, desktop, executed, faults>>

\* A response is sent only on the socket its request came from.
Replied(b, request, result) ==
    IF b.state = "up"
    THEN [b EXCEPT !.toServer = @ \cup {[request |-> request, result |-> result]}] ELSE b

NextRequest == Head(bridge.toPlugin)
Received == [bridge EXCEPT !.toPlugin = Tail(@)]

PluginBinds ==
    /\ bridge.toPlugin # <<>> /\ NextRequest.op = "bind"
    /\ desktop' = IF desktop.bound = NextRequest.gen THEN desktop
                  ELSE [desktop EXCEPT !.bound = NextRequest.gen, !.receipts = NoResults]
    /\ \/ /\ bridge' = Replied(Received, NextRequest, "ok")
          /\ UNCHANGED faults
       \/ /\ Fault("throw")   \* emitBootstrap fails
          /\ bridge' = Replied(Received, NextRequest, "error")
    /\ UNCHANGED <<phoneVars, relayVars, macVars, executed>>

PluginInvalidates ==
    /\ bridge.toPlugin # <<>> /\ NextRequest.op = "invalidate"
    /\ desktop' = IF desktop.bound # NextRequest.gen THEN desktop
                  ELSE [desktop EXCEPT !.bound = 0, !.receipts = NoResults]
    /\ bridge' = Replied(Received, NextRequest, "ok")
    /\ UNCHANGED <<phoneVars, relayVars, macVars, executed, faults>>

(* execute: the receipt of this delivery if there is one; else preflight   *)
(* and the handler's own checks, whose refusals are remembered; else what  *)
(* the handler does up to its first await, if it has one.  (A steer with   *)
(* nothing to send is counted as executed all the same.)                   *)
PluginExecutes ==
    /\ bridge.toPlugin # <<>> /\ NextRequest.op = "command"
    /\ LET d == NextRequest.d
           remembered(result) == [desktop EXCEPT !.receipts[d] = result]
       IN \/ /\ desktop.receipts[d] # "none"
             /\ bridge' = Replied(Received, NextRequest, "duplicate")
             /\ UNCHANGED <<desktop, executed, faults>>
          \/ /\ desktop.receipts[d] = "none"
             /\ \/ desktop.bound # command[d].gen /\ UNCHANGED faults
                \/ Fault("stale")   \* expired, another conversation, revision or turn; busy
             /\ bridge' = Replied(Received, NextRequest, "rejected")
             /\ desktop' = remembered("rejected")
             /\ UNCHANGED executed
          \/ /\ desktop.receipts[d] = "none" /\ desktop.bound = command[d].gen
             /\ command[d].kind \in Resolvable
             /\ bridge' = Replied(Received, NextRequest, "already_resolved")
             /\ desktop' = remembered("already_resolved")
             /\ UNCHANGED <<executed, faults>>
          \/ /\ desktop.receipts[d] = "none" /\ desktop.bound = command[d].gen
             /\ executed' = [executed EXCEPT ![d] = @ + 1]
             /\ IF command[d].kind \in Awaits
                THEN /\ bridge' = Received
                     /\ desktop' = [desktop EXCEPT !.running =
                                       @ \cup {[request |-> NextRequest, sock |-> bridge.sock]}]
                ELSE /\ bridge' = Replied(Received, NextRequest, "executed")
                     /\ desktop' = remembered("executed")
             /\ UNCHANGED faults
    /\ UNCHANGED <<phoneVars, relayVars, macVars>>

(* How a handler that awaited ends, Claudian having been told: what it     *)
(* asked for was confirmed or was not, and a steer may have got no word.   *)
HandlerAnswers(kind) ==
    {"executed", "rejected"} \cup (IF kind = "steer" THEN {"unknown"} ELSE {})

(* It is remembered then, unless it throws.                                *)
HandlerReturns ==
    \E run \in desktop.running :
        LET d == run.request.d
            returned(result) == IF run.sock = bridge.sock
                                THEN Replied(bridge, run.request, result) ELSE bridge
            done == [desktop EXCEPT !.running = @ \ {run}]
        IN /\ \/ \E result \in HandlerAnswers(command[d].kind) :
                    /\ bridge' = returned(result)
                    /\ desktop' = [done EXCEPT !.receipts[d] = result]
                    /\ UNCHANGED faults
              \/ /\ Fault("throw")
                 /\ bridge' = returned("error")
                 /\ desktop' = done
           /\ UNCHANGED <<phoneVars, relayVars, macVars, executed>>

-----------------------------------------------------------------------------
PhoneNext ==
    \/ \E d \in Deliveries : Submit(d) \/ Resend(d) \/ KeyframeShows(d)
    \/ AnswerArrives \/ PhoneReads \/ PhoneConnects

RelayNext ==
    \/ \E d \in Deliveries : Route(d)
    \/ \E g \in Gens : MacHello(g) \/ MacAnnounces(g) \/ MacReceipt(g) \/ MacGone(g)

CompanionNext ==
    \/ Connect \/ BindReturns \/ ReaderTakes
    \/ WorkerTakes \/ WorkerSends \/ WorkerReturns \/ WriterWrites
    \/ RelayLost \/ TaskFails \/ InvalidateReturns \/ Leave

PluginNext ==
    \/ ServerNotices \/ PluginConnects
    \/ PluginBinds \/ PluginInvalidates \/ PluginExecutes \/ HandlerReturns

Trouble ==
    \/ \E d \in Deliveries : Refuse(d) \/ HttpFails(d)
    \/ \E g \in Gens : LinkFails(g)
    \/ PhoneDisconnects \/ RequestTimesOut \/ Restart \/ PluginLeaves

Next == PhoneNext \/ RelayNext \/ CompanionNext \/ PluginNext \/ Trouble

Spec == Init /\ [][Next]_vars

(* Every task that can go on does: the event loops are not starved, sockets *)
(* deliver or are found closed (heartbeats), the plugin and the Companion   *)
(* reconnect.  What the user does and what fails is not promised.           *)
FairSpec ==
    /\ Spec
    /\ WF_vars(AnswerArrives) /\ WF_vars(PhoneReads) /\ WF_vars(PhoneConnects)
    /\ \A d \in Deliveries : WF_vars(Route(d))
    /\ \A g \in Gens : /\ WF_vars(MacHello(g)) /\ WF_vars(MacAnnounces(g))
                       /\ WF_vars(MacReceipt(g)) /\ WF_vars(MacGone(g))
    /\ WF_vars(Connect) /\ WF_vars(BindReturns) /\ WF_vars(ReaderTakes)
    /\ WF_vars(WorkerTakes) /\ WF_vars(WorkerSends) /\ WF_vars(WorkerReturns)
    /\ WF_vars(WriterWrites) /\ WF_vars(RelayLost) /\ WF_vars(TaskFails)
    /\ WF_vars(InvalidateReturns) /\ WF_vars(Leave)
    /\ WF_vars(ServerNotices) /\ WF_vars(PluginConnects)
    /\ WF_vars(PluginBinds) /\ WF_vars(PluginInvalidates) /\ WF_vars(PluginExecutes)
    /\ WF_vars(HandlerReturns)

-----------------------------------------------------------------------------
(* Properties.                                                             *)

(* Claudian is told to do a delivery at most once, however often it is     *)
(* sent, whatever times out, reconnects or restarts on the way.            *)
ExecutedOnce == \A d \in Deliveries : executed[d] <= 1

(* Once the relay or the phone knows a newer connection of the Mac, no     *)
(* command for an older one is executed any more, although the Companion,  *)
(* the bridge socket and the plugin may all still hold it.                 *)
NoLateExecution ==
    [][\A d \in Deliveries : executed'[d] # executed[d] =>
           mac <= command[d].gen /\ phone.mac <= command[d].gen]_vars

ReceiptsUnderWay ==
    Range(outbound)
    \cup (UNION {Range(link[g].up) \ {Hello} : g \in Gens})
    \cup {frame \in Range(phone.frames) : frame.type = "receipt"}

(* Nothing more comes of a delivery: no command for it waits in the socket *)
(* to the plugin, and no handler of it runs.                               *)
Over(d) ==
    /\ \A r \in Range(bridge.toPlugin) : r.op = "command" => r.d # d
    /\ \A run \in desktop.running : run.request.d # d

(* What a receipt says of a delivery that was sent once.  A refusal says    *)
(* that Claudian was not told only if the handler does not await: a steer  *)
(* or a history command is also refused when Claudian was told and did not *)
(* confirm it.                                                             *)
Means(result, d) ==
    /\ result # "duplicate"
    /\ result = "executed" => executed[d] > 0
    /\ result = "rejected" => executed[d] = 0 \/ command[d].kind \in Awaits
    /\ result = "already_resolved" => executed[d] = 0 /\ command[d].kind \in Resolvable
    /\ result = "unknown" => command[d].kind = "steer"

(* Of a delivery that was sent once, a receipt on its way to the phone is  *)
(* the last word: neither Companion nor plugin will still begin or go on   *)
(* with it, and what the receipt says of it is so.  And the phone shows it *)
(* as accepted by the desktop only if it is over, and was done unless what *)
(* it was about may have ended before.                                     *)
ReceiptsAreTrue ==
    \A d \in Deliveries : command[d].sends = 1 =>
        /\ \A receipt \in {r \in ReceiptsUnderWay : r.d = d} :
               Over(d) /\ Means(receipt.result, d)
        /\ command[d].status = "desktop_accepted" =>
               Over(d) /\ (executed[d] > 0 \/ command[d].kind \in Resolvable)

(* When nothing fails any more, the Companion, the plugin and the relay    *)
(* come to agree on one connection of the Mac, and stay so.                *)
Agree ==
    /\ companion.phase = "live" /\ mac = Current
    /\ desktop.bound = mac /\ bridge.bound = bridge.sock
AgreementReturns == <>[]Agree

(* And the phone comes to know that connection.                            *)
PhoneLearnsTheMac == <>[](phone.ws /\ phone.mac = mac)

(* What the phone holds as rejected, so that the text goes back to the     *)
(* composer for another try, was not done.                                 *)
RejectedNeverExecuted ==
    \A d \in Deliveries : command[d].status = "rejected" => executed[d] = 0

(* A command the relay accepted gets an outcome on the phone.              *)
RoutedCommandsSettle ==
    \A d \in Deliveries :
        command[d].status = "relay_accepted" ~> command[d].status # "relay_accepted"

=============================================================================
