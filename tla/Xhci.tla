-------------------------------- MODULE Xhci --------------------------------
(***************************************************************************)
(* xhci.c: the driver enumerates the ports with commands it waits for, and  *)
(* then reads one keyboard by interrupts.  The controller (external) is     *)
(* what the driver takes it for: it puts its events on the event ring, in   *)
(* order, while there is room, and an answer comes in time or never.        *)
(***************************************************************************)
EXTENDS Integers, Sequences, SequencesExt, FiniteSets

(* xhci_handle_keyboard_report: a USB keyboard reports which keys are down, *)
(* the keyboard driver wants what was pressed and released since.           *)
CONSTANTS Scancode,      \* hid_to_scancode: key -> code, 0 for none
          Modifiers      \* sequence of [name, code], as they are looked at

Keys(report) == Range(report.keys) \ {0}
Code(k) == IF k \in DOMAIN Scancode THEN Scancode[k] ELSE 0
NoKeys == [mods |-> {}, keys |-> <<>>]

Event(code, down) == [code |-> code, down |-> down]

(* What is sent for the keys of one report that the other lacks, slot by    *)
(* slot: code 0 is no call.                                                 *)
Changed(r, other, down) ==
    [i \in DOMAIN r.keys |->
        Event(IF r.keys[i] \in Keys(other) \cup {0} THEN 0 ELSE Code(r.keys[i]), down)]

(* Each modifier that has changed.                                          *)
ChangedMods(last, new) ==
    [i \in DOMAIN Modifiers |->
        LET m == Modifiers[i]
        IN  Event(IF (m.name \in last.mods) = (m.name \in new.mods) THEN 0 ELSE m.code,
                  m.name \in new.mods)]

Sent(last, new) ==
    Changed(new, last, TRUE) \o Changed(last, new, FALSE) \o ChangedMods(last, new)

(* What is down for the keyboard driver after these calls: what was pressed *)
(* and not released since, and what was down and not released.              *)
After(down, sent) ==
    LET Released(code, i) == \E j \in DOMAIN sent : j > i /\ sent[j] = Event(code, FALSE)
    IN  {c \in down : ~Released(c, 0)}
            \cup {sent[i].code : i \in {j \in DOMAIN sent : /\ sent[j].down /\ sent[j].code # 0
                                                        /\ ~Released(sent[j].code, j)}}

(* What gives a code, and what of it a report has.                          *)
Senders(code) ==
    {<<"key", k>> : k \in {x \in DOMAIN Scancode : Scancode[x] = code}}
        \cup {<<"modifier", m.name>> : m \in {x \in Range(Modifiers) : x.code = code}}
Codes == (Range(Scancode) \cup {m.code : m \in Range(Modifiers)}) \ {0}
Reported(report) ==
    {<<"key", k>> : k \in Keys(report)} \cup {<<"modifier", name>> : name \in report.mods}
-----------------------------------------------------------------------------
CONSTANTS RING,          \* TRBs of a page
          Ports,         \* max_ports
          Connected,     \* those a device is plugged in
          Reports,       \* what the keyboard may report
          MaxReports,    \* bound on the reports
          MaxFaults      \* bound on what fails or goes without an answer

ASSUME RingAssumption == RING \in Nat \ {0, 1} /\ Ports \in Nat /\ Connected \subseteq 1 .. Ports
ASSUME KeysAssumption ==
    /\ Scancode \in [DOMAIN Scancode -> Nat]
    /\ Modifiers \in Seq([name : STRING, code : Nat \ {0}])
    /\ Reports \subseteq [mods : SUBSET STRING, keys : Seq(Nat)]

(* "We assume Slot 1 for now" (xhci.c:408): one device is plugged in.       *)
OneDevice == \A p, q \in Connected : p = q

VARIABLES pc, port,               \* where xhci_init is, or xhci_handle_irq
          waiting,                \* in xhci_wait_for_event
          n,                      \* commands and control transfers so far
          taken,                  \* history: which of them the last answer was for
          ring, dequeue,          \* the event ring, its entry and cycle the driver is at
          queued,                 \* transfers put on the ring of endpoint 1
          last_report, buf, failed,
          down,                   \* what kbd_process_scancode has been told is down
          asked, enqueue, ip, prc, xfers, reports, failures     \* of the controller

driver == <<pc, port, waiting, n, taken, dequeue, queued, last_report, failed, down>>
controller == <<enqueue, ip, reports, failures>>
usbVars == <<driver, ring, buf, asked, prc, xfers, controller>>

Commands == {"noop", "slot", "address", "configure"}
Start == [at |-> 0, cycle |-> 1]
NoEvent == [cycle |-> 0, type |-> "none", ok |-> TRUE, of |-> 0]

(* The entry after this one, at the end of the page the first, of the other *)
(* cycle.                                                                   *)
NextEntry(p) ==
    [at |-> (p.at + 1) % RING, cycle |-> IF p.at + 1 = RING THEN 1 - p.cycle ELSE p.cycle]

(* A slip: the consumer's cycle state stays as it is.                       *)
NextEvent_KeepsCycle(p) == [p EXCEPT !.at = (@ + 1) % RING]

(* How xhci_poll_event advances.                                            *)
NextEvent(p) == NextEntry(p)

UsbInit ==
    /\ pc = "noop" /\ port = 1 /\ waiting = FALSE /\ n = 0 /\ taken = 0
    /\ ring = [i \in 0 .. RING - 1 |-> NoEvent] /\ dequeue = Start /\ queued = 0
    /\ last_report = NoKeys /\ buf = NoKeys /\ failed = FALSE /\ down = {}
    /\ asked = <<>> /\ enqueue = Start /\ ip = FALSE /\ prc = "none"
    /\ xfers = 0 /\ reports = 0 /\ failures = 0
-----------------------------------------------------------------------------
(* Where xhci_init goes on after the answer to a step; the outcome of the   *)
(* control transfer is ignored.                                             *)
Then(step, ok) ==
    CASE step = "noop" -> "port"
      [] step = "slot" /\ ok -> "address"
      [] step = "address" /\ ok -> "control"
      [] step = "control" -> "configure"
      [] step = "configure" /\ ok -> "listen"
      [] OTHER -> "port"

(* A failed step gives the port up.                                         *)
Resume(step, ok) ==
    /\ pc' = Then(step, ok)
    /\ port' = IF step # "noop" /\ pc' = "port" THEN port + 1 ELSE port

(* xhci_send_command, and the doorbell of xhci_send_control_transfer.       *)
Send ==
    /\ pc \in Commands \cup {"control"} /\ ~waiting
    /\ n' = n + 1 /\ waiting' = TRUE
    /\ asked' = Append(asked, [step |-> pc, id |-> n + 1])
    /\ UNCHANGED <<pc, port, taken, dequeue, queued, last_report, failed, down,
                   ring, buf, prc, xfers, controller>>

(* The event the driver is at is new.                                       *)
Pending == ring[dequeue.at].cycle = dequeue.cycle
Ev == ring[dequeue.at]

(* A slip: the first event answers, of whatever type it is.                 *)
Wanted_Any(event) == TRUE

(* What xhci_wait_for_event returns; other events are dropped.              *)
Wanted(event) == event.type = IF pc = "control" THEN "transfer" ELSE "command"

Wait ==
    /\ waiting /\ Pending
    /\ dequeue' = NextEvent(dequeue)
    /\ IF Wanted(Ev)
         THEN Resume(pc, Ev.ok) /\ waiting' = FALSE /\ taken' = Ev.of
         ELSE UNCHANGED <<pc, port, waiting, taken>>
    /\ UNCHANGED <<n, queued, last_report, failed, down, ring, buf, asked, prc, xfers, controller>>

(* Its loop has come to its end; what was asked went without an answer.     *)
TimeOut ==
    /\ waiting /\ ~Pending /\ asked = <<>>
    /\ Resume(pc, FALSE) /\ waiting' = FALSE
    /\ UNCHANGED <<n, taken, dequeue, queued, last_report, failed, down,
                   ring, buf, asked, prc, xfers, controller>>

(* The loop over the ports: reset one, wait for the change, look if it is   *)
(* enabled.                                                                 *)
ResetPort ==
    /\ pc = "port" /\ port <= Ports
    /\ IF port \in Connected
         THEN pc' = "reset" /\ prc' = "reset" /\ UNCHANGED port
         ELSE port' = port + 1 /\ UNCHANGED <<pc, prc>>
    /\ UNCHANGED <<waiting, n, taken, dequeue, queued, last_report, failed, down,
                   ring, buf, asked, xfers, controller>>

PortIsReset ==
    /\ pc = "reset" /\ prc \in {"enabled", "disabled"}
    /\ IF prc = "enabled" THEN pc' = "slot" /\ UNCHANGED port
                          ELSE pc' = "port" /\ port' = port + 1
    /\ prc' = "none"
    /\ UNCHANGED <<waiting, n, taken, dequeue, queued, last_report, failed, down,
                   ring, buf, asked, xfers, controller>>

(* The ring is a page without a link at its end: the controller finds no    *)
(* transfer behind it.                                                      *)
xhci_queue_transfer ==
    /\ queued' = queued + 1
    /\ xfers' = IF queued < RING THEN xfers + 1 ELSE xfers

Listen ==
    /\ pc = "listen"
    /\ xhci_queue_transfer
    /\ pc' = "port" /\ port' = port + 1
    /\ UNCHANGED <<waiting, n, taken, dequeue, last_report, failed, down,
                   ring, buf, asked, prc, controller>>

Booted ==
    /\ pc = "port" /\ port > Ports
    /\ pc' = "ready"
    /\ UNCHANGED <<port, waiting, n, taken, dequeue, queued, last_report, failed, down,
                   ring, buf, asked, prc, xfers, controller>>
-----------------------------------------------------------------------------
(* xhci_handle_irq acknowledges the interrupt, takes the events until there *)
(* is none, and with each transfer's reads the report and asks for another. *)
Irq ==
    /\ pc = "ready" /\ ip
    /\ ip' = FALSE /\ pc' = "drain"
    /\ UNCHANGED <<port, waiting, n, taken, dequeue, queued, last_report, failed, down,
                   ring, buf, asked, prc, xfers, enqueue, reports, failures>>

Drain ==
    /\ pc = "drain" /\ Pending
    /\ dequeue' = NextEvent(dequeue)
    /\ pc' = IF Ev.type = "transfer" THEN "report" ELSE "drain"
    /\ failed' = ~Ev.ok
    /\ UNCHANGED <<port, waiting, n, taken, queued, last_report, down,
                   ring, buf, asked, prc, xfers, controller>>

Drained ==
    /\ pc = "drain" /\ ~Pending
    /\ pc' = "ready"
    /\ UNCHANGED <<port, waiting, n, taken, dequeue, queued, last_report, failed, down,
                   ring, buf, asked, prc, xfers, controller>>

xhci_handle_keyboard_report ==
    /\ pc = "report"
    /\ IF failed THEN UNCHANGED <<down, last_report>>
                 ELSE down' = After(down, Sent(last_report, buf)) /\ last_report' = buf
    /\ pc' = "requeue"
    /\ UNCHANGED <<port, waiting, n, taken, dequeue, queued, failed,
                   ring, buf, asked, prc, xfers, controller>>

(* A slip: a failed transfer is not replaced.                               *)
Requeued_OnlyGood ==
    /\ pc = "requeue"
    /\ IF failed THEN UNCHANGED <<queued, xfers>> ELSE xhci_queue_transfer
    /\ pc' = "drain"
    /\ UNCHANGED <<port, waiting, n, taken, dequeue, last_report, failed, down,
                   ring, buf, asked, prc, controller>>

Requeued ==
    /\ pc = "requeue"
    /\ xhci_queue_transfer
    /\ pc' = "drain"
    /\ UNCHANGED <<port, waiting, n, taken, dequeue, last_report, failed, down,
                   ring, buf, asked, prc, controller>>

UsbDriver ==
    \/ Send \/ Wait \/ TimeOut \/ ResetPort \/ PortIsReset \/ Listen \/ Booted
    \/ Irq \/ Drain \/ Drained \/ xhci_handle_keyboard_report \/ Requeued
-----------------------------------------------------------------------------
(* The controller puts an event on the ring and raises its interrupt.       *)
RingRoom == (enqueue.at + 1) % RING # dequeue.at

Post(type, ok, of) ==
    /\ RingRoom
    /\ ring' = [ring EXCEPT ![enqueue.at] =
                    [cycle |-> enqueue.cycle, type |-> type, ok |-> ok, of |-> of]]
    /\ enqueue' = NextEntry(enqueue) /\ ip' = TRUE

Fault == failures < MaxFaults /\ failures' = failures + 1

HcAnswer ==
    /\ asked # <<>>
    /\ LET what == Head(asked)
           type == IF what.step = "control" THEN "transfer" ELSE "command" IN
       \/ Post(type, TRUE, what.id) /\ UNCHANGED failures
       \/ Post(type, FALSE, what.id) /\ Fault
       \/ Fault /\ UNCHANGED <<ring, enqueue, ip>>
    /\ asked' = Tail(asked)
    /\ UNCHANGED <<driver, buf, prc, xfers, reports>>

HcPortReset ==
    /\ prc = "reset"
    /\ \/ prc' = "enabled" /\ UNCHANGED failures
       \/ prc' = "disabled" /\ Fault
    /\ Post("port", TRUE, 0)
    /\ UNCHANGED <<driver, buf, asked, xfers, reports>>

HcReport ==
    /\ xfers > 0 /\ reports < MaxReports
    /\ \/ buf' \in Reports /\ Post("transfer", TRUE, 0) /\ UNCHANGED failures
       \/ UNCHANGED buf /\ Post("transfer", FALSE, 0) /\ Fault
    /\ xfers' = xfers - 1 /\ reports' = reports + 1
    /\ UNCHANGED <<driver, asked, prc>>

UsbNext == UsbDriver \/ HcAnswer \/ HcPortReset \/ HcReport

UsbSpec == UsbInit /\ [][UsbNext]_usbVars

(* The driver's loops go on, the interrupt comes, a reset ends, and the     *)
(* controller gets round to what it is asked; keys are up to the user.      *)
FairUsbSpec == UsbSpec /\ WF_usbVars(UsbDriver) /\ WF_usbVars(HcAnswer) /\ WF_usbVars(HcPortReset)
-----------------------------------------------------------------------------
(* An answer that is taken is the answer to what was asked last             *)
(* (xhci_wait_for_event looks at its type alone).                           *)
OwnAnswer == [][taken' # taken => taken' = n]_usbVars

(* Once the driver listens, and until its ring's page is used up, there is  *)
(* one transfer: with the controller, on the event ring, or in the hands of *)
(* the interrupt handler (xhci_handle_irq asks again after every one).      *)
New(i) == ring[i].cycle = IF i >= dequeue.at THEN dequeue.cycle ELSE 1 - dequeue.cycle
Completed == {i \in 0 .. RING - 1 : New(i) /\ ring[i].type = "transfer" /\ ring[i].of = 0}
Outstanding ==
    xfers + Cardinality(Completed) + IF pc \in {"report", "requeue"} THEN 1 ELSE 0

Armed == 0 < queued /\ queued <= RING => Outstanding = 1

(* The keyboard is followed: it is always being asked; nothing is down for  *)
(* the keyboard driver that the last report does not have down; and what it *)
(* has is down, if nothing else gives the same code (the two Ctrl keys do:  *)
(* "Mapping both to LCtrl for now", xhci.c:95).                             *)
Held ==
    /\ \A code \in down : Senders(code) \cap Reported(last_report) # {}
    /\ \A s \in Reported(last_report), code \in Codes : Senders(code) = {s} => code \in down
Followed == Armed /\ Held

(* xhci_init ends, whatever the controller answers, and every event is      *)
(* taken off the ring after that.                                           *)
Heard ==
    /\ <>(pc = "ready")
    /\ Pending ~> (pc = "ready" /\ ~Pending)
=============================================================================
