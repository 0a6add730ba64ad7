-------------------------------- MODULE Nic ---------------------------------
(***************************************************************************)
(* The network interface: PCI discovery and driver attachment (dev/pci.c), *)
(* the one active card (net/nic/nic.c) behind its two drivers, virtio-net  *)
(* (net/nic/virtio_net.c) and e1000 (net/nic/e1000.c), and the bridge to   *)
(* the network stack (net/nic/nic_netif.c).  The cards themselves and the  *)
(* stack are external: a card takes what the rings offer it, in order.     *)
(*                                                                         *)
(* A process polls the card; the card's interrupt polls it too, through    *)
(* the same functions, which take no lock and leave interrupts on.  The    *)
(* process's receive is therefore split where an interrupt sees something  *)
(* different, while the interrupt, which nothing interrupts, is one step.  *)
(* One process polls at a time, and a transmit is one step.                *)
(***************************************************************************)
EXTENDS Integers, Sequences, SequencesExt

CONSTANTS
  IDX,        \* 2^16, the range of the virtqueues' running indices
  RING,       \* E1000_TX_RING_SIZE, E1000_RX_RING_SIZE
  LOOPS,      \* frames one nic_poll_rx takes at most (64)
  MAX_Q,      \* the longest virtqueue there are buffers for (256)
  Machines,   \* the PCI slots a machine may have, in bus order: the functions
              \* behind each and whether its header says it has several; a
              \* virtio function says how long its two queues are (0 for none,
              \* otherwise a power of two, at least 2)
  PCI_MAX_DEVICES,
  Loads,      \* bounds [send, arrive, drop] on the frames of a behaviour that
              \* are sent, that arrive and that are dropped
  Runts       \* the arrivals a virtio card reports without any payload

VARIABLES
  g_pci_devices,      \* what the scan found; .bound names the driver
  up,                 \* the drivers whose state is initialized
  g_active,           \* the registered card's driver, or "none"
  irqs,               \* the drivers with an interrupt handler
  netif,              \* the stack has set its receive callback
  tx, rx,             \* the active card's rings
  accepted, wire,     \* frames nic_send accepted, frames that left the card
  arrived,            \* frames the card put into a ring, so far
  poll,               \* the process inside nic_poll_rx
  stack, dropped,     \* frames handed to the stack, and frames dropped
  load,               \* this behaviour's bounds
  crowded,            \* more frames were accepted than the rings can hold
  overtaken           \* an interrupt took frames inside a process's receive

pci == <<g_pci_devices, up, g_active, irqs>>
vars == <<g_pci_devices, up, g_active, irqs, netif, tx, rx, accepted, wire, arrived, poll, stack,
          dropped, load, crowded, overtaken>>

Drivers == <<"virtio", "e1000">>     \* in the order nic_init registers them
NoRing == [kind |-> "none"]
\* A receive call: where it is, and its locals.  At "none" it has returned 0, at
\* "hand" a frame.
Called == [at |-> "look", idx |-> 0, id |-> 0, runt |-> FALSE, frame |-> 0]
Away == [loops |-> 0, call |-> Called]
Ring == 0..(RING - 1)

-----------------------------------------------------------------------------
(* virtio-net: two virtqueues.  dev_* is the card's own position.          *)

VirtioTx(q) == [kind |-> "virtio", q |-> q, avail |-> 0, used |-> 0, last_avail |-> 0,
                ring |-> [i \in 0..(q - 1) |-> 0],
                desc |-> [i \in 0..(q - 1) |-> [head |-> 0, next |-> 0]],
                buf |-> [h \in 0..(q \div 2 - 1) |-> 0]]

\* Every receive buffer is offered at once.
VirtioRx(q) == [kind |-> "virtio", q |-> q, avail |-> q, used |-> 0, last_used |-> 0,
                dev_avail |-> 0,
                ring |-> [i \in 0..(q - 1) |-> i],
                used_ring |-> [i \in 0..(q - 1) |-> [id |-> 0, runt |-> FALSE]],
                buf |-> [i \in 0..(q - 1) |-> 0]]

\* virtio_send_packet: the frame is copied into the buffer of its head, two
\* descriptors are chained, and the first is made available.
InFlight(t) == (t.avail - t.used) % IDX
virtio_can_send(t, len) == len \in 1..1514 /\ InFlight(t) < t.q - 2

\* A fault: the chains overlap.
virtio_send_packet_overlap(t, frame) ==
  LET head == t.last_avail % (t.q \div 2)
  IN  [t EXCEPT !.desc[head] = [head |-> head, next |-> head + 1],
                !.desc[head + 1] = [head |-> head, next |-> 0],
                !.buf[head] = frame,
                !.ring[t.avail % t.q] = head,
                !.avail = (t.avail + 1) % IDX,
                !.last_avail = (t.last_avail + 1) % IDX]

virtio_send_packet(t, frame) ==
  LET head == t.last_avail % (t.q \div 2)
      d0   == head * 2
  IN  [t EXCEPT !.desc[d0] = [head |-> head, next |-> d0 + 1],
                !.desc[d0 + 1] = [head |-> head, next |-> 0],
                !.buf[head] = frame,
                !.ring[t.avail % t.q] = d0,
                !.avail = (t.avail + 1) % IDX,
                !.last_avail = (t.last_avail + 1) % IDX]

\* The frame the card would send n chains from now.
VirtioNth(t, n) == t.buf[t.desc[t.desc[t.ring[(t.used + n) % t.q]].next].head]

\* virtio_receive_packet, step by step.  The next used entry is looked up and
\* counted as taken ...
VirtioLook(r, c) ==
  LET e == r.used_ring[r.last_used % r.q]
  IN  [rx |-> r, call |-> IF r.last_used = r.used THEN [c EXCEPT !.at = "none"]
                          ELSE [c EXCEPT !.at = "bump", !.idx = r.last_used,
                                         !.id = e.id, !.runt = e.runt]]
VirtioBump(r, c) ==
  [rx   |-> [r EXCEPT !.last_used = (c.idx + 1) % IDX],
   call |-> [c EXCEPT !.at = IF c.runt THEN "slot" ELSE "copy"]]

\* ... its frame copied out, unless it is no longer than its header, ...
VirtioCopy(r, c) == [rx |-> r, call |-> [c EXCEPT !.at = "slot", !.frame = r.buf[c.id]]]

\* ... and its buffer offered again: entry first, then index.
VirtioSlot(r, c) ==
  [rx |-> [r EXCEPT !.ring[r.avail % r.q] = c.id], call |-> [c EXCEPT !.at = "index"]]

\* A fault: the buffer is not offered again.
VirtioIndex_keeps(r, c) ==
  [rx |-> r, call |-> [c EXCEPT !.at = IF c.runt THEN "none" ELSE "hand"]]

VirtioIndex(r, c) ==
  [rx   |-> [r EXCEPT !.avail = (@ + 1) % IDX],
   call |-> [c EXCEPT !.at = IF c.runt THEN "none" ELSE "hand"]]

virtio_receive_packet(r, c) ==
  CASE c.at = "look"  -> VirtioLook(r, c)
    [] c.at = "bump"  -> VirtioBump(r, c)
    [] c.at = "copy"  -> VirtioCopy(r, c)
    [] c.at = "slot"  -> VirtioSlot(r, c)
    [] c.at = "index" -> VirtioIndex(r, c)

-----------------------------------------------------------------------------
(* e1000: two descriptor rings; head is the card's register (TDH, RDH),    *)
(* tail the driver's position and, for sending, TDT; rdt is RDT.           *)

E1000Tx == [kind |-> "e1000", head |-> 0, tail |-> 0, done |-> [i \in Ring |-> TRUE],
            buf |-> [i \in Ring |-> 0]]
E1000Rx == [kind |-> "e1000", head |-> 0, tail |-> RING - 1, rdt |-> RING - 1,
            done |-> [i \in Ring |-> FALSE], buf |-> [i \in Ring |-> 0]]

e1000_can_send(t, len) == len \in 1..1518 /\ t.done[t.tail]
e1000_send_packet(t, frame) ==
  [t EXCEPT !.buf[t.tail] = frame, !.done[t.tail] = FALSE, !.tail = (t.tail + 1) % RING]

\* e1000_receive_packet, step by step: the descriptor after the tail, if the
\* card is done with it, is copied out, cleared, and becomes the tail, which the
\* card is then told.
E1000Look(r, c) ==
  LET idx == (r.tail + 1) % RING
  IN  [rx |-> r, call |-> IF ~r.done[idx] THEN [c EXCEPT !.at = "none"]
                          ELSE [c EXCEPT !.at = "copy", !.idx = idx]]
e1000_receive_packet(r, c) ==
  CASE c.at = "look"  -> E1000Look(r, c)
    [] c.at = "copy"  -> [rx |-> r, call |-> [c EXCEPT !.at = "clear", !.frame = r.buf[c.idx]]]
    [] c.at = "clear" -> [rx   |-> [r EXCEPT !.done[c.idx] = FALSE],
                          call |-> [c EXCEPT !.at = "tail"]]
    [] c.at = "tail"  -> [rx |-> [r EXCEPT !.tail = c.idx], call |-> [c EXCEPT !.at = "tell"]]
    [] c.at = "tell"  -> [rx |-> [r EXCEPT !.rdt = c.idx], call |-> [c EXCEPT !.at = "hand"]]

-----------------------------------------------------------------------------
(* Discovery.                                                              *)

\* pci_scan_locked: a slot without function 0 is empty, the other functions
\* count only behind a multi-function header, and the table may fill up.
Found(slot) ==
  LET seen == IF slot.multi THEN slot.fns ELSE <<slot.fns[1]>>
  IN  IF slot.fns[1].kind = "absent" THEN <<>>
      ELSE SelectSeq(seen, LAMBDA fn : fn.kind # "absent")
pci_scan(slots) ==
  LET all == FlattenSeq([i \in DOMAIN slots |-> Found(slots[i])])
  IN  SubSeq(all, 1, IF Len(all) < PCI_MAX_DEVICES THEN Len(all) ELSE PCI_MAX_DEVICES)

Matches(drv, dev) == dev.kind = drv      \* virtio_match, e1000_match

\* virtio_attach wants an I/O bar and two queues; e1000_attach wants a memory
\* bar it can map.
Starts(drv, dev) ==
  IF drv = "virtio" THEN dev.bar = "io" /\ dev.rxq # 0 /\ dev.txq # 0
  ELSE dev.bar = "mmio" /\ dev.works

\* Only the first card to come up is registered: a second one stays initialized,
\* unregistered and without an interrupt.  A registered one whose line is not
\* one of the interrupt controller's sixteen has no interrupt either.
attach(s, drv, i) ==
  IF drv \in s.up \/ ~Starts(drv, s.devs[i]) THEN s
  ELSE IF s.active # "none" THEN [s EXCEPT !.up = @ \cup {drv}]
  ELSE [s EXCEPT !.up = @ \cup {drv}, !.active = drv,
                 !.irqs = IF s.devs[i].irq < 16 THEN @ \cup {drv} ELSE @,
                 !.devs[i].bound = drv]

\* pci_probe_and_attach: each device is offered to the drivers in turn.
Offer(s, i) ==
  LET d1 == IF Matches(Drivers[1], s.devs[i]) THEN attach(s, Drivers[1], i) ELSE s
  IN  IF d1.devs[i].bound # "" \/ ~Matches(Drivers[2], s.devs[i]) THEN d1
      ELSE attach(d1, Drivers[2], i)
pci_probe_and_attach(s) ==
  LET After[n \in 0..Len(s.devs)] == IF n = 0 THEN s ELSE Offer(After[n - 1], n)
  IN  After[Len(s.devs)]

\* A queue is as long as the bound function says, or as there are buffers.
Clamp(n) == IF n > MAX_Q THEN MAX_Q ELSE n
Bound(s) == s.devs[CHOOSE i \in DOMAIN s.devs : s.devs[i].bound = "virtio"]

\* nic_init at boot.
NicInit ==
  LET s == pci_probe_and_attach([devs |-> g_pci_devices, up |-> {}, active |-> "none",
                                 irqs |-> {}])
  IN  /\ g_active = "unprobed"
      /\ g_pci_devices' = s.devs /\ up' = s.up /\ g_active' = s.active /\ irqs' = s.irqs
      /\ tx' = CASE s.active = "virtio" -> VirtioTx(Clamp(Bound(s).txq)) [] s.active = "e1000" -> E1000Tx
                 [] OTHER -> NoRing
      /\ rx' = CASE s.active = "virtio" -> VirtioRx(Clamp(Bound(s).rxq)) [] s.active = "e1000" -> E1000Rx
                 [] OTHER -> NoRing
      /\ UNCHANGED <<netif, accepted, wire, arrived, poll, stack, dropped, load, crowded, overtaken>>

nic_ready == g_active \in {"virtio", "e1000"}

\* nic_netif_init sets the receive callback.
NetifInit ==
  /\ nic_ready /\ ~netif
  /\ netif' = TRUE
  /\ UNCHANGED <<pci, tx, rx, accepted, wire, arrived, poll, stack, dropped, load, crowded, overtaken>>

-----------------------------------------------------------------------------
(* Sending.                                                                *)

CanSend(len) == IF g_active = "virtio" THEN virtio_can_send(tx, len) ELSE e1000_can_send(tx, len)
Room == IF g_active = "virtio" THEN tx.q \div 2 ELSE RING - 1

\* nic_low_level_output and nic_send
Send(len) ==
  LET frame == Len(accepted) + 1
  IN  /\ nic_ready /\ netif /\ frame <= load.send
      /\ CanSend(len)
      /\ tx' = IF g_active = "virtio" THEN virtio_send_packet(tx, frame)
               ELSE e1000_send_packet(tx, frame)
      /\ accepted' = Append(accepted, frame)
      /\ crowded' = (crowded \/ Len(accepted) - Len(wire) >= Room)
      /\ UNCHANGED <<pci, netif, rx, wire, arrived, poll, stack, dropped, load, overtaken>>

\* What the card has yet to send, as it will read the rings.
ToSend ==
  IF tx.kind = "none" THEN <<>>
  ELSE IF tx.kind = "virtio" THEN [n \in 1..InFlight(tx) |-> VirtioNth(tx, n - 1)]
  ELSE [n \in 1..((tx.tail - tx.head) % RING) |-> tx.buf[(tx.head + n - 1) % RING]]

DevTransmit ==
  /\ ToSend # <<>>
  /\ wire' = Append(wire, Head(ToSend))
  /\ tx' = IF tx.kind = "virtio" THEN [tx EXCEPT !.used = (@ + 1) % IDX]
           ELSE [tx EXCEPT !.done[tx.head] = TRUE, !.head = (@ + 1) % RING]
  /\ UNCHANGED <<pci, netif, rx, accepted, arrived, poll, stack, dropped, load, crowded, overtaken>>

-----------------------------------------------------------------------------
(* Receiving.                                                              *)

\* A frame arrives: the card takes the next buffer it was offered, if any.
DevReceive ==
  LET frame == arrived + 1
      runt  == frame \in Runts
  IN  /\ nic_ready /\ frame <= load.arrive
      /\ IF rx.kind = "virtio"
         THEN LET d == rx.ring[rx.dev_avail % rx.q]
              IN  /\ rx.dev_avail # rx.avail
                  /\ rx' = [rx EXCEPT !.dev_avail = (@ + 1) % IDX,
                                      !.buf[d] = frame,
                                      !.used_ring[rx.used % rx.q] = [id |-> d, runt |-> runt],
                                      !.used = (@ + 1) % IDX]
         ELSE /\ rx.head # rx.rdt
              /\ rx' = [rx EXCEPT !.buf[rx.head] = frame, !.done[rx.head] = TRUE,
                                  !.head = (@ + 1) % RING]
      /\ arrived' = frame
      /\ UNCHANGED <<pci, netif, tx, accepted, wire, poll, stack, dropped, load, crowded, overtaken>>

\* One step of the active driver's receive.
rx_poll(r, c) == IF r.kind = "virtio" THEN virtio_receive_packet(r, c) ELSE e1000_receive_packet(r, c)
Returned(c) == c.at \in {"none", "hand"}

\* nic_rx_to_lwip: the stack takes a frame, or there is no pbuf for it or no
\* callback yet.
Handed(frames) ==
  \E kept \in IF netif THEN SUBSET frames ELSE {{}} :
    /\ stack' = stack \cup kept
    /\ dropped' = dropped \cup (frames \ kept)
    /\ Cardinality(dropped') <= load.drop

\* A process in nic_poll_rx: its receive goes one step on; nothing received ends
\* the call ...
PollStep ==
  LET x == rx_poll(rx, poll.call)
  IN  /\ nic_ready /\ ~Returned(poll.call)
      /\ rx' = x.rx
      /\ poll' = IF x.call.at = "none" THEN Away ELSE [poll EXCEPT !.call = x.call]
      /\ UNCHANGED <<pci, netif, tx, accepted, wire, arrived, stack, dropped, load, crowded,
                     overtaken>>

\* ... a frame is delivered, and after LOOPS frames the call ends too.
PollDeliver ==
  /\ poll.call.at = "hand"
  /\ Handed({poll.call.frame})
  /\ poll' = IF poll.loops + 1 = LOOPS THEN Away
             ELSE [loops |-> poll.loops + 1, call |-> Called]
  /\ UNCHANGED <<pci, netif, tx, rx, accepted, wire, arrived, load, crowded, overtaken>>

\* A receive from beginning to end: RxSteps steps are enough.
RxSteps == 5
Whole(r) ==
  LET After[n \in 0..RxSteps] ==
        IF n = 0 THEN [rx |-> r, call |-> Called]
        ELSE IF Returned(After[n - 1].call) THEN After[n - 1]
        ELSE rx_poll(After[n - 1].rx, After[n - 1].call)
  IN  After[RxSteps]

\* A whole nic_poll_rx.
Polled ==
  LET Step(p) == LET x == Whole(p.rx)
                 IN  IF p.stop THEN p
                     ELSE IF x.call.at = "none" THEN [p EXCEPT !.rx = x.rx, !.stop = TRUE]
                     ELSE [p EXCEPT !.rx = x.rx, !.got = @ \cup {x.call.frame}]
      After[n \in 0..LOOPS] ==
        IF n = 0 THEN [rx |-> rx, got |-> {}, stop |-> FALSE] ELSE Step(After[n - 1])
  IN  After[LOOPS]

\* The process has read a position of the ring and not yet written it back.
Midway == poll.call.at \in (IF rx.kind = "virtio" THEN {"bump", "index"}
                            ELSE {"copy", "clear", "tail", "tell"})

\* virtio_irq_cb, e1000_irq_cb.
Irq ==
  LET p == Polled
  IN  /\ nic_ready /\ g_active \in irqs
      /\ rx' = p.rx
      /\ Handed(p.got)
      /\ overtaken' = (overtaken \/ (Midway /\ p.rx # rx))
      /\ UNCHANGED <<pci, netif, tx, accepted, wire, arrived, poll, load, crowded>>

-----------------------------------------------------------------------------
Init ==
  /\ \E slots \in Machines : g_pci_devices = pci_scan(slots)      \* pci_init
  /\ up = {} /\ g_active = "unprobed" /\ irqs = {} /\ netif = FALSE
  /\ tx = NoRing /\ rx = NoRing
  /\ accepted = <<>> /\ wire = <<>> /\ arrived = 0 /\ poll = Away
  /\ load \in Loads /\ stack = {} /\ dropped = {} /\ crowded = FALSE
  /\ overtaken = FALSE

Next ==
  \/ NicInit \/ NetifInit \/ DevTransmit \/ PollStep \/ PollDeliver \/ Irq \/ DevReceive
  \/ \E len \in {0, 60, 1514, 1518, 1600} : Send(len)

Spec == Init /\ [][Next]_vars

-----------------------------------------------------------------------------
(* Properties.                                                             *)

\* Every frame nic_send accepted has left the card unharmed, or will, in
\* order: no buffer is written again before the card has read it, and none is
\* forgotten in the ring.  (Until more are accepted at once than there are
\* buffers: virtio_send_packet admits q - 2 although it has q / 2, and a full
\* e1000 ring looks empty to the card.)
SendsIntact == ~crowded => wire \o ToSend = accepted

\* What the driver will still take from the ring, oldest first.
Waiting ==
  IF rx.kind = "none" THEN {}
  ELSE IF rx.kind = "virtio"
  THEN {rx.buf[rx.used_ring[(rx.last_used + n) % rx.q].id] :
          n \in 0..(((rx.used - rx.last_used) % IDX) - 1)}
  ELSE {rx.buf[i] : i \in {j \in Ring : rx.done[j]}}

\* The frame the polling process has taken from the ring, and the buffer it has
\* yet to give back.
InHand ==
  LET c == poll.call
  IN  CASE c.at \in {"slot", "index", "tail", "tell", "hand"} -> {c.frame} \ {0}
        [] c.at = "copy" /\ rx.kind = "virtio" -> {rx.buf[c.id]}
        [] OTHER -> {}
Held == IF poll.call.at \in (IF rx.kind = "virtio" THEN {"copy", "slot", "index"}
                             ELSE {"tail", "tell"}) THEN 1 ELSE 0

\* Every frame the card stored is in exactly one place: still in the ring, in
\* the hands of the polling process, with the stack, or dropped; whichever of
\* the interrupt and the process took it, and however often the ring wrapped.
Places == <<Waiting, InHand, stack, dropped>>
Unread == IF g_active = "virtio" THEN Runts ELSE {}
FramesOnce ==
  /\ UNION {Places[i] : i \in DOMAIN Places} \ Unread = (1..arrived) \ Unread
  /\ \A i, j \in DOMAIN Places : i # j => Places[i] \cap Places[j] = {}

\* The stack is never given a frame before an older one that is still in the
\* ring: frames change places only around the one a process holds.
InOrder ==
  \A f \in Waiting : \A g \in stack : g < f

\* The receive ring never runs dry: buffers the card may use, frames that wait
\* in the ring and the one a process has in hand make up the whole of it.
NoBufferLost ==
  CASE rx.kind = "virtio" -> ((rx.avail - rx.dev_avail) % IDX)
                             + ((rx.used - rx.last_used) % IDX) + Held = rx.q
    [] rx.kind = "e1000" -> ((rx.rdt - rx.head) % RING)
                            + Cardinality({i \in Ring : rx.done[i]}) + Held = RING - 1
    [] OTHER -> TRUE

\* All three, as long as no interrupt took frames while the process stood between
\* reading a position and writing it back: virtio's last_used_idx or its next
\* free entry of the avail ring, e1000's tail.  Everywhere else, between the
\* count and the offer of one buffer for instance, the interrupt may take and
\* give back later frames.  Overtaken, the process takes one of them again, or
\* a buffer is offered in the place of another.
ReceiveExact == ~overtaken => FramesOnce /\ InOrder /\ NoBufferLost
=============================================================================
