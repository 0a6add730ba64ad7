------------------------------- MODULE Input -------------------------------
(***************************************************************************)
(* Input from the wire to the desktop: the PS/2 devices, the two interrupt *)
(* handlers (drv/ps2kbd.c, drv/ps2mouse.c), the event ring they share with *)
(* the desktop's main loop (input/event.c) and that loop's pump            *)
(* (gfx/desktop.c, desktop_run).                                           *)
(*                                                                         *)
(* Interrupt gates clear IF and one processor runs everything, so while a  *)
(* handler runs nothing else does.  A handler's events are enqueued one    *)
(* step at a time; each step takes event_lock.  The desktop takes the same *)
(* lock with interrupts ENABLED, so an interrupt may find it held.         *)
(***************************************************************************)
EXTENDS Ps2

CONSTANTS
  EVENT_BUF_SIZE,   \* slots of the ring
  Keys,             \* the keys of the keyboard that are pressed, a subset of DOMAIN Wire
  Moves,            \* movements <<dx, dy>> the mouse reports
  Buttons,          \* button sets the mouse reports, as the low bits of a packet
  MaxInputs,        \* bound on what the user does
  IrqInCritical     \* whether an interrupt may arrive inside event_dequeue

ASSUME InputAssumption ==
  /\ EVENT_BUF_SIZE \in Nat \ {0}
  /\ MaxInputs \in Nat
  /\ Keys \subseteq DOMAIN Wire
  /\ Buttons \subseteq 0..7
  /\ Moves \subseteq (-256..255) \X (-256..255)
  /\ IrqInCritical \in BOOLEAN

VARIABLES
  inputs,        \* user actions so far
  held,          \* keys physically down
  buttons,       \* buttons physically down
  kbwire, mwire, \* bytes waiting at the controller
  g_ext_prefix, g_ctrl_down, sigints,   \* ps2kbd.c, tty.c and the SIGINTs sent to the foreground group
  mouse, cur,    \* ps2mouse.c's static state and the cursor
  irq,           \* events the running handler has still to enqueue
  event_buf, event_head, event_tail, event_count,
  event_lock,    \* "free" or "desktop"
  pc, ev,        \* the desktop's place in its loop and the event it took
  told,          \* history: the buttons and the keycodes the delivered events report down
  lost           \* history: an event that was not low-value has been overwritten

device == <<inputs, held, buttons>>
ring == <<event_buf, event_head, event_tail, event_count>>
driver == <<g_ext_prefix, g_ctrl_down, sigints, mouse, cur>>
vars == <<inputs, held, buttons, kbwire, mwire, g_ext_prefix, g_ctrl_down, sigints, mouse,
          cur, irq, event_buf, event_head, event_tail, event_count, event_lock, pc, ev,
          told, lost>>

Slots == 0..(EVENT_BUF_SIZE - 1)

Init ==
  /\ inputs = 0 /\ held = {} /\ buttons = 0
  /\ kbwire = <<>> /\ mwire = <<>>
  /\ g_ext_prefix = FALSE /\ g_ctrl_down = FALSE /\ sigints = 0
  /\ mouse = [cycle |-> 0, bytes |-> <<0, 0>>, prev |-> 0]
  /\ cur = <<Width \div 2, Height \div 2>>
  /\ irq = <<>>
  /\ event_buf = [s \in Slots |-> NoEvent]
  /\ event_head = 0 /\ event_tail = 0 /\ event_count = 0
  /\ event_lock = "free"
  /\ pc = "dequeue" /\ ev = NoEvent
  /\ told = [buttons |-> 0, keys |-> {}]
  /\ lost = FALSE

-----------------------------------------------------------------------------
(* The devices.                                                            *)

User == inputs < MaxInputs /\ inputs' = inputs + 1

\* A key goes down, or repeats while it is held.
KeyDown(k) ==
  /\ User
  /\ held' = held \cup {k}
  /\ kbwire' = kbwire \o MakeBytes(k)
  /\ UNCHANGED <<buttons, mwire, driver, irq, ring, event_lock, pc, ev, told, lost>>

KeyUp(k) ==
  /\ User
  /\ k \in held
  /\ held' = held \ {k}
  /\ kbwire' = kbwire \o BreakBytes(k)
  /\ UNCHANGED <<buttons, mwire, driver, irq, ring, event_lock, pc, ev, told, lost>>

MouseReport(d, b) ==
  /\ User
  /\ d # <<0, 0>> \/ b # buttons
  /\ buttons' = b
  /\ mwire' = mwire \o Packet(d[1], d[2], b)
  /\ UNCHANGED <<held, kbwire, driver, irq, ring, event_lock, pc, ev, told, lost>>

-----------------------------------------------------------------------------
(* The ring.                                                               *)

queue_idx_from_head(rel) == (event_head + rel) % EVENT_BUF_SIZE
is_low_priority_event(e) == e.id \in {"mousemove", "paint"}
TailIdx == (event_tail + EVENT_BUF_SIZE - 1) % EVENT_BUF_SIZE

\* try_coalesce_tail_locked: the youngest event is overwritten in place.  (All
\* producers leave window_id at -1, so the kinds decide.)
Coalesces_any(e) == event_count # 0 /\ event_buf[TailIdx].id = e.id
Coalesces(e) ==
  /\ event_count # 0
  /\ is_low_priority_event(e)
  /\ event_buf[TailIdx].id = e.id

\* try_drop_low_priority_locked: the oldest low-value event, by its distance
\* from the head, and the buffer with every younger event moved down by one.
LowPositions == {rel \in 0..(event_count - 1) :
                   is_low_priority_event(event_buf[queue_idx_from_head(rel)])}
FirstLow == CHOOSE rel \in LowPositions : \A r \in LowPositions : rel <= r

\* A fault: the shift stops one event short.
Squeezed_short ==
  [s \in Slots |->
     LET rel == (s + EVENT_BUF_SIZE - event_head) % EVENT_BUF_SIZE
     IN  IF rel > FirstLow /\ rel + 1 < event_count
         THEN event_buf[queue_idx_from_head(rel + 1)] ELSE event_buf[s]]

Squeezed ==
  [s \in Slots |->
     LET rel == (s + EVENT_BUF_SIZE - event_head) % EVENT_BUF_SIZE
     IN  IF rel >= FirstLow /\ rel + 1 < event_count
         THEN event_buf[queue_idx_from_head(rel + 1)] ELSE event_buf[s]]

Full == event_count >= EVENT_BUF_SIZE

\* Faults: a full ring always gives up its oldest event; the event given up
\* stays in the count.
MakeRoom_oldest ==
  IF ~Full THEN [buf |-> event_buf, head |-> event_head, tail |-> event_tail, count |-> event_count]
  ELSE [buf |-> event_buf, head |-> (event_head + 1) % EVENT_BUF_SIZE, tail |-> event_tail,
        count |-> event_count - 1]
MakeRoom_count ==
  [buf |-> event_buf, head |-> IF Full THEN (event_head + 1) % EVENT_BUF_SIZE ELSE event_head,
   tail |-> event_tail, count |-> event_count]

\* The ring after room has been made for one more event.
MakeRoom ==
  IF ~Full THEN [buf |-> event_buf, head |-> event_head, tail |-> event_tail, count |-> event_count]
  ELSE IF LowPositions # {}
  THEN [buf |-> Squeezed, head |-> event_head, tail |-> TailIdx, count |-> event_count - 1]
  ELSE [buf |-> event_buf, head |-> (event_head + 1) % EVENT_BUF_SIZE, tail |-> event_tail,
        count |-> event_count - 1]

\* event_enqueue, called from the running handler with its next event.
event_enqueue ==
  /\ irq # <<>>
  /\ event_lock = "free"
  /\ LET e == Head(irq)
         r == MakeRoom
     IN  IF Coalesces(e)
         THEN /\ event_buf' = [event_buf EXCEPT ![TailIdx] = e]
              /\ UNCHANGED <<event_head, event_tail, event_count, lost>>
         ELSE /\ event_buf' = [r.buf EXCEPT ![r.tail] = e]
              /\ event_head' = r.head
              /\ event_tail' = (r.tail + 1) % EVENT_BUF_SIZE
              /\ event_count' = r.count + 1
              /\ lost' = (lost \/ (Full /\ LowPositions = {}))
  /\ irq' = Tail(irq)
  /\ UNCHANGED <<device, kbwire, mwire, driver, event_lock, pc, ev, told>>

-----------------------------------------------------------------------------
(* The interrupt handlers.  Any interrupt also ends a hlt.                 *)

Interruptible == irq = <<>> /\ (IrqInCritical \/ event_lock = "free")
WakeCpu == pc' = IF pc = "hlt" THEN "dequeue" ELSE pc

\* tty_handle_scancode: the Ctrl state, and SIGINT to the foreground group of
\* the active terminal on Ctrl+C.
tty_handle_scancode(sc) ==
  LET press == sc < 128
      code  == sc % 128
  IN  /\ g_ctrl_down' = IF code = 29 THEN press ELSE g_ctrl_down
      /\ sigints' = IF press /\ g_ctrl_down /\ code = 46 THEN sigints + 1 ELSE sigints

KeyboardIrq ==
  /\ Interruptible
  /\ kbwire # <<>>
  /\ LET r == ps2kbd_handler(g_ext_prefix, Head(kbwire))
     IN  /\ g_ext_prefix' = r.ext
         /\ irq' = r.events
         /\ IF r.tty THEN tty_handle_scancode(Head(kbwire))
                     ELSE UNCHANGED <<g_ctrl_down, sigints>>
  /\ kbwire' = Tail(kbwire)
  /\ WakeCpu
  /\ UNCHANGED <<device, mwire, mouse, cur, ring, event_lock, ev, told, lost>>

MouseIrq ==
  /\ Interruptible
  /\ mwire # <<>>
  /\ LET r == ps2mouse_handler(mouse, cur, Head(mwire))
     IN  mouse' = r.m /\ cur' = r.cur /\ irq' = r.events
  /\ mwire' = Tail(mwire)
  /\ WakeCpu
  /\ UNCHANGED <<device, kbwire, g_ext_prefix, g_ctrl_down, sigints, ring, event_lock, ev,
                 told, lost>>

\* A fault: the processor sleeps through the timer.
TimerIrq_masked == FALSE /\ UNCHANGED vars

\* The timer touches nothing here, but it ends a hlt.
TimerIrq ==
  /\ Interruptible
  /\ pc = "hlt"
  /\ WakeCpu
  /\ UNCHANGED <<device, kbwire, mwire, driver, irq, ring, event_lock, ev, told, lost>>

-----------------------------------------------------------------------------
(* The desktop's loop: while (event_dequeue(&ev)) dispatch; redraw; hlt.   *)

Runs == irq = <<>>

\* event_dequeue takes the lock ...
DequeueLock ==
  /\ Runs /\ pc = "dequeue" /\ event_lock = "free"
  /\ event_lock' = "desktop"
  /\ pc' = "locked"
  /\ UNCHANGED <<device, kbwire, mwire, driver, irq, ring, ev, told, lost>>

\* ... and hands out the oldest event, or reports the queue empty.
DequeueTake ==
  /\ Runs /\ pc = "locked"
  /\ event_lock' = "free"
  /\ IF event_count = 0
     THEN /\ pc' = "redraw"
          /\ UNCHANGED <<ring, ev>>
     ELSE /\ ev' = event_buf[event_head]
          /\ event_head' = (event_head + 1) % EVENT_BUF_SIZE
          /\ event_count' = event_count - 1
          /\ pc' = "dispatch"
          /\ UNCHANGED <<event_buf, event_tail>>
  /\ UNCHANGED <<device, kbwire, mwire, driver, irq, told, lost>>

IsKey(e) == e.id \in {"key", "keyup"}

\* What an event reports, folded into what the consumer has been told.
Tells(t, e) ==
  IF e.id = "key" THEN [t EXCEPT !.keys = @ \cup {e.key}]
  ELSE IF e.id = "keyup" THEN [t EXCEPT !.keys = @ \ {e.key}]
  ELSE [t EXCEPT !.buttons = e.key]

\* The dispatch of one event; its effect on windows and menus is Desktop's.
Dispatch ==
  /\ Runs /\ pc = "dispatch"
  /\ told' = Tells(told, ev)
  /\ pc' = "dequeue"
  /\ UNCHANGED <<device, kbwire, mwire, driver, irq, ring, event_lock, ev, lost>>

\* redraw_dirty_regions, then hlt.  An event enqueued since the last dequeue
\* does not stop the hlt.
RedrawAndHalt ==
  /\ Runs /\ pc = "redraw"
  /\ pc' = "hlt"
  /\ UNCHANGED <<device, kbwire, mwire, driver, irq, ring, event_lock, ev, told, lost>>

-----------------------------------------------------------------------------
Desktop == DequeueLock \/ DequeueTake \/ Dispatch \/ RedrawAndHalt
Device == \/ \E k \in Keys : KeyDown(k) \/ KeyUp(k)
          \/ \E d \in Moves, b \in Buttons : MouseReport(d, b)
Next == Device \/ KeyboardIrq \/ MouseIrq \/ TimerIrq \/ event_enqueue \/ Desktop

Spec == Init /\ [][Next]_vars

\* The timer keeps ticking, a handler keeps executing, pending interrupts are
\* delivered and the scheduler keeps giving the desktop its turn.
FairSpec == /\ Spec
            /\ WF_vars(KeyboardIrq) /\ WF_vars(MouseIrq) /\ WF_vars(TimerIrq)
            /\ WF_vars(event_enqueue) /\ WF_vars(Desktop)

-----------------------------------------------------------------------------
(* Properties.                                                             *)

\* The payloads: a key's code, or the buttons of a mouse event.
KeycodeOf(k) == Keycode(MakeBytes(k)[1] = 224, MakeBytes(k)[Len(MakeBytes(k))])
Codes == {0} \cup Buttons \cup {KeycodeOf(k) : k \in Keys}
Event == [id : {"none", "key", "keyup", "mousemove", "mousedown", "mouseup", "rightclick"},
          key : Codes, x : 0..(Width - 1), y : 0..(Height - 1)]

\* Types; the ring's three counters describe one contiguous run of slots.
TypeOK ==
  /\ inputs \in 0..MaxInputs /\ held \subseteq Keys /\ buttons \in 0..7
  /\ kbwire \in Seq(0..255) /\ mwire \in Seq(0..255)
  /\ g_ext_prefix \in BOOLEAN /\ g_ctrl_down \in BOOLEAN /\ sigints \in Nat
  /\ mouse.cycle \in 0..2 /\ mouse.bytes \in (0..255) \X (0..255) /\ mouse.prev \in 0..7
  /\ cur \in (0..(Width - 1)) \X (0..(Height - 1))
  /\ irq \in Seq(Event)
  /\ event_buf \in [Slots -> Event]
  /\ event_head \in Slots /\ event_tail \in Slots /\ event_count \in 0..EVENT_BUF_SIZE
  /\ event_tail = (event_head + event_count) % EVENT_BUF_SIZE
  /\ event_lock \in {"free", "desktop"}
  /\ pc \in {"dequeue", "locked", "dispatch", "redraw", "hlt"} /\ ev \in Event
  /\ told.buttons \in Codes /\ told.keys \subseteq Codes
  /\ lost \in BOOLEAN

Retained == [i \in 1..event_count |-> event_buf[queue_idx_from_head(i - 1)]]

\* The ring is a bounded FIFO that gives up low-value events first: event.h's
\* ordering guarantee and starvation control, as a refinement.
Fifo == INSTANCE EventFifo WITH Capacity <- EVENT_BUF_SIZE, queue <- Retained, taken <- ev
ImplementsFifo == Fifo!Spec

\* The important events of a sequence, and those still on their way.
Important(s) == SelectSeq(s, LAMBDA e : ~is_low_priority_event(e))
InFlight == Important(Retained \o irq)

\* No key or button event disappears between its handler and the consumer,
\* except when the ring is full of such events and gives up the oldest.
ImportantKept ==
  [][\/ InFlight' = InFlight
     \/ Runs /\ Len(InFlight') > Len(InFlight)
     \/ pc = "locked" /\ ~is_low_priority_event(ev') /\ InFlight = <<ev'>> \o InFlight'
     \/ Full /\ LowPositions = {} /\ InFlight' = Tail(InFlight)]_vars

\* What the consumer will believe once it has taken everything on its way:
\* the last report about each keycode and about the buttons counts.
Pending == (IF pc = "dispatch" THEN <<ev>> ELSE <<>>) \o Retained
LastOf(test(_)) ==
  LET hits == {i \in DOMAIN Pending : test(Pending[i])}
  IN  IF hits = {} THEN NoEvent ELSE Pending[CHOOSE i \in hits : \A j \in hits : j <= i]
WillSeeButtons ==
  LET m == LastOf(LAMBDA e : ~IsKey(e))
  IN  IF m = NoEvent THEN told.buttons ELSE m.key
WillSeeKeys ==
  {c \in {Pending[i].key : i \in {j \in DOMAIN Pending : IsKey(Pending[j])}} \cup told.keys :
     LET k == LastOf(LAMBDA e : IsKey(e) /\ e.key = c)
     IN  IF k = NoEvent THEN c \in told.keys ELSE k.id = "key"}
\* Once the wires are drained, replaying the queue leaves the consumer with
\* exactly the keys and buttons that are physically down, whatever was merged
\* or dropped on the way, unless an important event was overwritten.
ConsumerLearnsDevice ==
  (Runs /\ kbwire = <<>> /\ mwire = <<>> /\ ~lost) =>
    /\ WillSeeButtons = buttons
    /\ WillSeeKeys = {KeycodeOf(k) : k \in held}

\* The terminal's idea of Ctrl follows the left Ctrl key: prefixed codes never
\* disturb it, so SIGINT is sent only while Ctrl is down.
CtrlFollowsKey == (kbwire = <<>> /\ "ctrl" \in Keys) => g_ctrl_down = ("ctrl" \in held)

\* Both: what the kernel believes of the devices is what they are.
DevicesTracked == ConsumerLearnsDevice /\ CtrlFollowsKey

\* A queued event reaches the dispatcher although the loop may halt with the
\* queue not empty (desktop.c tests the queue before redraw and hlt).
QueuedIsHandled == (event_count > 0) ~> (pc = "dispatch")

\* event.h: event_enqueue is "called from IRQ handlers"; spinlock.h: spin_lock
\* "busy-waits until acquired".  A handler that starts finishes.
HandlerReturns == (irq # <<>>) ~> (irq = <<>>)

\* ps2mouse.c: "Apply sign extension from status bits."  The cursor moves the
\* way the device says, for every 9-bit movement.
SignFromStatus ==
  [][(mouse.cycle = 2 /\ mouse'.cycle = 0) =>
       LET dx == DeviceDelta(mouse.bytes[2], Bit(mouse.bytes[1], 16))
       IN  cur'[1] = Clamp(cur[1] + dx, Width)]_vars

=============================================================================
