-------------------------------- MODULE Ps2 --------------------------------
(***************************************************************************)
(* What the PS/2 drivers make of the bytes the controller hands them:      *)
(* drv/ps2kbd.c (scan codes, set 1) and drv/ps2mouse.c (three-byte         *)
(* packets).  Each driver is a function from its static state and one byte *)
(* to its new state and the events it passes, in order, to event_enqueue.  *)
(* The two devices that produce the bytes are external.                    *)
(***************************************************************************)
EXTENDS Integers, Sequences, FiniteSets

CONSTANTS Width, Height       \* fb_info: the screen the cursor is clamped to

ASSUME ScreenAssumption == Width \in Nat \ {0} /\ Height \in Nat \ {0}

\* b & mask, for a mask of one bit, and a byte read as a signed char.
Bit(b, mask) == (b \div mask) % 2 = 1
Int8(b) == IF b >= 128 THEN b - 256 ELSE b

-----------------------------------------------------------------------------
(* Events: the fields of struct input_event the consumers read.            *)

NoEvent == [id |-> "none", key |-> 0, x |-> 0, y |-> 0]
KeyEvent(down, code) == [NoEvent EXCEPT !.id = IF down THEN "key" ELSE "keyup", !.key = code]
MouseEvent(kind, buttons, c) == [id |-> kind, key |-> buttons, x |-> c[1], y |-> c[2]]

-----------------------------------------------------------------------------
(* Keyboard.                                                               *)

\* scan_to_key[0..57]: make code to ASCII, 0 where the key has no character.
scan_to_key == <<0, 27, 49, 50, 51, 52, 53, 54, 55, 56, 57, 48, 45, 61, 8,
                 9, 113, 119, 101, 114, 116, 121, 117, 105, 111, 112, 91, 93, 10, 0,
                 97, 115, 100, 102, 103, 104, 106, 107, 108, 59, 39, 96, 0, 92,
                 122, 120, 99, 118, 98, 110, 109, 44, 46, 47, 0, 42, 0, 32>>

INPUT_KEY_PRINTSCREEN == 57399        \* 0xE037

\* The keycode of a scan code: a character when the table has one, else the
\* raw code, marked 0xE000 when it was prefixed.
Keycode(ext, code) ==
  LET key == IF code < Len(scan_to_key) THEN scan_to_key[code + 1] ELSE 0
  IN  IF ext /\ code = 55 THEN INPUT_KEY_PRINTSCREEN
      ELSE IF key # 0 THEN key
      ELSE IF ext THEN 57344 + code ELSE code

\* ps2kbd_handler: the new g_ext_prefix, the events enqueued and whether
\* tty_handle_scancode is called with the byte.
ps2kbd_handler(ext, sc) ==
  LET press == sc < 128
      code  == sc % 128
      quiet(e) == [ext |-> e, events |-> <<>>, tty |-> FALSE]
  IN  IF sc = 224 THEN quiet(TRUE)
      ELSE IF ext /\ code = 42 THEN quiet(FALSE)
      ELSE [ext    |-> FALSE,
            events |-> <<KeyEvent(press, Keycode(ext, code))>>,
            tty    |-> ~ext]

\* The bytes a key sends when it goes down; going up sets bit 7 of each code.
\* PrintScreen wraps itself in a pseudo-shift that is undone in reverse order.
Wire == [ctrl |-> <<29>>, rctrl |-> <<224, 29>>, alt |-> <<56>>, ralt |-> <<224, 56>>, shift |-> <<42>>,
         esc |-> <<1>>, enter |-> <<28>>, back |-> <<14>>, space |-> <<57>>,
         eight |-> <<9>>, a |-> <<30>>, c |-> <<46>>,
         up |-> <<224, 72>>, down |-> <<224, 80>>,
         prtsc |-> <<224, 42, 224, 55>>]
MakeBytes(k) == Wire[k]
BreakBytes(k) == IF k = "prtsc" THEN <<224, 183, 224, 170>>
                 ELSE [i \in DOMAIN Wire[k] |->
                         IF Wire[k][i] = 224 THEN 224 ELSE Wire[k][i] + 128]

-----------------------------------------------------------------------------
(* Mouse.                                                                  *)

\* cursor_move: the new position, clamped to the screen.
Clamp(v, n) == IF v < 0 THEN 0 ELSE IF v >= n THEN n - 1 ELSE v
cursor_move(c, dx, dy) == <<Clamp(c[1] + dx, Width), Clamp(c[2] + dy, Height)>>

\* The driver's reading of one movement byte: the signed char, with the upper
\* bits forced to one when the status byte carries the sign.
Delta(byte, sign) == IF sign THEN byte - 256 ELSE Int8(byte)

\* The 9-bit two's complement number the device sent.
DeviceDelta(byte, sign) == IF sign THEN byte - 256 ELSE byte

Left == 1
Right == 2
Middle == 4
Pressed(buttons, b) == Bit(buttons, b)

\* The event of a button that changed; the right button announces its press
\* under an id of its own.
ButtonEvents(b, prev, buttons, c) ==
  IF Pressed(prev, b) = Pressed(buttons, b) THEN <<>>
  ELSE <<MouseEvent(IF ~Pressed(buttons, b) THEN "mouseup"
                    ELSE IF b = Right THEN "rightclick" ELSE "mousedown", buttons, c)>>

\* Decoding a complete packet: the cursor moves first, a movement event comes
\* before the button events, and left before right before middle.
DecodePacket(m, cur, b2) ==
  LET status  == m.bytes[1]
      dx      == Delta(m.bytes[2], Bit(status, 16))
      dy      == -Delta(b2, Bit(status, 32))
      buttons == status % 8
      c       == cursor_move(cur, dx, dy)
      move    == IF dx # 0 \/ dy # 0 THEN <<MouseEvent("mousemove", buttons, c)>> ELSE <<>>
  IN  [m      |-> [cycle |-> 0, bytes |-> <<status, m.bytes[2]>>, prev |-> buttons],
       cur    |-> c,
       events |-> move \o ButtonEvents(Left, m.prev, buttons, c)
                       \o ButtonEvents(Right, m.prev, buttons, c)
                       \o ButtonEvents(Middle, m.prev, buttons, c)]

\* ps2mouse_handler: the driver state m = [cycle, bytes, prev], one byte in.
\* Only a first byte with bit 3 set starts a packet.
ps2mouse_handler(m, cur, data) ==
  LET quiet(n) == [m |-> n, cur |-> cur, events |-> <<>>]
  IN  CASE m.cycle = 0 -> quiet([m EXCEPT !.bytes[1] = data,
                                          !.cycle = IF Bit(data, 8) THEN 1 ELSE 0])
        [] m.cycle = 1 -> quiet([m EXCEPT !.bytes[2] = data, !.cycle = 2])
        [] m.cycle = 2 -> DecodePacket(m, cur, data)

\* A packet the device sends for a movement within the 9-bit range (y is
\* positive upwards) and the buttons held.
Packet(dx, dy, buttons) ==
  <<8 + buttons + (IF dx < 0 THEN 16 ELSE 0) + (IF dy < 0 THEN 32 ELSE 0),
    dx % 256, dy % 256>>
=============================================================================
