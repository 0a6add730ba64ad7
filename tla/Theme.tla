------------------------------- MODULE Theme --------------------------------
(***************************************************************************)
(* The desktop's theme: the state the SYSTEM_CMD_THEME_* calls keep        *)
(* (syscall/syscall.c), the copy the desktop draws from with its decoded   *)
(* picture (gfx/desktop.c), and the configuration file, first on the disk  *)
(* and otherwise in /tmp, from which the next boot starts.                 *)
(*                                                                         *)
(* A picture may not decode or find no memory for its pixels, a file may   *)
(* refuse to open, read short, take only part of the text, or lose it when *)
(* it is flushed, and the machine may stop at any step.  One caller at a   *)
(* time.                                                                   *)
(* /tmp is in memory and empty at every boot, so the text written there is *)
(* never read back and is left out.                                        *)
(***************************************************************************)
EXTENDS Naturals

CONSTANTS
  Colors,      \* colours a caller may pass
  Paths,       \* wallpaper paths a caller may pass
  NoPath,      \* the empty path
  BadColor,    \* a colour that is not opaque
  Valid,       \* the paths validate_wallpaper_path accepts
  Trim,        \* Paths -> Paths, what trim_ws leaves of a path read from the file
  Cut,         \* Paths -> Paths, a path whose line was cut short
  Default      \* the default colour

\* A path is not blank; what trim_ws leaves has nothing left to trim.
ASSUME ThemeAssumption ==
  /\ Default \in Colors \ {BadColor}
  /\ NoPath \notin Paths /\ Valid \subseteq Paths
  /\ Trim \in [Paths -> Paths] /\ Cut \in [Paths -> Paths]
  /\ \A p \in Paths : Trim[Trim[p]] = Trim[p]

VARIABLES
  g_theme_state, g_theme_loaded,
  desk,        \* g_accent_color, wallpaper_*: what the desktop draws from
  disk,        \* theme.cfg on the disk
  pc,          \* the step of the call under way
  slip         \* failures no flag shows: "unread" (the boot could not read the
               \* file), "accent" (a new accent neither applied nor saved),
               \* "flush" (the text was lost when the file was closed)

vars == <<g_theme_state, g_theme_loaded, desk, disk, pc, slip>>

Modes == {"gradient", "solid", "wallpaper"}
Styles == {"fill", "center"}
NoFile == [kind |-> "none"]
Garbage == [kind |-> "bad"]      \* empty, or a required key is missing or malformed

\* theme_set_defaults
theme_set_defaults ==
  [accent |-> Default, mode |-> "gradient", solid |-> Default, style |-> "fill", path |-> NoPath]

\* theme_write_cfg_to: the text, as its fields.
Config(st) == [kind |-> "cfg", accent |-> st.accent, mode |-> st.mode, solid |-> st.solid,
               path |-> st.path, style |-> st.style]

\* What a text cut short reads as: the lines come in the order of Config's
\* fields, every key but the last is required, and what is left of a path, or
\* nothing of it, is taken for the path.
CutShort(st) ==
  {Garbage} \cup {[Config(st) EXCEPT !.style = "fill", !.path = p] :
                    p \in {st.path, NoPath} \cup {Cut[q] : q \in {st.path} \ {NoPath}}}

\* validate_wallpaper_path: absolute, printable, without a ".." component.
validate_wallpaper_path(p) == p \in Valid

\* theme_read_cfg_from: the lines are trimmed before the path is validated, so
\* a path that is valid only with its trailing blank makes the whole file
\* unreadable; wallpaper mode needs a path.
PathRead(p) == IF p = NoPath THEN NoPath ELSE Trim[p]
ReadsBack(p) == p = NoPath \/ validate_wallpaper_path(Trim[p])
Readable(f) ==
  f.kind = "cfg" /\ ReadsBack(f.path) /\ (f.mode = "wallpaper" => f.path # NoPath)
theme_read_cfg_from(f) ==
  [accent |-> f.accent, mode |-> f.mode, solid |-> f.solid, style |-> f.style,
   path |-> PathRead(f.path)]

\* The theme a boot starts from when it can read the file ...
Loaded(d) == IF Readable(d) THEN theme_read_cfg_from(d) ELSE theme_set_defaults

\* ... and when it cannot: the open, the size, the memory for the text or the
\* read itself may fail, and the file stays as it is.
Got == BOOLEAN
Read(d, got) == IF got THEN Loaded(d) ELSE theme_set_defaults

-----------------------------------------------------------------------------
(* The desktop.                                                            *)

NoPixels == [path |-> NoPath, style |-> "fill"]

\* desktop_apply_theme, with desktop_set_wallpaper and build_wallpaper_cache.
\* drawn: the picture was decoded and there was memory for its pixels.  On a
\* failure the desktop falls back to the gradient and forgets the path; the
\* colours and the style have changed all the same.
Applies(st, drawn) == st.mode = "wallpaper" => (st.path # NoPath /\ drawn)
desktop_apply_theme(st, drawn) ==
  LET base == [accent |-> st.accent, solid |-> st.solid, style |-> st.style]
      With(mode, path, pixels) ==
        [accent |-> base.accent, solid |-> base.solid, style |-> base.style,
         mode |-> mode, path |-> path, pixels |-> pixels]
  IN  IF st.mode # "wallpaper" THEN With(st.mode, st.path, NoPixels)
      ELSE IF Applies(st, drawn)
           THEN With("wallpaper", st.path, [path |-> st.path, style |-> st.style])
           ELSE With("gradient", NoPath, NoPixels)

\* bmp_load_to_buf and the two allocations may each fail.
Drawn == BOOLEAN

\* draw_desktop_bg: what the user sees behind the windows.
Background(d) ==
  IF d.mode = "wallpaper" /\ d.pixels # NoPixels THEN <<"picture", d.pixels.path, d.pixels.style>>
  ELSE IF d.mode = "solid" THEN <<"solid", d.solid>> ELSE <<"gradient">>

-----------------------------------------------------------------------------
(* The calls.                                                              *)

Idle == pc = "idle"
Fallen(st) == [st EXCEPT !.mode = "gradient", !.path = NoPath]
EPH(st) == [accent |-> st.accent, mode |-> st.mode, solid |-> st.solid, style |-> st.style,
            path |-> st.path, eph |-> FALSE]

\* A new state is applied and will be persisted.
Commit(st, drawn) ==
  /\ g_theme_state' = st
  /\ desk' = desktop_apply_theme(st, drawn)
  /\ pc' = "primary"
  /\ slip' = slip \ {"accent"}
  /\ UNCHANGED <<g_theme_loaded, disk>>

\* theme_ensure_loaded: the desktop asks for the theme before it draws.
Load ==
  /\ pc = "boot"
  /\ g_theme_loaded' = TRUE
  /\ \E got \in Got, drawn \in Drawn :
       LET st == Read(disk, got)
       IN  /\ IF Applies(st, drawn)
              THEN /\ g_theme_state' = EPH(st)
                   /\ desk' = desktop_apply_theme(st, drawn)
                   /\ pc' = "idle"
              ELSE /\ g_theme_state' = EPH(Fallen(st))
                   /\ desk' = desktop_apply_theme(Fallen(st), FALSE)
                   /\ pc' = "primary"
           /\ slip' = IF got THEN slip ELSE slip \cup {"unread"}
  /\ UNCHANGED disk

\* SYSTEM_CMD_THEME_SET_ACCENT: when the theme cannot be applied the call ends,
\* neither falling back nor saving.
SetAccent(c) ==
  LET st == [g_theme_state EXCEPT !.accent = c]
  IN  /\ Idle /\ c # BadColor
      /\ \E drawn \in Drawn :
           IF Applies(st, drawn) THEN Commit(st, drawn)
           ELSE /\ g_theme_state' = st
                /\ desk' = desktop_apply_theme(st, drawn)
                /\ slip' = slip \cup {"accent"}
                /\ UNCHANGED <<g_theme_loaded, disk, pc>>

\* A fault: the state keeps saying wallpaper after the desktop fell back.
CommitOrFall_keeps(st) ==
  \E drawn \in Drawn : Commit(st, drawn)

\* The theme is applied, or the call falls back to the gradient; either is saved.
CommitOrFall(st) ==
  \E drawn \in Drawn :
    IF Applies(st, drawn) THEN Commit(st, drawn)
    ELSE Commit(Fallen(st), FALSE)

\* SYSTEM_CMD_THEME_SET_BG_MODE, with the colour or style that came along (or
\* with none, aux = NoPath).  Wallpaper mode without a path is refused, saved
\* as the gradient.
SetBgMode(mode, aux) ==
  LET st == [g_theme_state EXCEPT
               !.solid = IF mode = "solid" /\ aux # NoPath THEN aux ELSE @,
               !.style = IF mode = "wallpaper" /\ aux # NoPath THEN aux ELSE @,
               !.mode  = IF mode = "wallpaper" /\ g_theme_state.path = NoPath
                         THEN "gradient" ELSE mode]
  IN  /\ Idle
      /\ mode = "solid" => aux \in (Colors \ {BadColor}) \cup {NoPath}
      /\ mode = "wallpaper" => aux \in Styles \cup {NoPath}
      /\ CommitOrFall(st)

\* SYSTEM_CMD_THEME_SET_WALLPAPER
SetWallpaper(p, style) ==
  /\ Idle /\ validate_wallpaper_path(p)
  /\ CommitOrFall([g_theme_state EXCEPT !.path = p, !.mode = "wallpaper",
                                        !.style = IF style = NoPath THEN @ ELSE style])

\* theme_persist_state, the file on the disk ...
PersistPrimary ==
  /\ pc = "primary"
  /\ \/ /\ disk' = Config(g_theme_state)
        /\ g_theme_state' = [g_theme_state EXCEPT !.eph = FALSE]
        /\ pc' = "idle" /\ slip' = {}
     \/ \* vfs_close flushes the file and has no way to report that it failed
        /\ g_theme_state' = [g_theme_state EXCEPT !.eph = FALSE]
        /\ pc' = "idle" /\ slip' = {"flush"}
        /\ disk' \in {disk, Garbage}
     \/ \* the file does not open, or takes only part of the text
        /\ disk' \in {disk} \cup CutShort(g_theme_state)
        /\ pc' = "fallback"
        /\ UNCHANGED <<g_theme_state, slip>>
  /\ UNCHANGED <<g_theme_loaded, desk>>

\* ... and the one in /tmp: either way the theme will not outlive this boot.
PersistFallback ==
  /\ pc = "fallback"
  /\ g_theme_state' = [g_theme_state EXCEPT !.eph = TRUE]
  /\ pc' = "idle"
  /\ UNCHANGED <<g_theme_loaded, desk, disk, slip>>

\* The machine stops and starts again: memory and /tmp are gone, and a file
\* that was being written may be empty.
Reboot ==
  /\ pc # "boot"
  /\ pc' = "boot"
  /\ g_theme_loaded' = FALSE
  /\ g_theme_state' = EPH(theme_set_defaults)
  /\ desk' = desktop_apply_theme(theme_set_defaults, FALSE)
  /\ disk' \in {disk} \cup (IF pc = "primary" THEN {Garbage} ELSE {})
  /\ slip' = {}

Init ==
  /\ g_theme_state = EPH(theme_set_defaults)
  /\ g_theme_loaded = FALSE
  /\ desk = desktop_apply_theme(theme_set_defaults, FALSE)
  /\ disk = NoFile
  /\ pc = "boot"
  /\ slip = {}

Next ==
  \/ Load \/ PersistPrimary \/ PersistFallback \/ Reboot
  \/ \E c \in Colors : SetAccent(c)
  \/ \E m \in Modes, aux \in Colors \cup Styles \cup {NoPath} : SetBgMode(m, aux)
  \/ \E p \in Paths, s \in Styles \cup {NoPath} : SetWallpaper(p, s)

Spec == Init /\ [][Next]_vars

-----------------------------------------------------------------------------
(* Properties.                                                             *)

\* desktop.h: "Background modes shared with SYSTEM_CMD_THEME_* state."  What
\* the theme calls report is what is on the screen, also after a picture that
\* could not be decoded.  After an accent change that failed they part, and in
\* one way only: the screen has the new accent over the gradient, and the calls
\* still report the wallpaper.
DesktopAgrees ==
  g_theme_loaded =>
    LET st == g_theme_state
    IN  /\ desk.accent = st.accent
        /\ IF "accent" \in slip
           THEN /\ st.mode = "wallpaper" /\ desk.path = NoPath
                /\ Background(desk) = <<"gradient">>
           ELSE /\ desk.path = st.path
                /\ Background(desk) =
                     CASE st.mode = "wallpaper" -> <<"picture", st.path, st.style>>
                       [] st.mode = "solid" -> <<"solid", st.solid>>
                       [] OTHER -> <<"gradient">>

\* What the next boot starts from, of a theme that is not flagged as ephemeral
\* and whose last flush was not lost: the file on the disk reads back as the
\* state the calls report, but for blanks at the end of a path and for an accent
\* that could not be applied; as the defaults when the path is refused once it
\* is trimmed ("/a/.. " was accepted when it was set); and a boot that could not
\* read the file reports the defaults, unflagged, whatever the file holds.
SavedOrFlagged ==
  LET st == g_theme_state
      next == EPH(Loaded(disk))
  IN  (Idle /\ g_theme_loaded /\ "flush" \notin slip /\ ~st.eph) =>
        IF "unread" \in slip THEN st = EPH(theme_set_defaults)
        ELSE IF ~ReadsBack(st.path) THEN next = EPH(theme_set_defaults)
        ELSE next = [st EXCEPT !.path = PathRead(st.path),
                               !.accent = IF "accent" \in slip THEN next.accent ELSE st.accent]

\* What is reported against what is on the screen and on the disk.
ThemeSound == DesktopAgrees /\ SavedOrFlagged
=============================================================================
