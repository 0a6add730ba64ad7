---------------------------- MODULE ThemeProofs ----------------------------
(***************************************************************************)
(* What holds of the theme for every set of colours and paths, with reads, *)
(* pictures and writes failing on the way and whenever the machine stops.  *)
(***************************************************************************)
EXTENDS Theme, TLAPS

-----------------------------------------------------------------------------
(* The inductive invariant. *)

Opaque == Colors \ {BadColor}
StoredPaths == Valid \cup {NoPath}
StateType == [accent : Opaque, mode : Modes, solid : Opaque, style : Styles, path : StoredPaths,
              eph : BOOLEAN]
ThemeType == [accent : Opaque, mode : Modes, solid : Opaque, style : Styles, path : StoredPaths]
FileType == [kind : {"cfg"}, accent : Opaque, mode : Modes, solid : Opaque,
             path : Paths \cup {NoPath}, style : Styles]

\* Wallpaper mode has a picture to show.
Shown(st) == st.mode = "wallpaper" => st.path # NoPath

Shapes ==
  /\ g_theme_state \in StateType /\ Shown(g_theme_state)
  /\ g_theme_loaded \in BOOLEAN
  /\ disk \in {NoFile, Garbage} \cup FileType
  /\ pc \in {"boot", "idle", "primary", "fallback"}
  /\ slip \subseteq {"accent", "flush", "unread"}

\* A boot starts with no failure behind it, and an accent that was applied in part
\* leaves no call under way.
SlipsEnd ==
  /\ pc # "idle" => "accent" \notin slip
  /\ pc = "boot" => slip = {}
  /\ "accent" \in slip => g_theme_state.mode = "wallpaper"

\* The desktop draws from what the calls report, without the picture after an
\* accent that could not be applied.
Drawing ==
  g_theme_loaded => desk = desktop_apply_theme(g_theme_state, "accent" \notin slip)

IInv == Shapes /\ SlipsEnd /\ Drawing /\ SavedOrFlagged

-----------------------------------------------------------------------------
(* The desktop. *)

\* What is drawn depends on nothing but the five fields of a theme.
SameTheme(st, ts) ==
  /\ ts.accent = st.accent /\ ts.mode = st.mode /\ ts.solid = st.solid
  /\ ts.style = st.style /\ ts.path = st.path

LEMMA SameDrawn ==
  ASSUME NEW st, NEW ts, SameTheme(st, ts), NEW x
  PROVE  desktop_apply_theme(ts, x) = desktop_apply_theme(st, x)
BY DEF SameTheme, desktop_apply_theme, Applies

\* A theme that was applied is drawn as if nothing could fail.
LEMMA AppliedDrawn ==
  ASSUME NEW st, NEW x, Applies(st, x)
  PROVE  desktop_apply_theme(st, x) = desktop_apply_theme(st, TRUE)
BY DEF desktop_apply_theme, Applies

\* What the user sees against what the calls report.
LEMMA AgreesFollows == IInv => DesktopAgrees
<1> SUFFICES ASSUME IInv, g_theme_loaded
             PROVE  /\ desk.accent = g_theme_state.accent
                    /\ IF "accent" \in slip
                       THEN /\ g_theme_state.mode = "wallpaper" /\ desk.path = NoPath
                            /\ Background(desk) = <<"gradient">>
                       ELSE /\ desk.path = g_theme_state.path
                            /\ Background(desk) =
                                 CASE g_theme_state.mode = "wallpaper" ->
                                        <<"picture", g_theme_state.path, g_theme_state.style>>
                                   [] g_theme_state.mode = "solid" -> <<"solid", g_theme_state.solid>>
                                   [] OTHER -> <<"gradient">>
  BY DEF DesktopAgrees
<1>0. CASE "accent" \in slip
  <2>1. /\ desk = desktop_apply_theme(g_theme_state, FALSE)
        /\ g_theme_state.mode = "wallpaper"
    BY <1>0 DEF IInv, Drawing, SlipsEnd
  <2>2. desk = [accent |-> g_theme_state.accent, solid |-> g_theme_state.solid,
                style |-> g_theme_state.style, mode |-> "gradient", path |-> NoPath,
                pixels |-> NoPixels]
    BY <2>1 DEF desktop_apply_theme, Applies
  <2>3. /\ desk.accent = g_theme_state.accent /\ desk.path = NoPath
        /\ Background(desk) = <<"gradient">>
    BY <2>2 DEF Background
  <2>4. QED
    BY <1>0, <2>1, <2>3, Zenon
<1> SUFFICES ASSUME "accent" \notin slip
             PROVE  /\ desk.accent = g_theme_state.accent /\ desk.path = g_theme_state.path
                    /\ Background(desk) =
                         CASE g_theme_state.mode = "wallpaper" ->
                                <<"picture", g_theme_state.path, g_theme_state.style>>
                           [] g_theme_state.mode = "solid" -> <<"solid", g_theme_state.solid>>
                           [] OTHER -> <<"gradient">>
  BY <1>0
<1> DEFINE st == g_theme_state
<1>1. desk = desktop_apply_theme(st, TRUE) /\ st \in StateType /\ Shown(st)
  BY DEF IInv, Drawing, Shapes
<1> HIDE DEF st
<1>2. CASE st.mode = "wallpaper"
  <2>1. st.path # NoPath /\ Applies(st, TRUE)
    BY <1>1, <1>2 DEF Shown, Applies
  <2>2. desk = [accent |-> st.accent, solid |-> st.solid, style |-> st.style, mode |-> "wallpaper",
                path |-> st.path, pixels |-> [path |-> st.path, style |-> st.style]]
    BY <1>1, <1>2, <2>1 DEF desktop_apply_theme
  <2>3. desk.pixels # NoPixels
    BY <2>1, <2>2 DEF NoPixels
  <2>4. QED
    BY <1>2, <2>2, <2>3 DEF Background, st
<1>3. CASE st.mode # "wallpaper"
  <2>1. desk = [accent |-> st.accent, solid |-> st.solid, style |-> st.style, mode |-> st.mode,
                path |-> st.path, pixels |-> NoPixels]
    BY <1>1, <1>3 DEF desktop_apply_theme
  <2>2. QED
    BY <1>3, <2>1 DEF Background, st
<1>4. QED
  BY <1>2, <1>3

-----------------------------------------------------------------------------
(* The file. *)

\* Whatever is on the disk, a boot starts from a theme that can be shown.
LEMMA LoadedOK ==
  ASSUME NEW f \in {NoFile, Garbage} \cup FileType
  PROVE  Loaded(f) \in ThemeType /\ Shown(Loaded(f))
<1>1. CASE Readable(f)
  <2>1. f \in FileType
    BY <1>1 DEF Readable, NoFile, Garbage
  <2>2. f.path # NoPath => f.path \in Paths /\ Trim[f.path] \in Valid
    BY <1>1, <2>1 DEF FileType, Readable, ReadsBack, validate_wallpaper_path
  <2>3. PathRead(f.path) \in StoredPaths /\ (f.path # NoPath => PathRead(f.path) # NoPath)
    BY <2>2, ThemeAssumption DEF PathRead, StoredPaths
  <2>4. Loaded(f) = [accent |-> f.accent, mode |-> f.mode, solid |-> f.solid, style |-> f.style,
                     path |-> PathRead(f.path)]
    BY <1>1 DEF Loaded, theme_read_cfg_from
  <2>5. f.mode = "wallpaper" => f.path # NoPath
    BY <1>1 DEF Readable
  <2>6. QED
    BY <2>1, <2>3, <2>4, <2>5 DEF ThemeType, FileType, Shown
<1>2. CASE ~Readable(f)
  BY <1>2, ThemeAssumption DEF Loaded, theme_set_defaults, ThemeType, StoredPaths, Shown, Modes, Styles,
     Opaque
<1>3. QED
  BY <1>1, <1>2

\* A boot and the next one start from the same theme.
LEMMA LoadedTwice ==
  ASSUME NEW f \in {NoFile, Garbage} \cup FileType
  PROVE  PathRead(Loaded(f).path) = Loaded(f).path
<1>1. CASE Readable(f)
  <2>1. f \in FileType
    BY <1>1 DEF Readable, NoFile, Garbage
  <2>2. Loaded(f).path = PathRead(f.path)
    BY <1>1 DEF Loaded, theme_read_cfg_from
  <2>3. CASE f.path = NoPath
    BY <2>2, <2>3 DEF PathRead
  <2>4. CASE f.path # NoPath
    BY <2>1, <2>2, <2>4, ThemeAssumption DEF PathRead, FileType
  <2>5. QED
    BY <2>3, <2>4
<1>2. CASE ~Readable(f)
  BY <1>2 DEF Loaded, theme_set_defaults, PathRead
<1>3. QED
  BY <1>1, <1>2

\* What is written with a path that does not read back gives the defaults.
LEMMA WrittenLost ==
  ASSUME NEW st, ~ReadsBack(st.path)
  PROVE  Loaded(Config(st)) = theme_set_defaults
BY DEF Loaded, Readable, Config

\* What is written reads back, if its path does.
LEMMA WrittenReads ==
  ASSUME NEW st \in StateType, Shown(st), ReadsBack(st.path)
  PROVE  Loaded(Config(st)) = [accent |-> st.accent, mode |-> st.mode, solid |-> st.solid,
                               style |-> st.style, path |-> PathRead(st.path)]
<1>1. Readable(Config(st))
  BY DEF Config, Readable, Shown
<1>2. QED
  BY <1>1 DEF Loaded, theme_read_cfg_from, Config

LEMMA WrittenType ==
  ASSUME NEW st \in StateType
  PROVE  Config(st) \in FileType /\ CutShort(st) \subseteq {Garbage} \cup FileType
<1>1. Config(st) \in FileType
  BY ThemeAssumption DEF Config, FileType, StateType, StoredPaths
<1>2. ASSUME NEW p \in Paths \cup {NoPath}
      PROVE  [Config(st) EXCEPT !.style = "fill", !.path = p] \in FileType
  BY <1>1 DEF FileType, Styles
<1>3. st.path \in Paths \cup {NoPath} /\ \A q \in {st.path} \ {NoPath} : Cut[q] \in Paths
  BY ThemeAssumption DEF StateType, StoredPaths
<1>4. QED
  BY <1>1, <1>2, <1>3 DEF CutShort

-----------------------------------------------------------------------------
(* Steps. *)

\* A state whose fields are a theme's.
LEMMA EphemeralNot ==
  ASSUME NEW st \in ThemeType
  PROVE  EPH(st) \in StateType /\ SameTheme(st, EPH(st)) /\ EPH(st).eph = FALSE
BY DEF EPH, ThemeType, StateType, SameTheme

LEMMA FallenOK ==
  ASSUME NEW st, st \in ThemeType \/ st \in StateType
  PROVE  /\ st \in ThemeType => Fallen(st) \in ThemeType
         /\ st \in StateType => Fallen(st) \in StateType
         /\ Fallen(st).mode = "gradient" /\ Fallen(st).path = NoPath
         /\ \A x : Applies(Fallen(st), x)
BY DEF Fallen, ThemeType, StateType, StoredPaths, Modes, Applies

\* A new theme is applied and goes on to be saved.
LEMMA CommitKeeps ==
  ASSUME IInv, NEW st \in StateType, Shown(st), NEW x, Applies(st, x), Commit(st, x)
  PROVE  IInv'
<1>1. /\ g_theme_state' = st /\ desk' = desktop_apply_theme(st, x) /\ pc' = "primary"
      /\ slip' = slip \ {"accent"} /\ UNCHANGED <<g_theme_loaded, disk>>
  BY DEF Commit
<1>2. Shapes' /\ SlipsEnd'
  BY <1>1 DEF IInv, Shapes, SlipsEnd, Shown, Readable, StateType
<1>3. Drawing'
  BY <1>1, AppliedDrawn DEF Drawing
<1>4. SavedOrFlagged'
  BY <1>1 DEF SavedOrFlagged, Idle
<1>5. QED
  BY <1>2, <1>3, <1>4 DEF IInv

LEMMA CommitOrFallKeeps ==
  ASSUME IInv, NEW st \in StateType, Shown(st), CommitOrFall(st)
  PROVE  IInv'
<1>1. PICK x \in Drawn : IF Applies(st, x) THEN Commit(st, x) ELSE Commit(Fallen(st), FALSE)
  BY DEF CommitOrFall
<1>2. CASE Applies(st, x)
  BY <1>1, <1>2, CommitKeeps
<1>3. CASE ~Applies(st, x)
  <2>1. Fallen(st) \in StateType /\ Shown(Fallen(st)) /\ Applies(Fallen(st), FALSE)
    BY FallenOK DEF Shown
  <2>2. QED
    BY <1>1, <1>3, <2>1, CommitKeeps
<1>4. QED
  BY <1>2, <1>3

LEMMA LoadKeeps ==
  ASSUME IInv, Load
  PROVE  IInv'
<1>0. PICK got \in Got, x \in Drawn :
        /\ pc = "boot" /\ g_theme_loaded' = TRUE /\ UNCHANGED disk
        /\ slip' = IF got THEN slip ELSE slip \cup {"unread"}
        /\ IF Applies(Read(disk, got), x)
           THEN /\ g_theme_state' = EPH(Read(disk, got))
                /\ desk' = desktop_apply_theme(Read(disk, got), x) /\ pc' = "idle"
           ELSE /\ g_theme_state' = EPH(Fallen(Read(disk, got)))
                /\ desk' = desktop_apply_theme(Fallen(Read(disk, got)), FALSE) /\ pc' = "primary"
  BY Zenon DEF Load
<1> DEFINE st == Read(disk, got)
<1>1. /\ pc = "boot" /\ g_theme_loaded' = TRUE /\ UNCHANGED disk
      /\ slip' = IF got THEN {} ELSE {"unread"}
      /\ IF Applies(st, x)
         THEN g_theme_state' = EPH(st) /\ desk' = desktop_apply_theme(st, x) /\ pc' = "idle"
         ELSE /\ g_theme_state' = EPH(Fallen(st))
              /\ desk' = desktop_apply_theme(Fallen(st), FALSE) /\ pc' = "primary"
  BY <1>0 DEF IInv, SlipsEnd
<1>2. st \in ThemeType /\ Shown(st) /\ PathRead(st.path) = st.path
  <2>1. CASE got
    BY <2>1, LoadedOK, LoadedTwice DEF IInv, Shapes, Read
  <2>2. CASE ~got
    <3>1. NoFile \in {NoFile, Garbage} \cup FileType /\ Loaded(NoFile) = theme_set_defaults
      BY DEF Loaded, Readable, NoFile
    <3>2. QED
      BY <2>2, <3>1, LoadedOK, LoadedTwice DEF Read
  <2>3. QED
    BY <2>1, <2>2
<1>3. /\ got => Loaded(disk)' = st
      /\ ~got => st = theme_set_defaults
  BY <1>1 DEF Read, Loaded, Readable, theme_read_cfg_from
<1> HIDE DEF st
<1>4. "accent" \notin slip'
  BY <1>1
<1>5. CASE Applies(st, x)
  <2>1. g_theme_state' = EPH(st) /\ desk' = desktop_apply_theme(st, x) /\ pc' = "idle"
    BY <1>1, <1>5
  <2>2. EPH(st) \in StateType /\ SameTheme(st, EPH(st)) /\ EPH(st).eph = FALSE
    BY <1>2, EphemeralNot
  <2>3. Shapes' /\ SlipsEnd'
    BY <1>1, <1>2, <2>1, <2>2 DEF IInv, Shapes, SlipsEnd, Shown, SameTheme
  <2>4. Drawing'
    <3>1. desktop_apply_theme(st, x) = desktop_apply_theme(st, TRUE)
      BY <1>5, AppliedDrawn
    <3>2. desktop_apply_theme(EPH(st), TRUE) = desktop_apply_theme(st, TRUE)
      BY <2>2, SameDrawn
    <3>3. QED
      BY <1>4, <2>1, <3>1, <3>2 DEF Drawing
  <2>5. SavedOrFlagged'
    <3>1. CASE got
      <4>1. EPH(st) = [EPH(st) EXCEPT !.path = PathRead(EPH(st).path), !.accent = EPH(st).accent]
        BY <1>2, <2>2 DEF SameTheme, StateType
      <4>2. EPH(Loaded(disk))' = EPH(st) /\ slip' = {}
        BY <1>1, <1>3, <3>1 DEF EPH
      <4>3. ReadsBack(EPH(st).path)
        <5>1. st.path \in StoredPaths
          BY <1>2 DEF ThemeType
        <5>2. QED
          BY <1>2, <2>2, <5>1, ThemeAssumption
             DEF SameTheme, ReadsBack, PathRead, StoredPaths, validate_wallpaper_path
      <4>4. QED
        BY <2>1, <4>1, <4>2, <4>3 DEF SavedOrFlagged
    <3>2. CASE ~got
      BY <1>1, <1>3, <2>1, <3>2 DEF SavedOrFlagged, EPH, theme_set_defaults
    <3>3. QED
      BY <3>1, <3>2
  <2>6. QED
    BY <2>3, <2>4, <2>5 DEF IInv
<1>6. CASE ~Applies(st, x)
  <2>1. /\ g_theme_state' = EPH(Fallen(st)) /\ desk' = desktop_apply_theme(Fallen(st), FALSE)
        /\ pc' = "primary"
    BY <1>1, <1>6
  <2>2. Fallen(st) \in ThemeType /\ Fallen(st).mode = "gradient" /\ Applies(Fallen(st), FALSE)
    BY <1>2, FallenOK
  <2>3. EPH(Fallen(st)) \in StateType /\ SameTheme(Fallen(st), EPH(Fallen(st)))
    BY <2>2, EphemeralNot
  <2>4. Shapes' /\ SlipsEnd'
    BY <1>1, <1>4, <2>1, <2>2, <2>3 DEF IInv, Shapes, SlipsEnd, Shown, SameTheme
  <2>5. Drawing'
    <3>1. desktop_apply_theme(Fallen(st), FALSE) = desktop_apply_theme(Fallen(st), TRUE)
      BY <2>2, AppliedDrawn
    <3>2. desktop_apply_theme(EPH(Fallen(st)), TRUE) = desktop_apply_theme(Fallen(st), TRUE)
      BY <2>3, SameDrawn
    <3>3. QED
      BY <1>4, <2>1, <3>1, <3>2 DEF Drawing
  <2>6. SavedOrFlagged'
    BY <2>1 DEF SavedOrFlagged, Idle
  <2>7. QED
    BY <2>4, <2>5, <2>6 DEF IInv
<1>7. QED
  BY <1>5, <1>6

LEMMA SetAccentKeeps ==
  ASSUME IInv, NEW c \in Colors, SetAccent(c)
  PROVE  IInv'
<1> DEFINE st == [g_theme_state EXCEPT !.accent = c]
<1>1. PICK x \in Drawn :
        /\ Idle /\ c # BadColor
        /\ IF Applies(st, x) THEN Commit(st, x)
           ELSE /\ g_theme_state' = st /\ slip' = slip \cup {"accent"}
                /\ desk' = desktop_apply_theme(st, x)
                /\ UNCHANGED <<g_theme_loaded, disk, pc>>
  BY DEF SetAccent
<1>2. st \in StateType /\ Shown(st)
  BY <1>1 DEF IInv, Shapes, StateType, Shown, Opaque
<1>3. /\ st.mode = g_theme_state.mode /\ st.path = g_theme_state.path /\ st.eph = g_theme_state.eph
      /\ [st EXCEPT !.path = PathRead(st.path), !.accent = EPH(Loaded(disk)).accent]
           = [g_theme_state EXCEPT !.path = PathRead(g_theme_state.path),
                                   !.accent = EPH(Loaded(disk)).accent]
  BY DEF IInv, Shapes, StateType
<1> HIDE DEF st
<1>4. CASE Applies(st, x)
  BY <1>1, <1>2, <1>4, CommitKeeps
<1>5. CASE ~Applies(st, x)
  <2>1. /\ g_theme_state' = st /\ slip' = slip \cup {"accent"}
        /\ desk' = desktop_apply_theme(st, x)
        /\ UNCHANGED <<g_theme_loaded, disk, pc>> /\ pc = "idle"
    BY <1>1, <1>5 DEF Idle
  <2>2. st.mode = "wallpaper" /\ x = FALSE
    <3>1. st.mode = "wallpaper" /\ st.path # NoPath
      BY <1>2, <1>5 DEF Applies, Shown
    <3>2. QED
      BY <1>5, <3>1 DEF Applies, Drawn
  <2>3. Shapes' /\ SlipsEnd'
    BY <1>2, <2>1, <2>2 DEF IInv, Shapes, SlipsEnd, Shown
  <2>4. Drawing'
    BY <2>1, <2>2 DEF Drawing
  <2>5. SavedOrFlagged'
    <3>1. SUFFICES ASSUME g_theme_loaded, "flush" \notin slip, ~st.eph
                   PROVE  /\ "unread" \notin slip
                          /\ IF ~ReadsBack(st.path) THEN EPH(Loaded(disk)) = EPH(theme_set_defaults)
                             ELSE EPH(Loaded(disk)) = [st EXCEPT !.path = PathRead(st.path),
                                                                !.accent = EPH(Loaded(disk)).accent]
      <4>1. EPH(Loaded(disk))' = EPH(Loaded(disk))
        BY <2>1 DEF Loaded, Readable, theme_read_cfg_from, EPH
      <4>2. QED
        BY <2>1, <4>1 DEF SavedOrFlagged
    <3>2. ~g_theme_state.eph /\ pc = "idle" /\ SavedOrFlagged
      BY <1>3, <2>1, <3>1 DEF IInv
    <3>3. "unread" \notin slip
      <4>1. EPH(theme_set_defaults).mode # "wallpaper"
        BY DEF EPH, theme_set_defaults
      <4>2. QED
        BY <1>3, <2>2, <3>1, <3>2, <4>1 DEF SavedOrFlagged, Idle
    <3>4. CASE ~ReadsBack(st.path)
      BY <1>3, <3>1, <3>2, <3>3, <3>4 DEF SavedOrFlagged, Idle
    <3>5. CASE ReadsBack(st.path)
      <4>1. EPH(Loaded(disk)) = [g_theme_state EXCEPT !.path = PathRead(g_theme_state.path),
                                   !.accent = EPH(Loaded(disk)).accent]
        <5>1. EPH(Loaded(disk)) = [g_theme_state EXCEPT !.path = PathRead(g_theme_state.path),
                !.accent = IF "accent" \in slip THEN EPH(Loaded(disk)).accent
                           ELSE g_theme_state.accent]
          BY <1>3, <3>1, <3>2, <3>3, <3>5 DEF SavedOrFlagged, Idle
        <5>2. g_theme_state \in StateType
          BY DEF IInv, Shapes
        <5>3. CASE "accent" \in slip
          BY <5>1, <5>3
        <5>4. CASE "accent" \notin slip
          BY <5>1, <5>2, <5>4 DEF StateType
        <5>5. QED
          BY <5>3, <5>4
      <4>2. QED
        BY <1>3, <3>3, <3>5, <4>1
    <3>6. QED
      BY <3>3, <3>4, <3>5
  <2>6. QED
    BY <2>3, <2>4, <2>5 DEF IInv
<1>6. QED
  BY <1>4, <1>5

LEMMA SetBgModeKeeps ==
  ASSUME IInv, NEW mode \in Modes, NEW aux, SetBgMode(mode, aux)
  PROVE  IInv'
<1> DEFINE solid == IF mode = "solid" /\ aux # NoPath THEN aux ELSE g_theme_state.solid
           style == IF mode = "wallpaper" /\ aux # NoPath THEN aux ELSE g_theme_state.style
           m == IF mode = "wallpaper" /\ g_theme_state.path = NoPath THEN "gradient" ELSE mode
           st == [g_theme_state EXCEPT !.solid = solid, !.style = style, !.mode = m]
<1>1. /\ mode = "solid" => aux \in Opaque \cup {NoPath}
      /\ mode = "wallpaper" => aux \in Styles \cup {NoPath}
      /\ CommitOrFall(st)
  BY DEF SetBgMode, Opaque
<1>2. g_theme_state \in StateType
  BY DEF IInv, Shapes
<1>3. solid \in Opaque /\ style \in Styles /\ m \in Modes
  BY <1>1, <1>2 DEF StateType, Modes
<1>4. m = "wallpaper" => g_theme_state.path # NoPath
  OBVIOUS
<1> HIDE DEF solid, style, m
<1>5. st \in StateType /\ st.mode = m /\ st.path = g_theme_state.path
  BY <1>2, <1>3 DEF StateType
<1> HIDE DEF st
<1>6. QED
  BY <1>1, <1>4, <1>5, CommitOrFallKeeps DEF Shown

LEMMA SetWallpaperKeeps ==
  ASSUME IInv, NEW p \in Paths, NEW s \in Styles \cup {NoPath}, SetWallpaper(p, s)
  PROVE  IInv'
<1> DEFINE style == IF s = NoPath THEN g_theme_state.style ELSE s
           st == [g_theme_state EXCEPT !.path = p, !.mode = "wallpaper", !.style = style]
<1>1. p \in Valid /\ CommitOrFall(st)
  BY DEF SetWallpaper, validate_wallpaper_path
<1>2. g_theme_state \in StateType
  BY DEF IInv, Shapes
<1>3. style \in Styles
  BY <1>2 DEF StateType
<1> HIDE DEF style
<1>4. st \in StateType /\ st.path = p
  BY <1>1, <1>2, <1>3 DEF StateType, StoredPaths, Modes
<1> HIDE DEF st
<1>5. p # NoPath
  BY <1>1, ThemeAssumption
<1>6. QED
  BY <1>1, <1>4, <1>5, CommitOrFallKeeps DEF Shown

LEMMA PersistPrimaryKeeps ==
  ASSUME IInv, PersistPrimary
  PROVE  IInv'
<1> DEFINE st == g_theme_state
           ts == [g_theme_state EXCEPT !.eph = FALSE]
<1>1. pc = "primary" /\ UNCHANGED <<g_theme_loaded, desk>> /\ "accent" \notin slip
  BY DEF PersistPrimary, IInv, SlipsEnd
<1>2. st \in StateType /\ Shown(st) /\ ts \in StateType /\ SameTheme(st, ts) /\ ts.eph = FALSE
  BY DEF IInv, Shapes, StateType, SameTheme
<1>3. Shown(ts)
  BY <1>2 DEF Shown, SameTheme
<1>4. desktop_apply_theme(ts, TRUE) = desktop_apply_theme(st, TRUE)
  BY <1>2, SameDrawn
<1> HIDE DEF ts
<1>5. CASE disk' = Config(st) /\ g_theme_state' = ts /\ pc' = "idle" /\ slip' = {}
  <2>1. Shapes' /\ SlipsEnd'
    BY <1>1, <1>2, <1>3, <1>5, WrittenType DEF IInv, Shapes, SlipsEnd, Shown
  <2>2. Drawing'
    BY <1>1, <1>4, <1>5 DEF IInv, Drawing
  <2>3. SavedOrFlagged'
    <3>0. Loaded(disk)' = Loaded(Config(st))
      BY <1>5 DEF Loaded, Readable, theme_read_cfg_from
    <3>01. CASE ~ReadsBack(ts.path)
      <4>1. Loaded(disk)' = theme_set_defaults
        BY <1>2, <3>0, <3>01, WrittenLost DEF SameTheme
      <4>2. EPH(Loaded(disk))' = EPH(theme_set_defaults)
        BY <4>1 DEF EPH
      <4>3. QED
        BY <1>5, <3>01, <4>2 DEF SavedOrFlagged, ReadsBack
    <3>1. SUFFICES ASSUME ReadsBack(ts.path)
                   PROVE  EPH(Loaded(disk))' = [ts EXCEPT !.path = PathRead(ts.path), !.accent = ts.accent]
      BY <1>5, <3>01 DEF SavedOrFlagged, ReadsBack, PathRead
    <3>2. Loaded(Config(st)) = [accent |-> st.accent, mode |-> st.mode, solid |-> st.solid,
                                style |-> st.style, path |-> PathRead(st.path)]
      BY <1>2, <3>1, WrittenReads DEF SameTheme
    <3>3. EPH(Loaded(disk))' = [accent |-> st.accent, mode |-> st.mode, solid |-> st.solid,
                                style |-> st.style, path |-> PathRead(st.path), eph |-> FALSE]
      BY <3>0, <3>2 DEF EPH
    <3>4. [ts EXCEPT !.path = PathRead(ts.path), !.accent = ts.accent]
            = [accent |-> st.accent, mode |-> st.mode, solid |-> st.solid,
               style |-> st.style, path |-> PathRead(st.path), eph |-> FALSE]
      <4>1. [ts EXCEPT !.path = PathRead(ts.path), !.accent = ts.accent]
              = [accent |-> ts.accent, mode |-> ts.mode, solid |-> ts.solid,
                 style |-> ts.style, path |-> PathRead(ts.path), eph |-> ts.eph]
        <5>1. ASSUME NEW q
              PROVE  [ts EXCEPT !.path = q, !.accent = ts.accent]
                       = [accent |-> ts.accent, mode |-> ts.mode, solid |-> ts.solid,
                          style |-> ts.style, path |-> q, eph |-> ts.eph]
          <6> DEFINE u == [accent |-> ts.accent, mode |-> ts.mode, solid |-> ts.solid,
                           style |-> ts.style, path |-> q, eph |-> ts.eph]
          <6>1. [ts EXCEPT !.path = q] = u
            BY <1>2 DEF StateType
          <6>2. [u EXCEPT !.accent = ts.accent] = u
            OBVIOUS
          <6>3. [[ts EXCEPT !.path = q] EXCEPT !.accent = ts.accent] = u
            BY <6>1, <6>2, Zenon
          <6>4. QED
            BY <6>3
        <5>2. QED
          BY <5>1, Zenon
      <4>2. QED
        BY <1>2, <4>1, Zenon DEF SameTheme
    <3>5. QED
      BY <3>3, <3>4
  <2>4. QED
    BY <2>1, <2>2, <2>3 DEF IInv
<1>6. CASE g_theme_state' = ts /\ pc' = "idle" /\ slip' = {"flush"} /\ disk' \in {disk, Garbage}
  <2>1. Shapes' /\ SlipsEnd'
    BY <1>1, <1>2, <1>3, <1>6 DEF IInv, Shapes, SlipsEnd, Shown
  <2>2. Drawing'
    BY <1>1, <1>4, <1>6 DEF IInv, Drawing
  <2>3. SavedOrFlagged'
    BY <1>6 DEF SavedOrFlagged
  <2>4. QED
    BY <2>1, <2>2, <2>3 DEF IInv
<1>7. CASE disk' \in {disk} \cup CutShort(st) /\ pc' = "fallback" /\ UNCHANGED <<g_theme_state, slip>>
  <2>1. Shapes' /\ SlipsEnd'
    BY <1>1, <1>2, <1>7, WrittenType DEF IInv, Shapes, SlipsEnd, Shown
  <2>2. Drawing' /\ SavedOrFlagged'
    BY <1>1, <1>7 DEF IInv, Drawing, SavedOrFlagged, Idle
  <2>3. QED
    BY <2>1, <2>2 DEF IInv
<1>8. QED
  BY <1>5, <1>6, <1>7 DEF PersistPrimary, ts

LEMMA PersistFallbackKeeps ==
  ASSUME IInv, PersistFallback
  PROVE  IInv'
<1> DEFINE st == g_theme_state
           ts == [g_theme_state EXCEPT !.eph = TRUE]
<1>1. /\ pc = "fallback" /\ pc' = "idle" /\ g_theme_state' = ts
      /\ UNCHANGED <<g_theme_loaded, desk, disk, slip>>
  BY DEF PersistFallback
<1>2. st \in StateType /\ Shown(st) /\ ts \in StateType /\ SameTheme(st, ts) /\ ts.eph = TRUE
  BY DEF IInv, Shapes, StateType, SameTheme
<1>3. Shown(ts) /\ desktop_apply_theme(ts, TRUE) = desktop_apply_theme(st, TRUE)
  BY <1>2, SameDrawn DEF Shown, SameTheme
<1> HIDE DEF ts
<1>4. Shapes' /\ SlipsEnd'
  BY <1>1, <1>2, <1>3 DEF IInv, Shapes, SlipsEnd, Shown
<1>5. Drawing' /\ SavedOrFlagged'
  BY <1>1, <1>2, <1>3 DEF IInv, SlipsEnd, Drawing, SavedOrFlagged
<1>6. QED
  BY <1>4, <1>5 DEF IInv

\* What the machine starts from.
LEMMA DefaultsOK == EPH(theme_set_defaults) \in StateType /\ Shown(EPH(theme_set_defaults))
BY ThemeAssumption DEF EPH, theme_set_defaults, StateType, StoredPaths, Shown, Modes, Styles, Opaque

LEMMA RebootKeeps ==
  ASSUME IInv, Reboot
  PROVE  IInv'
<1>1. /\ pc' = "boot" /\ g_theme_loaded' = FALSE /\ slip' = {} /\ disk' \in {disk, Garbage}
      /\ g_theme_state' = EPH(theme_set_defaults)
  BY DEF Reboot
<1>2. QED
  BY <1>1, DefaultsOK DEF IInv, Shapes, SlipsEnd, Drawing, SavedOrFlagged, Shown

LEMMA InitHolds == Init => IInv
BY DefaultsOK DEF Init, IInv, Shapes, SlipsEnd, Drawing, SavedOrFlagged, Shown

LEMMA StepKeeps ==
  ASSUME IInv, [Next]_vars
  PROVE  IInv'
<1>1. CASE Load
  BY <1>1, LoadKeeps
<1>2. CASE PersistPrimary
  BY <1>2, PersistPrimaryKeeps
<1>3. CASE PersistFallback
  BY <1>3, PersistFallbackKeeps
<1>4. CASE Reboot
  BY <1>4, RebootKeeps
<1>5. ASSUME NEW c \in Colors, SetAccent(c) PROVE IInv'
  BY <1>5, SetAccentKeeps
<1>6. ASSUME NEW m \in Modes, NEW aux, SetBgMode(m, aux) PROVE IInv'
  BY <1>6, SetBgModeKeeps
<1>7. ASSUME NEW p \in Paths, NEW s \in Styles \cup {NoPath}, SetWallpaper(p, s) PROVE IInv'
  BY <1>7, SetWallpaperKeeps
<1>8. CASE UNCHANGED vars
  BY <1>8 DEF vars, IInv, Shapes, SlipsEnd, Drawing, SavedOrFlagged, Idle, Shown
<1>9. QED
  BY <1>1, <1>2, <1>3, <1>4, <1>5, <1>6, <1>7, <1>8 DEF Next

-----------------------------------------------------------------------------

\* Of the SYSTEM_CMD_THEME_* calls and the boot, with a file the boot cannot read,
\* pictures that do not decode, files that do not open or are cut short, and the
\* machine stopping at any step: what is on the screen, and what the next boot
\* starts from, are what DesktopAgrees and SavedOrFlagged say of the reported
\* theme.  Of the disk it says nothing after a flush whose failure vfs_close
\* swallowed.
THEOREM ThemeAlwaysSound == Spec => []ThemeSound
<1>1. IInv => ThemeSound
  BY AgreesFollows DEF IInv, ThemeSound
<1>2. IInv /\ [Next]_vars => IInv'
  BY StepKeeps
<1>3. QED
  BY <1>1, <1>2, InitHolds, PTL DEF Spec
=============================================================================
