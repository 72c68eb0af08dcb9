------------------------------- MODULE UiProofs -------------------------------
(***************************************************************************)
(* Theorems about Ui: rows, selection, dialog and delete job belong        *)
(* together, and only two pointers ever dangle, for any directory and any  *)
(* number of modals and jobs; and a reader of the log sees its end, for a  *)
(* ring of any size.                                                       *)
(***************************************************************************)
EXTENDS Ui, FiniteSetTheorems, WellFoundedInduction, TLAPS

-----------------------------------------------------------------------------
(* The fields: which modal a pointer belongs to.                           *)

\* The two fields apply_theme() forgets.
Known == {"sw_ps_rinex_", "list_wifi_scan_"}

\* Built has one entry for the screen and one for each modal.
LEMMA Parts ==
    /\ DOMAIN Built = {"screen", "wifi", "admin", "console", "ntrip", "files", "setup"}
    /\ Modals = {"wifi", "admin", "console", "ntrip", "files", "setup"}
    /\ Built["screen"] = build_screens /\ Built["wifi"] = build_wifi_modal
    /\ Built["admin"] = build_admin_modal /\ Built["console"] = build_console_modal
    /\ Built["ntrip"] = build_ntrip_modal /\ Built["files"] = build_file_browser
    /\ Built["setup"] = build_position_setup
BY DEF Built, Modals

\* No two modals share a field.
LEMMA ModalsApart ==
    \A m, n \in Modals : m # n => Built[m] \cap Built[n] = {}
BY Parts DEF build_wifi_modal, build_admin_modal, build_console_modal,
             build_ntrip_modal, build_file_browser, build_position_setup

\* The screen shares none with a modal.
LEMMA ScreenApart == \A m \in Modals : Built["screen"] \cap Built[m] = {}
BY Parts DEF build_wifi_modal, build_admin_modal, build_console_modal,
             build_ntrip_modal, build_file_browser, build_position_setup,
             build_screens, build_header, build_dashboard_tab,
             build_ntrip_lights_tile, build_position_tab, build_links_tab,
             ntrip_detail_group, build_storage_tab, build_system_tab

LEMMA FieldsApart ==
    \A m, n \in DOMAIN Built : m # n => Built[m] \cap Built[n] = {}
<1> SUFFICES ASSUME NEW m \in DOMAIN Built, NEW n \in DOMAIN Built, m # n
             PROVE  Built[m] \cap Built[n] = {}
    OBVIOUS
<1>1. CASE m = "screen"
    BY <1>1, ScreenApart DEF Modals
<1>2. CASE n = "screen"
    BY <1>2, ScreenApart DEF Modals
<1>3. CASE m # "screen" /\ n # "screen"
    BY <1>3, ModalsApart DEF Modals
<1> QED BY <1>1, <1>2, <1>3

-----------------------------------------------------------------------------
(* The inductive invariant.                                                *)

\* A modal on display has its widgets, and the dialog its file browser: the
\* theme changes on the bare screen only and takes the dialog along.
ShownIsBuilt == visible \subseteq built
DialogNeedsBrowser == dialog # "none" => "files" \in built

UiInv == DialogsConsistent /\ ShownIsBuilt /\ DialogNeedsBrowser /\ OnlyKnownDangling

\* A field of a modal whose widgets exist is neither null nor dangling.
LEMMA NoMiss ==
    ASSUME TypeOK, NEW must, NEW tested,
           \A f \in must \cup tested : f \in Known \/ \E m \in built : f \in Built[m]
    PROVE  Misses(must, tested) \subseteq Known
<1>1. ASSUME NEW f, NEW m \in built, f \in Built[m]
      PROVE  ~IsNull(f) /\ ~Dangles(f)
  <2>1. m \notin freed /\ built \subseteq DOMAIN Built /\ freed \subseteq DOMAIN Built
        BY DEF TypeOK, Modals
  <2>2. ~IsNull(f)
        BY <1>1, <2>1 DEF IsNull
  <2>3. \A n \in freed : f \notin Built[n]
        BY <1>1, <2>1, FieldsApart
  <2> QED BY <2>2, <2>3 DEF Dangles
<1> QED BY <1>1 DEF Misses

\* So a handler that touches only those keeps OnlyKnownDangling.
LEMMA TouchKnown ==
    ASSUME TypeOK, OnlyKnownDangling, NEW must, NEW tested, Touch(must, tested),
           \A f \in must \cup tested : f \in Known \/ \E m \in built : f \in Built[m]
    PROVE  OnlyKnownDangling'
<1>1. Misses(must, tested) \subseteq Known
      BY NoMiss
<1> QED BY <1>1 DEF Touch, OnlyKnownDangling, Known

\* What a handler of modal m, which is on display, touches.
LEMMA TouchShown ==
    ASSUME UiInv, NEW m \in Modals, Shown(m), NEW must, NEW tested, Touch(must, tested),
           must \cup tested \subseteq Built[m] \cup Known
    PROVE  OnlyKnownDangling'
<1>1. m \in built
      BY DEF UiInv, Shown, ShownIsBuilt
<1> QED BY <1>1, TouchKnown DEF UiInv, DialogsConsistent

\* Opening a modal touches what was just built.
LEMMA OpenKnown ==
    ASSUME UiInv, NEW m \in Modals, NEW must, Open(m, must), must \subseteq Built[m]
    PROVE  OnlyKnownDangling'
BY DEF Open, UiInv, OnlyKnownDangling

\* The fields refresh() writes to are the screen's.
LEMMA RefreshScreen == RefreshFields \cup RefreshTested \subseteq Built["screen"] \cup Known
BY Parts DEF Known, RefreshFields, RefreshTested, update_header, RefreshMode,
             RefreshTiles, RefreshPosition, RefreshSky, RefreshLinks,
             RefreshSystem, RefreshStorage, RefreshFirmware,
             build_screens, build_header, build_dashboard_tab,
             build_ntrip_lights_tile, build_position_tab, build_links_tab,
             ntrip_detail_group, build_storage_tab, build_system_tab

-----------------------------------------------------------------------------
(* The modals.                                                             *)

LEMMA Start == Init => UiInv
<1> SUFFICES ASSUME Init PROVE UiInv
    OBVIOUS
<1>1. Cardinality(visible) = 0
      BY FS_EmptySet DEF Init
<1>2. job \in [state : {"idle", "running", "done", "failed"},
                owner : {"none", "screen", "web"}, paths : SUBSET Entries]
      BY DEF Init
<1>3. webJobs \in 0..MaxWebJobs
      BY UiAssumption DEF Init
<1>4. built \subseteq DOMAIN Built /\ freed \subseteq Modals
      BY Parts DEF Init
<1>5. {listed, rows, selected, pending, card, active} \subseteq SUBSET Entries
      BY DEF Init
<1>6. {selecting, armed} \subseteq BOOLEAN /\ scanning \in {"no", "task", "stuck"}
      BY DEF Init
<1>7. TypeOK
      BY <1>1, <1>2, <1>3, <1>4, <1>5, <1>6 DEF Init, TypeOK
<1> QED BY <1>7 DEF Init, UiInv, DialogsConsistent, ProgressStays, Running,
                    DialogHasPaths, RowsHaveSelection, ShownIsBuilt,
                    DialogNeedsBrowser, OnlyKnownDangling, Shown

\* The part of the types that opening, hiding and the theme change.
WidgetTypes ==
    /\ built \subseteq DOMAIN Built /\ freed \subseteq Modals
    /\ built \cap freed = {} /\ "screen" \in built
    /\ visible \subseteq Modals /\ Cardinality(visible) <= 1

LEMMA OpenTypes ==
    ASSUME UiInv, NEW m \in Modals, NEW must, Open(m, must)
    PROVE  WidgetTypes' /\ ShownIsBuilt' /\ built \subseteq built'
<1>1. Cardinality({m}) = 1
      BY FS_Singleton
<1>2. /\ built' = built \cup {m} /\ freed' = freed \ {m} /\ visible' = {m}
      /\ m \in DOMAIN Built
      BY DEF Open, BuildModal, Modals
<1> QED BY <1>1, <1>2 DEF UiInv, DialogsConsistent, TypeOK, WidgetTypes, ShownIsBuilt

\* A step that opens a modal other than the browser.
LEMMA OpenStep ==
    ASSUME UiInv, NEW m \in Modals \ {"files"}, NEW must, Open(m, must),
           must \subseteq Built[m], UNCHANGED <<browser, confirm, scanning, disk>>
    PROVE  UiInv'
<1>1. WidgetTypes' /\ ShownIsBuilt' /\ built \subseteq built'
      BY OpenTypes
<1>2. OnlyKnownDangling'
      BY OpenKnown
<1>3. TypeOK'
      BY <1>1 DEF UiInv, DialogsConsistent, TypeOK, WidgetTypes, browser, confirm, disk
<1>4. RowsHaveSelection'
      BY DEF UiInv, DialogsConsistent, RowsHaveSelection, Open, Shown, browser
<1> QED BY <1>1, <1>2, <1>3, <1>4
        DEF UiInv, DialogsConsistent, ProgressStays, DialogHasPaths, Running,
            DialogNeedsBrowser, confirm, disk

\* A step that at most hides the modal on display.
LEMMA HideStep ==
    ASSUME UiInv, OnlyKnownDangling', visible' \in {visible, {}},
           scanning' \in {"no", "task", "stuck"}, UNCHANGED <<built, freed, browser, confirm, disk>>
    PROVE  UiInv'
<1>1. Cardinality({}) = 0
      BY FS_EmptySet
<1>2. TypeOK'
      BY <1>1 DEF UiInv, DialogsConsistent, TypeOK, browser, confirm, disk
<1>3. RowsHaveSelection' /\ ShownIsBuilt'
      BY DEF UiInv, DialogsConsistent, RowsHaveSelection, ShownIsBuilt, Shown, browser
<1> QED BY <1>2, <1>3
        DEF UiInv, DialogsConsistent, ProgressStays, DialogHasPaths, Running,
            DialogNeedsBrowser, confirm, disk

LEMMA Opens ==
    ASSUME UiInv, \/ open_wifi_modal \/ open_admin_modal \/ open_console_modal
                  \/ open_ntrip_modal \/ open_position_setup
    PROVE  UiInv'
<1> USE Parts
<1>1. CASE open_wifi_modal
      BY <1>1, OpenStep DEF open_wifi_modal, build_wifi_modal
<1>2. CASE open_admin_modal
      BY <1>2, OpenStep DEF open_admin_modal, build_admin_modal
<1>3. CASE open_console_modal
      BY <1>3, OpenStep DEF open_console_modal, build_console_modal
<1>4. CASE open_ntrip_modal
      BY <1>4, OpenStep DEF open_ntrip_modal, build_ntrip_modal
<1>5. CASE open_position_setup
      BY <1>5, OpenStep DEF open_position_setup, build_position_setup
<1> QED BY <1>1, <1>2, <1>3, <1>4, <1>5

LEMMA Closes ==
    ASSUME UiInv, NEW m \in Modals, Close(m)
    PROVE  UiInv'
<1>1. OnlyKnownDangling'
      BY TouchShown DEF Close
<1> QED BY <1>1, HideStep DEF Close, UiInv, DialogsConsistent, TypeOK

LEMMA Saves ==
    ASSUME UiInv, \/ on_admin_save \/ on_ps_pos_save \/ on_ps_ant_save
                  \/ save_ntrip_config
    PROVE  UiInv'
<1> USE Parts
<1>1. OnlyKnownDangling'
  <2>1. CASE on_admin_save
        BY <2>1, TouchShown DEF on_admin_save, build_admin_modal
  <2>2. CASE on_ps_pos_save
        BY <2>2, TouchShown DEF on_ps_pos_save, build_position_setup
  <2>3. CASE on_ps_ant_save
        BY <2>3, TouchShown DEF on_ps_ant_save, build_position_setup
  <2>4. CASE save_ntrip_config
        BY <2>4, TouchShown DEF save_ntrip_config, build_ntrip_modal
  <2> QED BY <2>1, <2>2, <2>3, <2>4
<1>2. /\ visible' \in {visible, {}} /\ scanning' \in {"no", "task", "stuck"}
      /\ UNCHANGED <<built, freed, browser, confirm, disk>>
      BY DEF on_admin_save, on_ps_pos_save, on_ps_ant_save, save_ntrip_config,
             widgets, UiInv, DialogsConsistent, TypeOK
<1> QED BY <1>1, <1>2, HideStep

LEMMA Scans ==
    ASSUME UiInv, on_wifi_scan \/ wifi_scan_task \/ on_wifi_list_click
    PROVE  UiInv'
<1> USE Parts
<1>1. OnlyKnownDangling'
  <2>1. CASE on_wifi_scan
        BY <2>1, TouchShown DEF on_wifi_scan, build_wifi_modal
  <2>2. CASE wifi_scan_task
        BY <2>2, TouchKnown DEF wifi_scan_task, populate_wifi_scan_list, Known, UiInv,
                                DialogsConsistent
  <2>3. CASE on_wifi_list_click
        BY <2>3, TouchShown DEF on_wifi_list_click, build_wifi_modal
  <2> QED BY <2>1, <2>2, <2>3
<1>2. /\ visible' \in {visible, {}} /\ scanning' \in {"no", "task", "stuck"}
      /\ UNCHANGED <<built, freed, browser, confirm, disk>>
      BY DEF on_wifi_scan, wifi_scan_task, on_wifi_list_click, widgets, UiInv,
             DialogsConsistent, TypeOK
<1> QED BY <1>1, <1>2, HideStep

LEMMA ThemeStep ==
    ASSUME UiInv, apply_theme
    PROVE  UiInv'
<1>1. CASE Running
      BY <1>1, HideStep DEF apply_theme, widgets, UiInv, OnlyKnownDangling,
                            DialogsConsistent, TypeOK
<1>2. CASE ~Running
  <2>1. /\ visible = {} /\ visible' = {} /\ built' = {"screen"}
        /\ freed' = freed \cup (built \ {"screen"})
        /\ dialog' = "none" /\ armed' = FALSE /\ pending' = {}
        /\ selecting' = FALSE /\ rows' = {} /\ selected' = {} /\ listed' = listed
        /\ UNCHANGED <<scanning, disk, bad>>
        BY <1>2 DEF apply_theme, BareScreen
  <2>2. "screen" \in DOMAIN Built /\ "screen" \notin Modals
        BY Parts DEF Modals
  <2>3. TypeOK'
        BY <2>1, <2>2 DEF UiInv, DialogsConsistent, TypeOK, Modals, disk
  <2> QED BY <1>2, <2>1, <2>3
          DEF UiInv, DialogsConsistent, ProgressStays, DialogHasPaths, Running,
              RowsHaveSelection, Shown, ShownIsBuilt, DialogNeedsBrowser,
              OnlyKnownDangling, disk
<1> QED BY <1>1, <1>2

-----------------------------------------------------------------------------
(* The file browser.                                                       *)

\* A step that changes rows and selection only, and at most hides the browser.
LEMMA RowsStep ==
    ASSUME UiInv, OnlyKnownDangling', RowsHaveSelection',
           visible' \in {visible, {}}, selecting' \in BOOLEAN,
           listed' \subseteq Entries, rows' \subseteq Entries, selected' \subseteq Entries,
           UNCHANGED <<built, freed, confirm, scanning, disk>>
    PROVE  UiInv'
<1>1. Cardinality({}) = 0
      BY FS_EmptySet
<1>2. TypeOK'
      BY <1>1 DEF UiInv, DialogsConsistent, TypeOK, confirm, disk
<1> QED BY <1>2 DEF UiInv, DialogsConsistent, ProgressStays, DialogHasPaths, Running,
                    ShownIsBuilt, DialogNeedsBrowser, confirm, disk

LEMMA OpenBrowser ==
    ASSUME UiInv, open_file_browser
    PROVE  UiInv'
<1>1. PICK found \in {card, {}} : refresh_file_browser(found)
      BY DEF open_file_browser
<1>2. found \subseteq Entries
      BY <1>1 DEF UiInv, DialogsConsistent, TypeOK
<1>3. /\ listed' = found /\ rows' = found /\ selected' = {} /\ selecting' = FALSE
      /\ RowsHaveSelection'
      BY <1>1 DEF refresh_file_browser, RowsHaveSelection
<1>4. CASE Open("files", FileBrowserFields \cup {"modal_files_"})
  <2>1. WidgetTypes' /\ ShownIsBuilt' /\ built \subseteq built'
        BY <1>4, Parts, OpenTypes
  <2>2. OnlyKnownDangling'
        BY <1>4, Parts, OpenKnown DEF FileBrowserFields, build_file_browser
  <2>3. UNCHANGED <<confirm, scanning, disk>>
        BY DEF open_file_browser
  <2>4. TypeOK'
        BY <1>2, <1>3, <2>1, <2>3 DEF UiInv, DialogsConsistent, TypeOK, WidgetTypes,
                                      confirm, disk
  <2> QED BY <1>3, <2>1, <2>2, <2>3, <2>4
          DEF UiInv, DialogsConsistent, ProgressStays, DialogHasPaths, Running,
              DialogNeedsBrowser, confirm, disk
<1>5. CASE /\ Shown("files")
           /\ Touch(FileBrowserFields \cup {"modal_files_"}, {"fb_action_bar_"})
           /\ UNCHANGED widgets
  <2>1. OnlyKnownDangling'
        BY <1>5, Parts, TouchShown DEF FileBrowserFields, build_file_browser
  <2> QED BY <1>2, <1>3, <1>5, <2>1, RowsStep DEF open_file_browser, widgets
<1> QED BY <1>4, <1>5 DEF open_file_browser

LEMMA Selections ==
    ASSUME UiInv, NEW f,
           \/ ToggleRow(f) \/ enter_select_mode({f}) \/ enter_select_mode({})
           \/ on_fb_selall_btn \/ on_fb_cancel_btn \/ on_fb_close
    PROVE  UiInv'
<1> USE Parts
<1> DEFINE Bar == update_fb_selection \cup {"fb_action_bar_"}
<1>1. OnlyKnownDangling'
  <2>1. Shown("files") /\ (\/ Touch({}, update_fb_selection) \/ Touch({}, Bar)
                           \/ Touch({"modal_files_"}, Bar))
        BY DEF ToggleRow, enter_select_mode, on_fb_selall_btn, on_fb_cancel_btn,
               on_fb_close, exit_select_mode
  <2>2. Bar \cup {"modal_files_"} \subseteq Built["files"]
        BY DEF update_fb_selection, build_file_browser
  <2> QED BY <2>1, <2>2, TouchShown
<1>2. /\ rows \subseteq Entries /\ selected \subseteq rows /\ listed \subseteq Entries
      /\ (Shown("files") => listed = rows)
      BY DEF UiInv, DialogsConsistent, TypeOK, RowsHaveSelection
<1>3. /\ RowsHaveSelection' /\ visible' \in {visible, {}} /\ selecting' \in BOOLEAN
      /\ UNCHANGED <<listed, rows, built, freed, confirm, scanning, disk>>
  <2>1. CASE ToggleRow(f)
        BY <1>2, <2>1 DEF ToggleRow, RowsHaveSelection, Shown, widgets
  <2>2. CASE enter_select_mode({f}) \/ enter_select_mode({})
        BY <1>2, <2>2 DEF enter_select_mode, RowsHaveSelection, Shown, widgets
  <2>3. CASE on_fb_selall_btn
        BY <1>2, <2>3 DEF on_fb_selall_btn, RowsHaveSelection, Shown, widgets
  <2>4. CASE on_fb_cancel_btn \/ on_fb_close
        BY <1>2, <2>4 DEF on_fb_cancel_btn, on_fb_close, exit_select_mode,
                          RowsHaveSelection, Shown
  <2> QED BY <2>1, <2>2, <2>3, <2>4
<1>4. selected' \subseteq Entries
      BY <1>2, <1>3 DEF RowsHaveSelection
<1> QED BY <1>1, <1>2, <1>3, <1>4, RowsStep

-----------------------------------------------------------------------------
(* The delete dialog, its job and refresh().                               *)

\* A step of dialog, job and card that leaves the widgets alone.
LEMMA JobStep ==
    ASSUME UiInv, TypeOK', ProgressStays', DialogHasPaths', DialogNeedsBrowser',
           UNCHANGED <<widgets, browser, bad>>
    PROVE  UiInv'
BY DEF UiInv, DialogsConsistent, RowsHaveSelection, Shown, ShownIsBuilt,
       OnlyKnownDangling, widgets, browser

LEMMA ConfirmOpens ==
    ASSUME UiInv, NEW paths \in SUBSET Entries, open_delete_confirm(paths), Shown("files"),
           UNCHANGED <<widgets, browser, scanning, disk, bad>>
    PROVE  UiInv'
<1>1. "files" \in built
      BY DEF UiInv, ShownIsBuilt, Shown
<1>2. /\ dialog' \in {"none", "confirm"} /\ pending' \subseteq Entries
      /\ armed' \in BOOLEAN /\ (dialog' # "none" => pending' # {})
      BY DEF open_delete_confirm, confirm, UiInv, DialogsConsistent, TypeOK, DialogHasPaths
<1>3. TypeOK'
      BY <1>2 DEF UiInv, DialogsConsistent, TypeOK, widgets, browser, disk
<1> QED BY <1>1, <1>2, <1>3, JobStep
        DEF open_delete_confirm, ProgressStays, DialogHasPaths, DialogNeedsBrowser,
            Running, disk, widgets

LEMMA Confirms ==
    ASSUME UiInv, \/ on_fb_delete_btn \/ on_fb_confirm_switch \/ on_fb_confirm_cancel
                  \/ \E d \in Entries : on_fb_folder_btn(d)
    PROVE  UiInv'
<1>1. CASE on_fb_delete_btn
      BY <1>1, ConfirmOpens DEF on_fb_delete_btn, UiInv, DialogsConsistent, TypeOK
<1>2. ASSUME NEW d \in Entries, on_fb_folder_btn(d) PROVE UiInv'
      BY <1>2, ConfirmOpens DEF on_fb_folder_btn
<1>3. CASE on_fb_confirm_switch
  <2>1. TypeOK'
        BY <1>3 DEF on_fb_confirm_switch, UiInv, DialogsConsistent, TypeOK, widgets,
                    browser, disk
  <2> QED BY <1>3, <2>1, JobStep
          DEF on_fb_confirm_switch, UiInv, DialogsConsistent, ProgressStays,
              DialogHasPaths, DialogNeedsBrowser, Running, disk, widgets
<1>4. CASE on_fb_confirm_cancel
  <2>1. TypeOK'
        BY <1>4 DEF on_fb_confirm_cancel, NoDialog, UiInv, DialogsConsistent, TypeOK,
                    widgets, browser, disk
  <2> QED BY <1>4, <2>1, JobStep
          DEF on_fb_confirm_cancel, NoDialog, UiInv, DialogsConsistent, ProgressStays,
              DialogHasPaths, DialogNeedsBrowser, Running, disk, widgets
<1> QED BY <1>1, <1>2, <1>3, <1>4

LEMMA Deletes ==
    ASSUME UiInv, on_fb_confirm_del
    PROVE  UiInv'
<1>1. CASE StartJob("screen", pending) /\ dialog' = "progress" /\ armed' = FALSE
  <2>1. /\ job' = [state |-> "running", owner |-> "screen", paths |-> pending]
        /\ pending' = pending /\ dialog = "confirm"
        BY <1>1 DEF StartJob, on_fb_confirm_del
  <2>2. job' \in [state : {"idle", "running", "done", "failed"},
                  owner : {"none", "screen", "web"}, paths : SUBSET Entries]
        BY <2>1 DEF UiInv, DialogsConsistent, TypeOK
  <2>3. TypeOK'
        BY <1>1, <2>2 DEF on_fb_confirm_del, UiInv, DialogsConsistent, TypeOK, widgets,
                          browser
  <2> QED BY <1>1, <2>1, <2>3, JobStep
          DEF on_fb_confirm_del, UiInv, DialogsConsistent, ProgressStays,
              DialogHasPaths, DialogNeedsBrowser, Running, widgets
<1>2. CASE UNCHANGED <<job, dialog, armed>>
  <2>1. TypeOK'
        BY <1>2 DEF on_fb_confirm_del, UiInv, DialogsConsistent, TypeOK, widgets, browser
  <2> QED BY <1>2, <2>1, JobStep
          DEF on_fb_confirm_del, UiInv, DialogsConsistent, ProgressStays,
              DialogHasPaths, DialogNeedsBrowser, Running, widgets
<1> QED BY <1>1, <1>2 DEF on_fb_confirm_del

LEMMA CardSteps ==
    ASSUME UiInv, \/ \E p \in SUBSET Entries : WebDelete(p)
                  \/ delete_task \/ RawCollection
    PROVE  UiInv'
<1> USE DEF UiInv, DialogsConsistent
<1>1. ASSUME NEW p \in SUBSET Entries, WebDelete(p) PROVE UiInv'
  <2>1. /\ job' = [state |-> "running", owner |-> "web", paths |-> p]
        /\ UNCHANGED <<widgets, browser, confirm, scanning, card, active, bad>>
        /\ webJobs < MaxWebJobs /\ webJobs' = webJobs + 1
        BY <1>1 DEF WebDelete, StartJob
  <2>2. job' \in [state : {"idle", "running", "done", "failed"},
                  owner : {"none", "screen", "web"}, paths : SUBSET Entries]
        BY <2>1
  <2>3. webJobs' \in 0..MaxWebJobs
        BY <2>1, UiAssumption DEF TypeOK
  <2>4. TypeOK'
        BY <2>1, <2>2, <2>3 DEF TypeOK, widgets, browser, confirm
  <2> QED BY <2>1, <2>4, JobStep
          DEF ProgressStays, DialogHasPaths, DialogNeedsBrowser, Running, confirm, widgets
<1>2. CASE delete_task
  <2>1. PICK left \in SUBSET (job.paths \cap card) :
            /\ card' = (card \ job.paths) \cup left
            /\ job' = [job EXCEPT !.state = IF left = {} THEN "done" ELSE "failed"]
        BY <1>2 DEF delete_task
  <2>2. job' \in [state : {"idle", "running", "done", "failed"},
                  owner : {"none", "screen", "web"}, paths : SUBSET Entries]
        BY <2>1 DEF TypeOK
  <2>3. job'.state # "running"
        BY <2>1 DEF TypeOK
  <2>4. TypeOK'
        BY <1>2, <2>1, <2>2 DEF delete_task, TypeOK, widgets, browser, confirm
  <2> QED BY <1>2, <2>3, <2>4, JobStep
          DEF delete_task, ProgressStays, DialogHasPaths, DialogNeedsBrowser, Running,
              confirm, widgets
<1>3. CASE RawCollection
  <2>1. TypeOK'
        BY <1>3 DEF RawCollection, TypeOK, widgets, browser, confirm
  <2> QED BY <1>3, <2>1, JobStep
          DEF RawCollection, ProgressStays, DialogHasPaths, DialogNeedsBrowser, Running,
              confirm, widgets
<1> QED BY <1>1, <1>2, <1>3

LEMMA Refreshes ==
    ASSUME UiInv, refresh
    PROVE  UiInv'
<1> USE Parts
<1>1. "screen" \in built /\ (dialog = "progress" => "files" \in built)
      BY DEF UiInv, DialogsConsistent, TypeOK, DialogNeedsBrowser
<1>2. Shown("console") => "console" \in built
      BY DEF UiInv, ShownIsBuilt, Shown
<1>3. FileBrowserFields \subseteq Built["files"]
      BY DEF FileBrowserFields, build_file_browser
<1>4. \/ refresh_console_log = {}
      \/ Shown("console") /\ refresh_console_log \subseteq Built["console"]
      BY DEF refresh_console_log, build_console_modal
<1>5. OnlyKnownDangling'
  <2> DEFINE must == RefreshFields \cup (IF dialog = "progress" /\ JobDone
                                         THEN FileBrowserFields ELSE {})
             tested == RefreshTested \cup refresh_console_log
  <2>1. \A f \in must \cup tested : f \in Known \/ \E m \in built : f \in Built[m]
        BY <1>1, <1>2, <1>3, <1>4, RefreshScreen
  <2>2. Touch(must, tested)
        BY DEF refresh
  <2> QED BY <2>1, <2>2, TouchKnown DEF UiInv, DialogsConsistent
<1>6. CASE dialog = "progress" /\ JobDone
  <2>1. /\ dialog' = "none" /\ armed' = FALSE /\ pending' = {} /\ selecting' = FALSE
        /\ listed' = card /\ rows' = card /\ selected' = {}
        /\ UNCHANGED <<widgets, scanning, disk>>
        BY <1>6 DEF refresh, poll_delete_progress, NoDialog, refresh_file_browser
  <2>2. TypeOK'
        BY <2>1 DEF UiInv, DialogsConsistent, TypeOK, widgets, disk
  <2>3. ~Running'
        BY <1>6, <2>1 DEF JobDone, Running, disk
  <2> QED BY <1>5, <2>1, <2>2, <2>3
          DEF UiInv, DialogsConsistent, ProgressStays, DialogHasPaths,
              RowsHaveSelection, ShownIsBuilt, DialogNeedsBrowser, widgets
<1>7. CASE ~(dialog = "progress" /\ JobDone)
      BY <1>5, <1>7, HideStep DEF refresh, poll_delete_progress, widgets, UiInv,
                                  DialogsConsistent, TypeOK
<1> QED BY <1>6, <1>7

-----------------------------------------------------------------------------
(* Theorems.                                                               *)

LEMMA Keeps == UiInv /\ [Next]_vars => UiInv'
<1> SUFFICES ASSUME UiInv, [Next]_vars PROVE UiInv'
    OBVIOUS
<1>1. CASE UNCHANGED vars
      BY <1>1, HideStep DEF vars, widgets, UiInv, OnlyKnownDangling,
                            DialogsConsistent, TypeOK
<1>2. CASE Taps
  <2>1. ASSUME NEW m \in Modals, Close(m) PROVE UiInv'
        BY <2>1, Closes
  <2>2. ASSUME NEW f \in Entries, ToggleRow(f) \/ enter_select_mode({f}) PROVE UiInv'
        BY <2>2, Selections
  <2>3. CASE \/ enter_select_mode({}) \/ on_fb_selall_btn \/ on_fb_cancel_btn
             \/ on_fb_close
        BY <2>3, Selections
  <2> QED BY <1>2, <2>1, <2>2, <2>3, Opens, OpenBrowser, Saves, Scans, ThemeStep,
             Confirms, Deletes DEF Taps
<1>3. CASE Next /\ ~Taps
      BY <1>3, Refreshes, Scans, CardSteps DEF Next
<1> QED BY <1>1, <1>2, <1>3

LEMMA AlwaysUiInv == Spec => []UiInv
BY Start, Keeps, PTL DEF Spec

\* Whatever is tapped, re-themed, scanned and deleted, here and in the web
\* pages: rows, selection, dialog and delete job belong together, and the
\* progress view stays up while its job runs.
THEOREM DialogsStayConsistent == Spec => []DialogsConsistent
<1>1. UiInv => DialogsConsistent
      BY DEF UiInv
<1> QED BY <1>1, AlwaysUiInv, PTL

\* No handler, refresh() or worker task dereferences a null or dangling
\* pointer other than the two fields that apply_theme() forgets.
THEOREM TwoFieldsDangle == Spec => []OnlyKnownDangling
<1>1. UiInv => OnlyKnownDangling
      BY DEF UiInv
<1> QED BY <1>1, AlwaysUiInv, PTL

-----------------------------------------------------------------------------
(* Positions in the ring: remainders modulo Capacity.                      *)

LEMMA Rest ==
    ASSUME NEW a \in Int
    PROVE  /\ a % Capacity \in 0..Capacity - 1 /\ a \div Capacity \in Int
           /\ a = Capacity * (a \div Capacity) + (a % Capacity)
BY LogBufferAssumption

LEMMA RestIsUnique ==
    ASSUME NEW a \in Int, NEW q \in Int, NEW r \in 0..Capacity - 1, a = Capacity * q + r
    PROVE  a % Capacity = r
BY LogBufferAssumption

LEMMA Turns ==
    ASSUME NEW j \in Int, NEW k \in Int
    PROVE  /\ Capacity * (j + k) = Capacity * j + Capacity * k
           /\ Capacity * j \in Int
           /\ (j >= 1 => Capacity * j >= Capacity) /\ (j <= -1 => Capacity * j <= -Capacity)
BY LogBufferAssumption

\* Whole turns of the ring lead to the same position ...
LEMMA SamePosition ==
    ASSUME NEW a \in Int, NEW b \in Int, NEW k \in Int, a - b = Capacity * k
    PROVE  a % Capacity = b % Capacity
<1>1. a = Capacity * (b \div Capacity) + (b % Capacity) + Capacity * k
      BY Rest
<1>2. /\ Capacity * ((b \div Capacity) + k) = Capacity * (b \div Capacity) + Capacity * k
      /\ Capacity * (b \div Capacity) \in Int /\ Capacity * k \in Int
      BY Rest, Turns
<1>3. a = Capacity * ((b \div Capacity) + k) + (b % Capacity)
      BY <1>1, <1>2, Rest
<1> QED BY <1>3, Rest, RestIsUnique

\* ... and less than one turn does not.
LEMMA OtherPosition ==
    ASSUME NEW a \in Int, NEW b \in Int, 0 < a - b, a - b < Capacity
    PROVE  a % Capacity # b % Capacity
<1> SUFFICES ASSUME a % Capacity = b % Capacity PROVE FALSE
    OBVIOUS
<1> DEFINE k == (a \div Capacity) - (b \div Capacity)
<1>1. k \in Int /\ a \div Capacity = k + (b \div Capacity)
      BY Rest
<1> HIDE DEF k
<1>2. /\ Capacity * (a \div Capacity) = Capacity * k + Capacity * (b \div Capacity)
      /\ Capacity * k \in Int /\ Capacity * (b \div Capacity) \in Int
      BY <1>1, Rest, Turns
<1>3. a - b = Capacity * k
      BY <1>2, Rest
<1>4. CASE k = 0
      BY <1>3, <1>4, LogBufferAssumption
<1>5. CASE k >= 1 \/ k <= -1
      BY <1>1, <1>3, <1>5, Turns, LogBufferAssumption
<1> QED BY <1>1, <1>4, <1>5

-----------------------------------------------------------------------------
(* What the log holds after n bytes.                                       *)

Held(n) == IF n < Capacity THEN n ELSE Capacity

\* The last Held(n) bytes, each at the position of its number.
HoldsEnd(n, log) ==
    /\ log.head = n % Capacity /\ log.count = Held(n) /\ log.total = n
    /\ log.ring \in [0..Capacity - 1 -> Nat]
    /\ \A b \in 1..n : n - b < Capacity => log.ring[(b - 1) % Capacity] = b

LEMMA AppendHolds ==
    ASSUME NEW n \in Nat, NEW log, HoldsEnd(n, log)
    PROVE  HoldsEnd(n + 1, append(log, n + 1))
<1> DEFINE new == append(log, n + 1)
           here == n % Capacity
<1>1. here \in 0..Capacity - 1 /\ log.head = here
      BY Rest DEF HoldsEnd
<1>2. /\ new.ring = [log.ring EXCEPT ![here] = n + 1] /\ new.head = (here + 1) % Capacity
      /\ new.count = (IF Held(n) < Capacity THEN Held(n) + 1 ELSE Held(n))
      /\ new.total = n + 1
      BY DEF append, HoldsEnd
<1>3. PICK q \in Int : n = Capacity * q + here
      BY Rest
<1> HIDE DEF new, here
<1>4. new.head = (n + 1) % Capacity
  <2>1. here \in Int /\ Capacity * q \in Int
    <3>1. here \in Int
          BY <1>1, LogBufferAssumption
    <3>2. Capacity * q \in Int
          BY Turns
    <3> QED BY <3>1, <3>2
  <2>2. (n + 1) - (here + 1) = Capacity * q
        BY <1>3, <2>1
  <2>3. (n + 1) % Capacity = (here + 1) % Capacity
        BY <2>1, <2>2, SamePosition
  <2> QED BY <1>2, <2>3
<1>5. new.count = Held(n + 1)
      BY <1>2, LogBufferAssumption DEF Held
<1>6. new.ring \in [0..Capacity - 1 -> Nat]
      BY <1>1, <1>2 DEF HoldsEnd
<1>7. ASSUME NEW b \in 1..(n + 1), (n + 1) - b < Capacity
      PROVE  new.ring[(b - 1) % Capacity] = b
  <2>1. (b - 1) % Capacity \in 0..Capacity - 1 /\ b \in Int
        BY Rest
  <2>2. CASE b = n + 1
    <3>1. (b - 1) % Capacity = here
          BY <2>2 DEF here
    <3> QED BY <1>1, <1>2, <2>2, <3>1 DEF HoldsEnd
  <2>3. CASE b # n + 1
    <3>1. b \in 1..n /\ n - b < Capacity /\ 0 < n - (b - 1) /\ n - (b - 1) < Capacity
          BY <1>7, <2>3, LogBufferAssumption
    <3>2. n % Capacity # (b - 1) % Capacity
          BY <2>1, <3>1, OtherPosition
    <3> QED BY <1>1, <1>2, <2>1, <3>1, <3>2 DEF HoldsEnd, here
  <2> QED BY <2>2, <2>3
<1> QED BY <1>2, <1>4, <1>5, <1>6, <1>7 DEF HoldsEnd, new

-----------------------------------------------------------------------------
(* Logged is well-defined: by the least number for which it would not be.  *)

LEMMA Least ==
    ASSUME NEW T \in SUBSET Nat, T # {}
    PROVE  \E x \in T : \A y \in T : x <= y
<1> DEFINE R == OpToRel(<, Nat)
<1>1. R = {ss \in Nat \X Nat : ss[1] < ss[2]}
      BY DEF OpToRel
<1>2. IsWellFoundedOn(R, Nat)
      BY NatLessThanWellFounded
<1> HIDE DEF R
<1>3. PICK x \in T : \A y \in T : <<y, x>> \notin R
      BY <1>2, WFMin
<1>4. \A y \in T : ~(y < x)
      BY <1>1, <1>3
<1> QED BY <1>4

LEMMA LeastIs ==
    ASSUME NEW T \in SUBSET Nat, T # {}
    PROVE  LET least == CHOOSE x \in T : \A y \in T : x <= y
           IN  least \in T /\ \A y \in T : least <= y
<1>1. \E x \in T : \A y \in T : x <= y
      BY Least
<1> QED BY <1>1, Zenon

Runs(f, n) == f = [k \in 0..n |-> IF k = 0 THEN EmptyLog ELSE append(f[k - 1], k)]

LEMMA RunExists == \A n \in Nat : \E f : Runs(f, n)
<1> DEFINE T == {n \in Nat : ~\E f : Runs(f, n)}
<1> SUFFICES ASSUME T # {} PROVE FALSE
    OBVIOUS
<1>1. PICK n \in T : \A m \in T : n <= m
      BY Least
<1>2. CASE n = 0
  <2> DEFINE g == [k \in 0..0 |-> EmptyLog]
  <2>1. Runs(g, 0)
        BY DEF Runs
  <2> QED BY <1>2, <2>1
<1>3. CASE n # 0
  <2>1. n - 1 \in Nat /\ n - 1 \notin T
        BY <1>1, <1>3
  <2>2. PICK f : Runs(f, n - 1)
        BY <2>1
  <2> DEFINE g == [k \in 0..n |-> IF k < n THEN f[k] ELSE append(f[n - 1], n)]
  <2>3. ASSUME NEW k \in 0..n
        PROVE  g[k] = IF k = 0 THEN EmptyLog ELSE append(g[k - 1], k)
    <3>1. CASE k = n
      <4>1. n - 1 \in 0..n /\ g[n - 1] = f[n - 1] /\ g[n] = append(f[n - 1], n)
            BY <2>1
      <4> QED BY <1>3, <3>1, <4>1
    <3>2. CASE k < n
      <4>1. k \in 0..n - 1 /\ g[k] = f[k]
            BY <2>1, <3>2
      <4>2. f[k] = IF k = 0 THEN EmptyLog ELSE append(f[k - 1], k)
            BY <2>2, <4>1 DEF Runs
      <4>3. k # 0 => k - 1 \in 0..n /\ g[k - 1] = f[k - 1]
            BY <2>1, <3>2
      <4> HIDE DEF g
      <4> QED BY <4>1, <4>2, <4>3
    <3> QED BY <2>1, <3>1, <3>2
  <2>4. g = [k \in 0..n |-> g[k]]
        OBVIOUS
  <2> HIDE DEF g
  <2>5. Runs(g, n)
        BY <2>3, <2>4 DEF Runs
  <2> QED BY <2>5
<1> QED BY <1>2, <1>3

LEMMA LoggedRuns == Runs(Logged, MaxLogged)
<1>1. PICK f : Runs(f, MaxLogged)
      BY RunExists, LogBufferAssumption
<1> QED BY <1>1 DEF Logged, Runs

LEMMA LoggedHolds == \A n \in 0..MaxLogged : HoldsEnd(n, Logged[n])
<1> DEFINE T == {n \in 0..MaxLogged : ~HoldsEnd(n, Logged[n])}
<1> SUFFICES ASSUME T # {} PROVE FALSE
    OBVIOUS
<1>1. PICK n \in T : \A m \in T : n <= m
  <2>1. T \in SUBSET Nat
        BY LogBufferAssumption
  <2> HIDE DEF T
  <2> QED BY <2>1, Least
<1>2. Logged[n] = IF n = 0 THEN EmptyLog ELSE append(Logged[n - 1], n)
      BY LoggedRuns DEF Runs
<1>3. CASE n = 0
  <2>1. /\ EmptyLog.head = 0 /\ EmptyLog.count = 0 /\ EmptyLog.total = 0
        /\ EmptyLog.ring \in [0..Capacity - 1 -> Nat]
        BY DEF EmptyLog
  <2>2. 0 % Capacity = 0
        BY LogBufferAssumption
  <2>3. HoldsEnd(0, EmptyLog)
        BY <2>1, <2>2, LogBufferAssumption DEF HoldsEnd, Held
  <2> QED BY <1>2, <1>3, <2>3
<1>4. CASE n # 0
  <2>1. n - 1 \in 0..MaxLogged /\ n - 1 \in Nat /\ n - 1 \notin T /\ (n - 1) + 1 = n
        BY <1>1, <1>4, LogBufferAssumption
  <2>2. HoldsEnd((n - 1) + 1, append(Logged[n - 1], (n - 1) + 1))
        BY <2>1, AppendHolds
  <2> QED BY <1>2, <1>4, <2>1, <2>2
<1> QED BY <1>3, <1>4

-----------------------------------------------------------------------------
(* What a reader gets.                                                     *)

\* Where the answer to a reader at since starts, and the bytes from there on.
From(n, since) == IF since = 0 \/ since < n - Held(n) THEN n - Held(n) ELSE since
Bytes(s, n) == [i \in 1..n - s |-> s + i]

LEMMA FromRange ==
    ASSUME NEW n \in Nat, NEW since \in 0..n
    PROVE  /\ Held(n) \in 0..n /\ Held(n) <= Capacity /\ From(n, since) \in 0..n
           /\ n - From(n, since) <= Held(n)
BY LogBufferAssumption DEF Held, From

\* Byte s + i of the log is where snapshot_since() looks for it.
LEMMA Position ==
    ASSUME NEW n \in Nat, NEW log, HoldsEnd(n, log), NEW s \in n - Held(n)..n, NEW i \in 1..n - s
    PROVE  LET first == IF log.count = Capacity THEN log.head ELSE 0
           IN  log.ring[(first + s - (log.total - log.count) + i - 1) % Capacity] = s + i
<1> DEFINE first == IF log.count = Capacity THEN log.head ELSE 0
           at == first + s - (log.total - log.count) + i - 1
<1>1. /\ log.count = Held(n) /\ log.total = n /\ log.head = n % Capacity
      /\ \A b \in 1..n : n - b < Capacity => log.ring[(b - 1) % Capacity] = b
      BY DEF HoldsEnd
<1>2. s \in 0..n /\ i \in 1..n /\ s + i \in 1..n /\ n - (s + i) < Capacity
      BY LogBufferAssumption DEF Held
<1>3. at % Capacity = (s + i - 1) % Capacity
  <2>1. CASE n < Capacity
    <3>1. log.count = n /\ log.count # Capacity
          BY <1>1, <2>1 DEF Held
    <3>2. at = s + i - 1
          BY <1>1, <1>2, <3>1
    <3> QED BY <3>2
  <2>2. CASE n >= Capacity
    <3>1. PICK q \in Int : n = Capacity * q + (n % Capacity)
          BY Rest
    <3>2. n % Capacity \in Int /\ Capacity * q \in Int /\ Capacity \in Int
          BY <3>1, Rest, Turns, LogBufferAssumption
    <3>3. log.count = Capacity /\ first = n % Capacity
          BY <1>1, <2>2, LogBufferAssumption DEF Held
    <3>4. at = (n % Capacity) + s - (n - Capacity) + i - 1
          BY <1>1, <3>3
    <3>5. Capacity * (1 + (-q)) = Capacity - Capacity * q /\ 1 + (-q) \in Int
          BY <3>1, LogBufferAssumption
    <3> HIDE DEF at, first
    <3>6. at \in Int /\ s + i - 1 \in Int /\ s \in Int /\ i \in Int
          BY <1>2, <3>2, <3>4
    <3>7. at - (s + i - 1) = (n % Capacity) - n + Capacity
          BY <3>2, <3>4, <3>6
    <3>8. at - (s + i - 1) = Capacity * (1 + (-q))
          BY <3>1, <3>2, <3>5, <3>7
    <3> QED BY <3>5, <3>6, <3>8, SamePosition
  <2> QED BY <2>1, <2>2, LogBufferAssumption
<1>4. log.ring[((s + i) - 1) % Capacity] = s + i
      BY <1>1, <1>2
<1> QED BY <1>3, <1>4

\* The answer to a reader who is not ahead of the log.
LEMMA Answer ==
    ASSUME NEW n \in 0..MaxLogged, NEW since \in 0..n
    PROVE  LET a == snapshot_since(Logged[n], since)
           IN  /\ a.next = n
               /\ a.truncated <=> since # 0 /\ since < n - Held(n)
               /\ a.text = Bytes(From(n, since), n)
<1> DEFINE log == Logged[n]
           s == From(n, since)
           first == IF log.count = Capacity THEN log.head ELSE 0
           a == snapshot_since(log, since)
<1>1. n \in Nat /\ HoldsEnd(n, log)
      BY LoggedHolds, LogBufferAssumption
<1>2. /\ log.count = Held(n) /\ log.total = n
      BY <1>1 DEF HoldsEnd
<1>3. /\ Held(n) \in 0..n /\ s \in n - Held(n)..n
      /\ (Held(n) = 0 => n = 0)
      BY <1>1, FromRange, LogBufferAssumption DEF Held, From
<1>4. a.next = n /\ (a.truncated <=> since # 0 /\ since < n - Held(n))
  <2>1. a.next = log.total
        BY DEF snapshot_since
  <2>2. a.truncated <=> /\ log.count # 0 /\ since # log.total
                        /\ since # 0 /\ since < log.total - log.count
        BY DEF snapshot_since
  <2>3. since < n - Held(n) => Held(n) # 0 /\ since # n
        BY <1>1, <1>3
  <2> QED BY <1>2, <2>1, <2>2, <2>3
<1>5. CASE Held(n) # 0 /\ since # n
  <2>1. a.text = [i \in 1..n - s |->
                    log.ring[(first + s - (log.total - log.count) + i - 1) % Capacity]]
        BY <1>1, <1>2, <1>3, <1>5 DEF snapshot_since, From
  <2> HIDE DEF a, s, log
  <2>2. \A i \in 1..n - s :
            log.ring[(first + s - (log.total - log.count) + i - 1) % Capacity] = s + i
        BY <1>1, <1>3, Position
  <2>3. a.text = Bytes(s, n)
        BY <2>1, <2>2 DEF Bytes
  <2> QED BY <1>4, <2>3 DEF a, s, log
<1>6. CASE Held(n) = 0 \/ since = n
  <2>1. a.text = <<>>
        BY <1>2, <1>6 DEF snapshot_since
  <2>2. s = n
        BY <1>1, <1>3, <1>6 DEF From
  <2>3. Bytes(s, n) = <<>>
        BY <1>1, <2>2 DEF Bytes
  <2> QED BY <1>4, <2>1, <2>3
<1> QED BY <1>5, <1>6

LEMMA RecentIs == \A n \in Nat : Recent(n) = Bytes(n - Held(n), n)
<1> SUFFICES ASSUME NEW n \in Nat PROVE Recent(n) = Bytes(n - Held(n), n)
    OBVIOUS
<1>1. Held(n) \in Nat /\ n - (n - Held(n)) = Held(n)
      BY LogBufferAssumption DEF Held
<1>2. Recent(n) = [i \in 1..Held(n) |-> n - Held(n) + i]
      BY DEF Recent, Held
<1> QED BY <1>1, <1>2 DEF Bytes

LEMMA BytesAre ==
    ASSUME NEW n \in Nat, NEW s \in 0..n
    PROVE  /\ Bytes(s, n) \in Seq(Nat) /\ Len(Bytes(s, n)) = n - s
           /\ \A i \in 1..(n - s) : Bytes(s, n)[i] = s + i
<1>1. n - s \in Nat /\ \A i \in 1..(n - s) : s + i \in Nat
      OBVIOUS
<1>2. Bytes(s, n) \in [1..(n - s) -> Nat]
      BY <1>1 DEF Bytes
<1> QED BY <1>1, <1>2 DEF Bytes

\* Where the console's text begins.
LEMMA TailIs ==
    ASSUME NEW text \in Seq(Nat), NEW newlines
    PROVE  LET start == ConsoleStart(text, newlines) IN
           /\ start \in 0..Len(text) /\ Len(text) - start <= ConsoleTail
           /\ start > 0 =>
                 \/ text[start] \in newlines
                    /\ \A i \in Len(text) - ConsoleTail + 1..start - 1 : text[i] \notin newlines
                 \/ start = Len(text) - ConsoleTail
                    /\ \A i \in start + 1..Len(text) : text[i] \notin newlines
<1> DEFINE len   == Len(text)
           cut   == len - ConsoleTail
           ends  == {i \in cut + 1..len : text[i] \in newlines}
           start == ConsoleStart(text, newlines)
           least == CHOOSE i \in ends : \A j \in ends : i <= j
<1>1. len \in Nat /\ ConsoleTail \in Nat /\ cut \in Int
      BY LogBufferAssumption
<1>2. start = IF cut <= 0 THEN 0 ELSE IF ends = {} THEN cut ELSE least
      BY DEF ConsoleStart
<1>3. CASE cut <= 0
      BY <1>1, <1>2, <1>3
<1>4. CASE cut > 0 /\ ends = {}
  <2>1. \A i \in cut + 1..len : text[i] \notin newlines
        BY <1>4
  <2> HIDE DEF ends
  <2> QED BY <1>1, <1>2, <1>4, <2>1
<1>5. CASE cut > 0 /\ ends # {}
  <2>1. ends \in SUBSET Nat
        BY <1>1, <1>5
  <2>2. least \in ends /\ \A j \in ends : least <= j
        BY <1>5, <2>1, LeastIs
  <2>3. start = least
    <3> HIDE DEF start, least, ends, cut
    <3> QED BY <1>1, <1>2, <1>5
  <2>4. start \in cut + 1..len /\ text[start] \in newlines
        BY <2>2, <2>3
  <2>5. ASSUME NEW i \in cut + 1..start - 1 PROVE text[i] \notin newlines
    <3>1. i \in cut + 1..len /\ ~(start <= i)
          BY <1>1, <2>4, <2>5
    <3> QED BY <2>2, <2>3, <3>1
  <2> HIDE DEF ends, least, start, cut, len
  <2>6. /\ start \in 0..len /\ len - start <= ConsoleTail
        BY <1>1, <1>5, <2>4 DEF cut
  <2> QED BY <1>1, <2>4, <2>5, <2>6 DEF start, cut, len
<1> QED BY <1>1, <1>3, <1>4, <1>5

LEMMA ConsoleTails == ConsoleIsTail
<1> SUFFICES ASSUME NEW n \in 0..MaxLogged, NEW newlines \in SUBSET (1..MaxLogged)
             PROVE  LET text  == snapshot_since(Logged[n], 0).text
                        start == Len(text) - Len(console_log(text, newlines)) IN
                    /\ text = Recent(n)
                    /\ start \in 0..Len(text) /\ Len(text) - start <= ConsoleTail
                    /\ console_log(text, newlines) = SubSeq(text, start + 1, Len(text))
                    /\ start > 0 =>
                          \/ text[start] \in newlines
                             /\ \A i \in Len(text) - ConsoleTail + 1..start - 1 :
                                   text[i] \notin newlines
                          \/ start = Len(text) - ConsoleTail
                             /\ \A i \in start + 1..Len(text) : text[i] \notin newlines
    BY DEF ConsoleIsTail
<1> DEFINE text  == snapshot_since(Logged[n], 0).text
           from  == ConsoleStart(text, newlines)
           shown == console_log(text, newlines)
<1>1. n \in Nat /\ 0 \in 0..n /\ n - Held(n) \in 0..n
      BY LogBufferAssumption DEF Held
<1>2. text = Bytes(n - Held(n), n) /\ text = Recent(n)
      BY <1>1, Answer, RecentIs DEF From
<1>3. text \in Seq(Nat)
      BY <1>1, <1>2, BytesAre
<1> HIDE DEF text
<1>4. /\ from \in 0..Len(text) /\ Len(text) - from <= ConsoleTail
      /\ from > 0 =>
            \/ text[from] \in newlines
               /\ \A i \in Len(text) - ConsoleTail + 1..from - 1 : text[i] \notin newlines
            \/ from = Len(text) - ConsoleTail
               /\ \A i \in from + 1..Len(text) : text[i] \notin newlines
      BY <1>3, TailIs
<1>5. shown = SubSeq(text, from + 1, Len(text))
      BY DEF console_log
<1> HIDE DEF from, shown
<1>6. Len(text) - Len(shown) = from
      BY <1>3, <1>4, <1>5
<1> QED BY <1>2, <1>4, <1>5, <1>6 DEF text, shown

LEMMA JoinIs ==
    ASSUME NEW x \in Seq(Nat), NEW y \in Seq(Nat)
    PROVE  /\ x \o y \in Seq(Nat) /\ Len(x \o y) = Len(x) + Len(y)
           /\ \A i \in 1..Len(x \o y) : (x \o y)[i] = IF i <= Len(x) THEN x[i] ELSE y[i - Len(x)]
OBVIOUS

\* Appending what followed byte m to the end of the log as of m, and keeping
\* the end of that, gives the end of the log as of n.
LEMMA KeptIsEnd ==
    ASSUME NEW n \in Nat, NEW m \in 1..n, m >= n - Held(n)
    PROVE  Kept(Bytes(m - Held(m), m) \o Bytes(m, n)) = Bytes(n - Held(n), n)
<1> DEFINE old == m - Held(m)
           all == Bytes(old, m) \o Bytes(m, n)
           len == n - old
<1>1. /\ m \in Nat /\ Held(m) \in 0..m /\ Held(n) \in 0..n /\ old \in 0..m
      /\ Capacity \in Nat \ {0} /\ len \in Nat
      BY LogBufferAssumption DEF Held
<1>2. /\ len > Capacity => n - Held(n) = n - Capacity /\ n - Capacity > old
      /\ len <= Capacity => n - Held(n) = old
      BY <1>1 DEF Held
<1>3. all = [i \in 1..len |-> old + i] /\ Len(all) = len /\ all \in Seq(Nat)
  <2>1. /\ Bytes(old, m) \in Seq(Nat) /\ Len(Bytes(old, m)) = m - old
        /\ \A i \in 1..(m - old) : Bytes(old, m)[i] = old + i
        BY <1>1, BytesAre
  <2>2. /\ Bytes(m, n) \in Seq(Nat) /\ Len(Bytes(m, n)) = n - m
        /\ \A i \in 1..(n - m) : Bytes(m, n)[i] = m + i
        BY <1>1, BytesAre
  <2> DEFINE x == Bytes(old, m)
             y == Bytes(m, n)
  <2> HIDE DEF x, y
  <2>3. x \in Seq(Nat) /\ y \in Seq(Nat) /\ all = x \o y
        BY <2>1, <2>2 DEF x, y
  <2>4. len = (m - old) + (n - m) /\ m \in Int /\ n \in Int /\ old \in Int
        BY <1>1
  <2> HIDE DEF all, old, len
  <2>5. all \in Seq(Nat) /\ Len(all) = len
        BY <2>1, <2>2, <2>3, <2>4, JoinIs DEF x, y
  <2>6. ASSUME NEW i \in 1..len PROVE all[i] = old + i
    <3>1. all[i] = IF i <= m - old THEN x[i] ELSE y[i - (m - old)]
          BY <2>1, <2>3, <2>5, JoinIs DEF x
    <3>2. CASE i <= m - old
          BY <2>1, <2>4, <3>1, <3>2 DEF x
    <3>3. CASE i > m - old
      <4>1. i - (m - old) \in 1..(n - m) /\ m + (i - (m - old)) = old + i
            BY <1>1, <2>4, <3>3
      <4> QED BY <2>2, <2>4, <3>1, <3>3, <4>1 DEF y
    <3> QED BY <2>4, <3>2, <3>3
  <2>7. all = [i \in 1..Len(all) |-> all[i]]
        BY <2>5
  <2> QED BY <2>5, <2>6, <2>7
<1> HIDE DEF all, len
<1>4. CASE len <= Capacity
  <2>1. Kept(all) = all
        BY <1>1, <1>3, <1>4 DEF Kept
  <2> QED BY <1>2, <1>3, <1>4, <2>1 DEF Bytes, all, len
<1>5. CASE len > Capacity
  <2>1. Kept(all) = SubSeq(all, len - Capacity + 1, len)
        BY <1>1, <1>3, <1>5 DEF Kept
  <2>2. SubSeq(all, len - Capacity + 1, len)
          = [i \in 1..Capacity |-> all[len - Capacity + i]]
        BY <1>1, <1>3, <1>5
  <2>3. ASSUME NEW i \in 1..Capacity PROVE all[len - Capacity + i] = n - Capacity + i
    <3>1. len - Capacity + i \in 1..len
          BY <1>1, <1>5
    <3>2. all[len - Capacity + i] = old + (len - Capacity + i)
          BY <1>3, <3>1
    <3> QED BY <1>1, <3>2 DEF len
  <2>4. Bytes(n - Capacity, n) = [i \in 1..Capacity |-> n - Capacity + i]
    <3>1. n - (n - Capacity) = Capacity
          BY <1>1
    <3> QED BY <3>1 DEF Bytes
  <2> QED BY <1>2, <1>5, <2>1, <2>2, <2>3, <2>4 DEF all
<1> QED BY <1>1, <1>4, <1>5

\* A page whose text is the end of the log as of its cursor, and one load later.
Follows(page, m) == page.cursor = m /\ page.shown = Bytes(m - Held(m), m)

LEMMA LoadFollows ==
    ASSUME NEW n \in 0..MaxLogged, NEW m \in 0..n, NEW page, Follows(page, m),
           NEW full \in BOOLEAN
    PROVE  Follows(Followed(page, full, n), n)
<1> DEFINE c == IF full THEN 0 ELSE m
           a == snapshot_since(Logged[n], c)
           next == Followed(page, full, n)
<1>1. n \in Nat /\ Held(n) \in 0..n /\ c \in 0..n
      BY LogBufferAssumption DEF Held
<1>2. /\ a.next = n /\ (a.truncated <=> c # 0 /\ c < n - Held(n))
      /\ a.text = Bytes(From(n, c), n)
      BY <1>1, Answer
<1>3. /\ next.shown = (IF full \/ m = 0 \/ a.truncated THEN a.text
                       ELSE Kept(page.shown \o a.text))
      /\ next.cursor = (IF a.next # 0 THEN a.next ELSE m)
      BY DEF Followed, load, logs_data_handler, Follows
<1> HIDE DEF a, next
<1>4. next.cursor = n
      BY <1>1, <1>2, <1>3
<1>5. CASE full \/ m = 0 \/ m < n - Held(n)
  <2>1. full \/ m = 0 \/ a.truncated
        BY <1>2, <1>5
  <2> QED BY <1>2, <1>3, <1>4, <1>5, <2>1 DEF Follows, From, next
<1>6. CASE ~full /\ m # 0 /\ m >= n - Held(n)
  <2>1. m \in 1..n /\ c = m /\ From(n, c) = m /\ ~(full \/ m = 0 \/ a.truncated)
        BY <1>1, <1>2, <1>6 DEF From
  <2>2. next.shown = Kept(Bytes(m - Held(m), m) \o Bytes(m, n))
        BY <1>2, <1>3, <2>1 DEF Follows
  <2> QED BY <1>1, <1>4, <1>6, <2>1, <2>2, KeptIsEnd DEF Follows, next
<1> QED BY <1>1, <1>5, <1>6

LEMMA PageFollows == PageFollowsLog
<1> SUFFICES ASSUME NEW m \in 0..MaxLogged, NEW full \in BOOLEAN, NEW n \in m..MaxLogged
             PROVE  Followed(Followed(NewPage, TRUE, m), full, n).shown = Recent(n)
    BY DEF PageFollowsLog
<1>1. n \in 0..MaxLogged /\ n \in Nat /\ m \in 0..n /\ 0 \in 0..m
      BY LogBufferAssumption
<1>2. Follows(NewPage, 0)
  <2>1. Held(0) = 0
        BY LogBufferAssumption DEF Held
  <2>2. Bytes(0, 0) = <<>>
        BY DEF Bytes
  <2> QED BY <2>1, <2>2 DEF Follows, NewPage
<1>3. Follows(Followed(NewPage, TRUE, m), m)
      BY <1>1, <1>2, LoadFollows
<1>4. Follows(Followed(Followed(NewPage, TRUE, m), full, n), n)
      BY <1>1, <1>3, LoadFollows
<1> QED BY <1>1, <1>4, RecentIs DEF Follows

\* However large the ring and however much is logged between two reads, the
\* log page shows the end of the log with nothing missing in it and nothing
\* twice, refreshed by hand or by its timer; the console shows the end of the
\* same text, cut to its size behind the first newline that leaves it room.
THEOREM LogStaysShown == Spec => []LogIsShown
<1>1. LogIsShown
      BY ConsoleTails, PageFollows DEF LogIsShown
<1> QED BY <1>1, PTL
=============================================================================
