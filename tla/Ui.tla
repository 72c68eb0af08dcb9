---------------------------------- MODULE Ui ----------------------------------
(***************************************************************************)
(* The touch screen (main/ui.cpp): which widgets the Ui object's pointers  *)
(* refer to while modals are built on demand, the day/night theme tears    *)
(* everything down, the 1 s refresh() and worker tasks write to widgets,   *)
(* and the delete dialog runs its course beside                            *)
(* the web server, which shares the delete job.                            *)
(*                                                                         *)
(* A widget pointer is known by the field of class Ui that holds it.  The  *)
(* text, layout and style of the widgets are left out.  Handlers run on    *)
(* the LVGL task, one at a time; worker tasks take the display lock.       *)
(***************************************************************************)
EXTENDS Integers, FiniteSets, LogBuffer

CONSTANTS
    Entries,      \* what the card's directory holds
    Dirs,         \* those of them that are directories
    MaxModals,    \* bound: modals opened since the start
    MaxWebJobs    \* bound: delete jobs the web server starts

ASSUME UiAssumption ==
    Dirs \subseteq Entries /\ {MaxModals, MaxWebJobs} \subseteq Nat

-----------------------------------------------------------------------------
(* The fields each build_ function assigns.                                *)

build_header ==
    {"header_title_", "header_pill_", "header_pill_dot_", "header_pill_lbl_",
     "header_theme_btn_"}
build_dashboard_tab ==
    {"lbl_hero_val_", "lbl_hero_unit_", "lbl_hero_cap_", "lbl_hero_sub_",
     "lbl_t_mode_", "lbl_t_sats_", "lbl_t_sats_sub_", "lbl_t_pos_",
     "lbl_t_pos_sub_", "lbl_t_link_", "lbl_t_link_sub_", "lbl_t_sd_",
     "lbl_t_sd_sub_", "btn_survey_start_", "lbl_survey_btn_"}
build_ntrip_lights_tile == {"t_ntrip_dot_", "t_ntrip_recon_", "t_ntrip_clients_"}
build_position_tab ==
    {"survey_group_", "arc_sv_time_", "arc_sv_blocks_", "arc_sv_stab_",
     "lbl_sv_time_", "lbl_sv_blocks_", "lbl_sv_stab_", "lbl_sv_samples_",
     "lbl_sv_sigma_", "lbl_sv_used_", "lbl_sv_gps_", "lbl_sv_glo_", "lbl_sv_gal_",
     "lbl_sv_bds_", "lbl_sv_detail_", "lbl_p_lat_", "lbl_p_lon_", "lbl_p_alt_",
     "lbl_p_ant_", "lbl_sky_count_", "sky_plot_", "sky_dots_"}
build_links_tab ==
    {"sw_ntrip_all_", "lbl_d_local_ntrip_", "lbl_d_local_ntrip_ips_"}
ntrip_detail_group ==
    {"lbl_d_rtk2go_", "lbl_d_rtk2go_bytes_", "lbl_d_rtk2go_drop_",
     "lbl_d_rtk2go_recon_", "lbl_d_onocoy_", "lbl_d_onocoy_bytes_",
     "lbl_d_onocoy_drop_", "lbl_d_onocoy_recon_", "lbl_d_rtkdata_",
     "lbl_d_rtkdata_bytes_", "lbl_d_rtkdata_drop_", "lbl_d_rtkdata_recon_"}
build_storage_tab ==
    {"lbl_sd_", "arc_disk_", "lbl_disk_pct_", "sw_rinex_", "lbl_rinex_file_",
     "lbl_s_ant_"}
build_system_tab ==
    {"lbl_wifi_state_", "lbl_ip_", "lbl_ap_name_", "lbl_ap_ip_", "lbl_fw_",
     "lbl_compile_", "lbl_c6_running_", "lbl_c6_fw_", "btn_c6_ota_", "lbl_admin_",
     "lbl_uptime_", "lbl_reset_", "lbl_heap_", "arc_heap_", "lbl_heap_pct_"}
build_screens ==
    {"tabview_", "tab_dash_", "tab_pos_", "tab_links_", "tab_storage_", "tab_sys_"}
        \cup build_header \cup build_dashboard_tab \cup build_ntrip_lights_tile
        \cup build_position_tab \cup build_links_tab \cup ntrip_detail_group
        \cup build_storage_tab \cup build_system_tab
build_wifi_modal ==
    {"modal_wifi_", "kb_wifi_", "ta_wifi_ssid_", "ta_wifi_pass_", "lbl_wifi_msg_",
     "list_wifi_scan_", "btn_wifi_scan_", "ta_ap_pass_", "lbl_ap_msg_"}
build_admin_modal == {"modal_admin_", "kb_admin_", "ta_admin_pass_", "lbl_admin_msg_"}
build_console_modal == {"modal_console_", "console_scroll_", "lbl_console_"}
build_ntrip_modal ==
    {"modal_ntrip_", "lbl_ntrip_title_", "sw_ntrip_en_", "ta_ntrip_mp_",
     "ta_ntrip_pw_", "kb_ntrip_"}
build_file_browser ==
    {"modal_files_", "lbl_fb_path_", "btn_fb_select_", "list_fb_", "fb_action_bar_",
     "lbl_fb_count_", "btn_fb_delete_", "lbl_fb_delete_"}
build_position_setup ==
    {"modal_pos_setup_", "kb_pos_setup_", "ta_ps_lat_", "ta_ps_lon_",
     "ta_ps_height_", "lbl_ps_pos_msg_", "lbl_ps_rinex_", "sw_ps_rinex_",
     "ta_ps_ant_model_", "ta_ps_ant_radome_", "ta_ps_ant_height_",
     "lbl_ps_ant_msg_"}

\* The fields of each modal, and of the screen.
Built ==
    [screen |-> build_screens, wifi |-> build_wifi_modal,
     admin |-> build_admin_modal, console |-> build_console_modal,
     ntrip |-> build_ntrip_modal, files |-> build_file_browser,
     setup |-> build_position_setup]
Modals == DOMAIN Built \ {"screen"}

\* The fields apply_theme() resets, besides those of the delete dialog.
Nulled ==
    {"modal_wifi_", "modal_admin_", "modal_ntrip_", "modal_files_",
     "modal_pos_setup_", "kb_pos_setup_", "modal_console_", "console_scroll_",
     "lbl_console_"}

-----------------------------------------------------------------------------

VARIABLES
    built,       \* modals (and "screen") whose widgets exist
    freed,       \* modals whose widgets were deleted and not built again
    visible,     \* the modal on display, as a set
    listed,      \* fb_entries_, the rows of the file browser
    rows,        \* the index range of fb_selected_
    selected,    \* the rows with fb_selected_ set
    selecting,   \* fb_select_mode_
    dialog,      \* fb_confirm_mbox_ / fb_delete_in_progress_:
                 \* "none", "confirm" or "progress"
    armed,       \* is the dialog's Delete button enabled
    pending,     \* fb_pending_
    scanning,    \* scan_running_: "no", "task", or "stuck" without a task
    job,         \* sd_delete: state, who started it, its paths
    card,        \* what the card's directory holds
    active,      \* rinex_status(): the entry being written, as a set
    webJobs,     \* how many jobs the web server has started
    bad          \* history: fields dereferenced while null or dangling

widgets == <<built, freed, visible>>
browser == <<listed, rows, selected, selecting>>
confirm == <<dialog, armed, pending>>
disk    == <<job, card, active, webJobs>>
vars    == <<widgets, browser, confirm, scanning, disk, bad>>

IsNull(f) ==
    \A m \in built \cup freed : f \notin Built[m] \/ (m \in freed /\ f \in Nulled)
Dangles(f) == f \notin Nulled /\ \E m \in freed : f \in Built[m]

\* Dereferencing the fields in must, and those in tested that are not null.
Misses(must, tested) ==
    {f \in must : IsNull(f)} \cup {f \in must \cup tested : Dangles(f)}
Touch(must, tested) == bad' = bad \cup Misses(must, tested)

BareScreen == visible = {}
Shown(m) == m \in visible

Running == job.state = "running"

-----------------------------------------------------------------------------
(* init() builds the screen; modals are built on first use.                *)

Init ==
    /\ built = {"screen"} /\ freed = {} /\ visible = {}
    /\ listed = {} /\ rows = {} /\ selected = {} /\ selecting = FALSE
    /\ dialog = "none" /\ armed = FALSE /\ pending = {}
    /\ scanning = "no"
    /\ job = [state |-> "idle", owner |-> "none", paths |-> {}]
    /\ card = Entries /\ active = {} /\ webJobs = 0
    /\ bad = {}

\* make_modal_base() and the modal's build_ function, unless its root is set.
BuildModal(m) == built' = built \cup {m} /\ freed' = freed \ {m}

\* An open_ function: build, fill the fields in must, show.  Full-screen
\* modals cover the buttons that open them.
Open(m, must) ==
    /\ BareScreen
    /\ BuildModal(m)
    /\ Cardinality((built \cup freed \cup {m}) \ {"screen"}) <= MaxModals
    /\ visible' = {m}
    /\ bad' = bad \cup {f \in must : f \notin Built[m]}

open_wifi_modal ==
    /\ Open("wifi", {"ta_wifi_ssid_", "ta_wifi_pass_", "lbl_wifi_msg_", "ta_ap_pass_",
                     "lbl_ap_msg_", "modal_wifi_"})
    /\ UNCHANGED <<browser, confirm, scanning, disk>>

open_admin_modal ==
    /\ Open("admin", {"ta_admin_pass_", "lbl_admin_msg_", "kb_admin_", "modal_admin_"})
    /\ UNCHANGED <<browser, confirm, scanning, disk>>

open_console_modal ==
    /\ Open("console", {"modal_console_"})
    /\ UNCHANGED <<browser, confirm, scanning, disk>>

open_ntrip_modal ==
    /\ Open("ntrip", {"lbl_ntrip_title_", "sw_ntrip_en_", "ta_ntrip_mp_",
                      "ta_ntrip_pw_", "kb_ntrip_", "modal_ntrip_"})
    /\ UNCHANGED <<browser, confirm, scanning, disk>>

open_position_setup ==
    /\ Open("setup", {"ta_ps_lat_", "ta_ps_lon_", "ta_ps_height_", "lbl_ps_pos_msg_",
                      "sw_ps_rinex_", "ta_ps_ant_model_", "ta_ps_ant_radome_",
                      "ta_ps_ant_height_", "lbl_ps_ant_msg_", "kb_pos_setup_",
                      "modal_pos_setup_"})
    /\ UNCHANGED <<browser, confirm, scanning, disk>>

\* The close buttons; save_ntrip_config() and on_wifi_connect() also hide.
Close(m) ==
    /\ Shown(m)
    /\ m # "files"
    /\ visible' = {}
    /\ Touch({}, {"modal_wifi_", "kb_wifi_", "modal_admin_", "kb_admin_",
                  "modal_console_", "modal_ntrip_", "kb_ntrip_",
                  "modal_pos_setup_", "kb_pos_setup_"} \cap Built[m])
    /\ UNCHANGED <<built, freed, browser, confirm, scanning, disk>>

\* The Save buttons write to fields of their own modal and to Storage.
on_admin_save ==
    /\ Shown("admin")
    /\ Touch({"ta_admin_pass_", "lbl_admin_msg_", "kb_admin_"}, {})
    /\ UNCHANGED <<widgets, browser, confirm, scanning, disk>>

on_ps_pos_save ==
    /\ Shown("setup")
    /\ Touch({"ta_ps_lat_", "ta_ps_lon_", "ta_ps_height_", "lbl_ps_pos_msg_",
              "kb_pos_setup_"}, {})
    /\ UNCHANGED <<widgets, browser, confirm, scanning, disk>>

on_ps_ant_save ==
    /\ Shown("setup")
    /\ Touch({"ta_ps_ant_model_", "ta_ps_ant_radome_", "ta_ps_ant_height_",
              "lbl_ps_ant_msg_", "kb_pos_setup_"}, {})
    /\ UNCHANGED <<widgets, browser, confirm, scanning, disk>>

save_ntrip_config ==
    /\ Shown("ntrip")
    /\ visible' = {}
    /\ Touch({"sw_ntrip_en_", "ta_ntrip_mp_", "ta_ntrip_pw_", "modal_ntrip_",
              "kb_ntrip_"}, {})
    /\ UNCHANGED <<built, freed, browser, confirm, scanning, disk>>

-----------------------------------------------------------------------------
(* apply_theme().                                                          *)

\* Mutants of apply_theme: a running job does not stop it; the progress view is
\* deleted without fb_delete_in_progress_ being reset.
apply_theme_DuringJob ==
    /\ BareScreen
    /\ built' = {"screen"} /\ freed' = freed \cup (built \ {"screen"})
    /\ dialog' = "none" /\ armed' = FALSE /\ pending' = {}
    /\ selecting' = FALSE /\ rows' = {} /\ selected' = {}
    /\ UNCHANGED <<visible, listed, scanning, disk, bad>>

apply_theme_KeepsProgress ==
    /\ BareScreen /\ ~Running
    /\ built' = {"screen"} /\ freed' = freed \cup (built \ {"screen"})
    /\ dialog' = (IF dialog = "progress" THEN dialog ELSE "none")
    /\ selecting' = FALSE /\ rows' = {} /\ selected' = {}
    /\ UNCHANGED <<visible, listed, armed, pending, scanning, disk, bad>>

\* Everything on the screen and the top layer is deleted and the screen is
\* built again, except while a delete job runs.
apply_theme ==
    /\ BareScreen
    /\ IF Running THEN UNCHANGED <<widgets, browser, confirm>>
       ELSE /\ built' = {"screen"}
            /\ freed' = freed \cup (built \ {"screen"})
            /\ dialog' = "none" /\ armed' = FALSE /\ pending' = {}
            /\ selecting' = FALSE /\ rows' = {} /\ selected' = {}
            /\ UNCHANGED <<visible, listed>>
    /\ UNCHANGED <<scanning, disk, bad>>

-----------------------------------------------------------------------------
(* WiFi scan: a worker task that fills the list under the display lock.    *)

\* Nobody looks at the result of xTaskCreate(): without a task the button
\* stays dead until the next boot.
on_wifi_scan ==
    /\ Shown("wifi")
    /\ scanning = "no"
    /\ scanning' \in {"task", "stuck"}
    /\ Touch({"list_wifi_scan_", "btn_wifi_scan_"}, {})
    /\ UNCHANGED <<widgets, browser, confirm, disk>>

populate_wifi_scan_list == {"list_wifi_scan_"}

wifi_scan_task ==
    /\ scanning = "task"
    /\ scanning' = "no"
    /\ Touch(populate_wifi_scan_list, {})
    /\ UNCHANGED <<widgets, browser, confirm, disk>>

on_wifi_list_click ==
    /\ Shown("wifi")
    /\ Touch({"list_wifi_scan_", "ta_wifi_ssid_"}, {})
    /\ UNCHANGED <<widgets, browser, confirm, scanning, disk>>

-----------------------------------------------------------------------------
(* The file browser.                                                       *)

\* A re-list resets the selection; the directory may be unreadable, and then
\* shows no rows, or be an empty subdirectory.
refresh_file_browser(found) ==
    /\ selecting' = FALSE
    /\ listed' = found /\ rows' = found /\ selected' = {}

FileBrowserFields == {"list_fb_", "lbl_fb_path_"}

open_file_browser ==
    /\ \E found \in {card, {}} : refresh_file_browser(found)
    /\ \/ Open("files", FileBrowserFields \cup {"modal_files_"})
       \/ /\ Shown("files")
          /\ ~selecting
          /\ Touch(FileBrowserFields \cup {"modal_files_"}, {"fb_action_bar_"})
          /\ UNCHANGED widgets
    /\ UNCHANGED <<confirm, scanning, disk>>

update_fb_selection ==
    {"list_fb_", "lbl_fb_count_", "lbl_fb_delete_", "btn_fb_delete_"}

\* A tap in selection mode, or a second long press, toggles the row.
ToggleRow(f) ==
    /\ Shown("files") /\ selecting /\ f \in listed
    /\ selected' = IF f \in selected THEN selected \ {f} ELSE selected \cup {f}
    /\ Touch({}, update_fb_selection)
    /\ UNCHANGED <<widgets, listed, rows, selecting, confirm, scanning, disk>>

\* The Select button starts with nothing selected, a long press with its row.
enter_select_mode(seed) ==
    /\ Shown("files") /\ ~selecting /\ listed # {}
    /\ seed \subseteq listed
    /\ selecting' = TRUE
    /\ selected' = seed \cap rows
    /\ Touch({}, update_fb_selection \cup {"fb_action_bar_"})
    /\ UNCHANGED <<widgets, listed, rows, confirm, scanning, disk>>

on_fb_selall_btn ==
    /\ Shown("files") /\ selecting
    /\ selected' = IF selected = rows /\ rows # {} THEN {} ELSE rows
    /\ Touch({}, update_fb_selection)
    /\ UNCHANGED <<widgets, listed, rows, selecting, confirm, scanning, disk>>

exit_select_mode(shown) ==
    /\ Shown("files")
    /\ selecting' = FALSE /\ selected' = {}
    /\ visible' = shown
    /\ Touch({"modal_files_"}, update_fb_selection \cup {"fb_action_bar_"})
    /\ UNCHANGED <<built, freed, listed, rows, confirm, scanning, disk>>

\* Cancel and Select leave the mode; on_fb_close() hides the browser too.
on_fb_cancel_btn == selecting /\ exit_select_mode(visible)
on_fb_close == exit_select_mode({})

-----------------------------------------------------------------------------
(* The delete dialog.                                                      *)

\* One dialog at a time, none while a job runs.  The file being logged only
\* gets a box that says so.  A directory that is not empty has to be
\* confirmed with a switch before Delete is enabled.
open_delete_confirm(paths) ==
    /\ paths # {} /\ dialog = "none" /\ ~Running
    /\ IF paths \cap active # {}
       THEN UNCHANGED confirm
       ELSE /\ dialog' = "confirm" /\ pending' = paths
            /\ armed' \in (IF paths \cap Dirs = {} THEN {TRUE} ELSE BOOLEAN)

on_fb_delete_btn ==
    /\ Shown("files") /\ selecting
    /\ open_delete_confirm(selected)
    /\ UNCHANGED <<widgets, browser, scanning, disk, bad>>

on_fb_folder_btn(d) ==
    /\ Shown("files") /\ d \in listed \cap Dirs
    /\ open_delete_confirm({d})
    /\ UNCHANGED <<widgets, browser, scanning, disk, bad>>

on_fb_confirm_switch ==
    /\ dialog = "confirm" /\ pending \cap Dirs # {}
    /\ armed' = ~armed
    /\ UNCHANGED <<widgets, browser, dialog, pending, scanning, disk, bad>>

StartJob(who, paths) ==
    /\ ~Running
    /\ paths \cap active = {}
    /\ job' = [state |-> "running", owner |-> who, paths |-> paths]

\* sd_delete::start() may refuse: the dialog stays as it is.
on_fb_confirm_del ==
    /\ dialog = "confirm" /\ armed
    /\ \/ /\ StartJob("screen", pending)
          /\ dialog' = "progress" /\ armed' = FALSE
       \/ UNCHANGED <<job, dialog, armed>>
    /\ UNCHANGED <<widgets, browser, pending, scanning, card, active, webJobs, bad>>

NoDialog == dialog' = "none" /\ armed' = FALSE /\ pending' = {}

\* Cancel does not dismiss the progress view of a running job.
on_fb_confirm_cancel ==
    /\ dialog = "confirm"
    /\ NoDialog
    /\ UNCHANGED <<widgets, browser, scanning, disk, bad>>

-----------------------------------------------------------------------------
(* refresh(), every second: the fields each part of it writes to.          *)

update_header == {"header_pill_dot_", "header_pill_lbl_"}
RefreshMode == {"lbl_t_mode_", "lbl_survey_btn_", "lbl_hero_val_", "lbl_hero_sub_"}
RefreshTiles ==
    {"lbl_t_sats_", "lbl_t_sats_sub_", "t_ntrip_dot_", "t_ntrip_recon_",
     "t_ntrip_clients_", "lbl_t_pos_", "lbl_t_pos_sub_"}
RefreshPosition ==
    {"lbl_p_lat_", "lbl_p_lon_", "lbl_p_alt_", "survey_group_", "arc_sv_time_",
     "arc_sv_blocks_", "arc_sv_stab_", "lbl_sv_time_", "lbl_sv_blocks_",
     "lbl_sv_stab_", "lbl_sv_samples_", "lbl_sv_sigma_", "lbl_sv_used_"}
RefreshSky ==
    {"lbl_sv_gps_", "lbl_sv_glo_", "lbl_sv_gal_", "lbl_sv_bds_", "lbl_sv_detail_",
     "sky_dots_", "tabview_", "lbl_sky_count_", "lbl_p_ant_", "lbl_s_ant_"}
RefreshLinks == ntrip_detail_group \cup {"lbl_d_local_ntrip_", "lbl_d_local_ntrip_ips_"}
RefreshSystem ==
    {"lbl_uptime_", "lbl_reset_", "lbl_heap_", "arc_heap_", "lbl_heap_pct_",
     "lbl_wifi_state_", "lbl_ip_", "lbl_ap_name_", "lbl_ap_ip_", "lbl_t_link_",
     "lbl_t_link_sub_"}
RefreshStorage ==
    {"lbl_sd_", "arc_disk_", "lbl_disk_pct_", "lbl_t_sd_", "lbl_t_sd_sub_",
     "sw_rinex_", "lbl_rinex_file_"}
RefreshFirmware ==
    {"lbl_fw_", "lbl_compile_", "lbl_c6_running_", "lbl_c6_fw_", "btn_c6_ota_"}
RefreshFields ==
    update_header \cup RefreshMode \cup RefreshTiles \cup RefreshPosition
        \cup RefreshSky \cup RefreshLinks \cup RefreshSystem
        \cup RefreshStorage \cup RefreshFirmware
\* The switches it mirrors when they are there.
RefreshTested == {"sw_ntrip_all_", "sw_ps_rinex_", "lbl_admin_"}

\* Only while the console is on display, and every other tick.
refresh_console_log ==
    IF Shown("console") THEN {"lbl_console_", "modal_console_", "console_scroll_"} ELSE {}

JobDone == job.state \in {"done", "failed"}

\* Mutant of poll_delete_progress: a job with failures does not count.
poll_delete_progress_OkOnly ==
    IF dialog = "progress" /\ job.state = "done"
    THEN NoDialog /\ refresh_file_browser(card)
    ELSE UNCHANGED <<confirm, browser>>

\* A job that ended, whoever started it, closes the progress view and
\* re-lists the directory.
poll_delete_progress ==
    IF dialog = "progress" /\ JobDone
    THEN NoDialog /\ refresh_file_browser(card)
    ELSE UNCHANGED <<confirm, browser>>

refresh ==
    /\ poll_delete_progress
    /\ Touch(RefreshFields \cup (IF dialog = "progress" /\ JobDone
                                  THEN FileBrowserFields ELSE {}),
             RefreshTested \cup refresh_console_log)
    /\ UNCHANGED <<widgets, scanning, disk>>

-----------------------------------------------------------------------------
(* The other users of the card.                                            *)

\* files_delete_batch_handler(): the web server starts a job.
WebDelete(paths) ==
    /\ webJobs < MaxWebJobs
    /\ paths # {}
    /\ StartJob("web", paths)
    /\ webJobs' = webJobs + 1
    /\ UNCHANGED <<widgets, browser, confirm, scanning, card, active, bad>>

\* delete_task(): the job ends, and what it could not delete is left.
delete_task ==
    /\ Running
    /\ \E left \in SUBSET (job.paths \cap card) :
          /\ card' = (card \ job.paths) \cup left
          /\ job' = [job EXCEPT !.state = IF left = {} THEN "done" ELSE "failed"]
    /\ UNCHANGED <<widgets, browser, confirm, scanning, active, webJobs, bad>>

\* Raw collection starts or stops writing an entry of the card.
RawCollection ==
    /\ active' \in {{}} \cup {{f} : f \in card \ Dirs}
    /\ active' # active
    /\ UNCHANGED <<widgets, browser, confirm, scanning, job, card, webJobs, bad>>

-----------------------------------------------------------------------------

Taps ==
    \/ open_wifi_modal \/ open_admin_modal \/ open_console_modal
    \/ open_ntrip_modal \/ open_position_setup \/ open_file_browser
    \/ (\E m \in Modals : Close(m))
    \/ on_admin_save \/ on_ps_pos_save \/ on_ps_ant_save \/ save_ntrip_config
    \/ apply_theme \/ on_wifi_scan \/ on_wifi_list_click
    \/ (\E f \in Entries : ToggleRow(f) \/ enter_select_mode({f}) \/ on_fb_folder_btn(f))
    \/ enter_select_mode({}) \/ on_fb_selall_btn \/ on_fb_cancel_btn \/ on_fb_close
    \/ on_fb_delete_btn \/ on_fb_confirm_switch \/ on_fb_confirm_del
    \/ on_fb_confirm_cancel

Next ==
    \/ Taps \/ refresh
    \/ wifi_scan_task
    \/ (\E p \in SUBSET Entries : WebDelete(p)) \/ delete_task \/ RawCollection

\* LVGL's timer fires every second and the worker tasks finish.
Fairness == WF_vars(refresh) /\ WF_vars(delete_task) /\ WF_vars(wifi_scan_task)

Spec == Init /\ [][Next]_vars /\ Fairness

-----------------------------------------------------------------------------
(* Properties.                                                             *)

\* The types of the variables.
TypeOK ==
    /\ built \subseteq DOMAIN Built /\ freed \subseteq Modals
    /\ built \cap freed = {} /\ "screen" \in built
    /\ visible \subseteq Modals /\ Cardinality(visible) <= 1
    /\ {listed, rows, selected, pending, card, active} \subseteq SUBSET Entries
    /\ {selecting, armed} \subseteq BOOLEAN /\ scanning \in {"no", "task", "stuck"}
    /\ dialog \in {"none", "confirm", "progress"}
    /\ job \in [state : {"idle", "running", "done", "failed"},
               owner : {"none", "screen", "web"}, paths : SUBSET Entries]
    /\ webJobs \in 0..MaxWebJobs

\* snapshot_since(), the log page and the console: however much is logged
\* between two reads, and whether or not the page is refreshed by hand, it
\* shows the end of the log with nothing missing in it and nothing twice; the
\* console, while it is open, shows the end of the same text, as much as it
\* has room for and beginning with a line where one begins there.
LogIsShown == PageFollowsLog /\ (Shown("console") => ConsoleIsTail)

\* "Mirror the RINEX state on the Position Setup modal's switch (if built)":
\* refresh() does not read the switch of a modal that a theme change deleted.
NoFreedSwitch == "sw_ps_rinex_" \notin bad

\* No handler, refresh() or worker task dereferences a null or dangling
\* pointer, whatever was opened, closed, deleted and re-themed before,
\* except through the two fields that the README names.
OnlyKnownDangling == bad \subseteq {"sw_ps_rinex_", "list_wifi_scan_"}

\* While a job started here runs its progress view is up: neither Cancel,
\* nor closing the browser, nor the theme button loses it, and it deletes
\* exactly what the dialog named.
ProgressStays ==
    Running /\ job.owner = "screen" => dialog = "progress" /\ pending = job.paths

\* A dialog has paths to delete; on_fb_confirm_del() would otherwise close the
\* box and keep the pointer to it.
DialogHasPaths == dialog # "none" => pending # {}

\* A row of the displayed browser has its entry in fb_selected_, which the
\* handlers index without a check; outside selection mode nothing is selected.
RowsHaveSelection ==
    /\ Shown("files") => listed = rows
    /\ selected \subseteq rows
    /\ ~selecting => selected = {}

\* on_fb_item(), on_fb_confirm_del() and refresh(): types, and that rows,
\* selection, dialog and job belong together.
DialogsConsistent == TypeOK /\ ProgressStays /\ DialogHasPaths /\ RowsHaveSelection

\* The progress view goes away once its job has ended, whatever the user and
\* the web server, which may start the next job meanwhile, do.
DialogCloses == dialog = "progress" ~> dialog = "none"

=============================================================================
