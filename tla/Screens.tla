-------------------------------- MODULE Screens -----------------------------
(***************************************************************************)
(* The screens of the web interface side by side.  They share nothing but  *)
(* the cache of the questions, which Console models, so each is looked at  *)
(* on its own: a behaviour is about one of them, chosen at the start.      *)
(***************************************************************************)
EXTENDS PeerForm, EntityForms, ConfigDialog, ShareDialog, SyncDialog, PeerSessions,
        TableView, SharePage, DashboardScreen, Shell

Screen == {"peer_form", "peer_fields", "entity_forms", "config_dialog", "share_dialog",
           "sync_dialog", "sessions_job", "sessions_dialog", "table", "share_page", "dashboard",
           "shell"}

screensVars == <<screen, pfVars, fdVars, efVars, cdVars, shVars, sdVars, psVars, tvVars, shpVars, dbVars, slVars>>

ScreensInit ==
    /\ screen \in Screen
    /\ PFInit /\ FDInit /\ EFInit /\ CDInit /\ SHInit /\ SDInit /\ PSInit /\ DBInit /\ SLInit
    /\ TVInit /\ (screen = "table" \/ tvKind = "Peers")
    /\ SPInit /\ (screen = "share_page" \/ (shpPhase = "shared" /\ shpBot))

(* A step of one screen; the others stand still.  The job that keeps the       *)
(* sessions is looked at twice: with passes that overlap, and, one pass at a   *)
(* time, together with the dialog.                                             *)
ScreensNext ==
    \/ /\ screen = "peer_form" /\ PFNext
       /\ UNCHANGED <<screen, fdVars, efVars, cdVars, shVars, sdVars, psVars, tvVars, shpVars, dbVars, slVars>>
    \/ /\ screen = "peer_fields" /\ FDNext
       /\ UNCHANGED <<screen, pfVars, efVars, cdVars, shVars, sdVars, psVars, tvVars, shpVars, dbVars, slVars>>
    \/ /\ screen = "entity_forms" /\ EFNext
       /\ UNCHANGED <<screen, pfVars, fdVars, cdVars, shVars, sdVars, psVars, tvVars, shpVars, dbVars, slVars>>
    \/ /\ screen = "config_dialog" /\ CDNext
       /\ UNCHANGED <<screen, pfVars, fdVars, efVars, shVars, sdVars, psVars, tvVars, shpVars, dbVars, slVars>>
    \/ /\ screen = "share_dialog" /\ SHNext
       /\ UNCHANGED <<screen, pfVars, fdVars, efVars, cdVars, sdVars, psVars, tvVars, shpVars, dbVars, slVars>>
    \/ /\ screen = "sync_dialog" /\ SDNext
       /\ UNCHANGED <<screen, pfVars, fdVars, efVars, cdVars, shVars, psVars, tvVars, shpVars, dbVars, slVars>>
    \/ /\ \/ screen = "sessions_job" /\ JobNext
          \/ screen = "sessions_dialog" /\ PSNext /\ OnePass
       /\ UNCHANGED <<screen, pfVars, fdVars, efVars, cdVars, shVars, sdVars, tvVars, shpVars, dbVars, slVars>>
    \/ /\ screen = "table" /\ TVNext
       /\ UNCHANGED <<screen, pfVars, fdVars, efVars, cdVars, shVars, sdVars, psVars, shpVars, dbVars, slVars>>
    \/ /\ screen = "share_page" /\ SPNext
       /\ UNCHANGED <<screen, pfVars, fdVars, efVars, cdVars, shVars, sdVars, psVars, tvVars, dbVars, slVars>>
    \/ /\ screen = "dashboard" /\ DBNext
       /\ UNCHANGED <<screen, pfVars, fdVars, efVars, cdVars, shVars, sdVars, psVars, tvVars, shpVars, slVars>>
    \/ /\ screen = "shell" /\ SLNext
       /\ UNCHANGED <<screen, pfVars, fdVars, efVars, cdVars, shVars, sdVars, psVars, tvVars, shpVars, dbVars>>

ScreensSpec == ScreensInit /\ [][ScreensNext]_screensVars

-----------------------------------------------------------------------------
(* What several screens owe their administrator alike                      *)

(* What was chosen in a form stays chosen until the administrator chooses   *)
(* again: in the form of a peer whatever lists arrive, however often; in the *)
(* form of a pool while the list read again is the one it has, as a list     *)
(* that differs makes its effect choose the first interface.                 *)
ChoicesStay == ChoiceStays /\ PoolChoiceStays

(* The bandwidth and the limit a form of a peer sends are those its fields    *)
(* show, and so is the date unless the browser is west of Greenwich; the      *)
(* addresses a form of a pool sends can be read by the service, although a    *)
(* mask is appended to them each time.  (A bandwidth of another form has no   *)
(* text to be compared with; the rounding of a stored limit is left out.)     *)
FieldsAreSent == ShownIsSent /\ PoolAddressParses

(* A click does what the screen said when it was clicked: a request that only *)
(* says toggle, and ticks made under another filter or in another opening.    *)
ClicksDoAsShown == ToggleDoesWhatItSaid /\ SendsWhatIsListed

(* A reset resets what was asked for and no more, whatever was read or opened *)
(* while its dialog was open, as long as neither the peer nor one before it   *)
(* is gone from the list that was read.                                       *)
ResetsAsAsked == ResetsPeerAsked /\ ResetClosesOwn

(* The session that goes on is listed, whatever the limit, and each session   *)
(* with its duration.                                                         *)
HistoryIsRight == OngoingIsListed /\ []DurationAddsUp

(* The page looks as it was told to, at once and after a reload.              *)
LooksAsChosen == [][RootShowsTheme']_slVars /\ ReloadKeeps
=============================================================================
