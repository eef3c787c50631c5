--------------------------------- MODULE Shell ------------------------------
(***************************************************************************)
(* What is around every page: the theme and the font (theme-context.tsx,   *)
(* font-context.tsx), the settings form that sets them, the sidebar        *)
(* (components/ui/sidebar.tsx) and the command menu.  The browser keeps    *)
(* the theme, the font and the sidebar for the next time, for all its tabs *)
(* together.                                                               *)
(***************************************************************************)
EXTENDS ScreenBase

CONSTANTS Font, FirstFont

VARIABLES
    slTheme,       \* theme
    slHeard,       \* the theme in the listener for the system's preference
    slDark,        \* the system prefers dark
    slRoot,        \* the class of the root element
    slFont,        \* font
    slKept,        \* localStorage and the cookie: [theme, font, open], each Null before it is set
    slForm,        \* the appearance form: [theme, font], or Null
    slOpen,        \* the sidebar is expanded on a wide window
    slOpenMobile,  \* ... is open on a narrow one
    slMobile,      \* isMobile
    slSearch,      \* the command menu is open
    slAlone        \* history: nobody but this tab wrote what the browser keeps, and nothing expired
themeVars == <<slTheme, slHeard, slDark, slRoot, slFont>>
barVars == <<slOpen, slOpenMobile, slMobile>>
slVars == <<themeVars, slKept, slForm, barVars, slSearch, slAlone>>

Theme == {"light", "dark", "system"}

ASSUME ShellAssumption ==
    FirstFont \in Font /\ Null \notin Theme /\ Null \notin Font /\ Null \notin BOOLEAN

KeptOr(kept, default) == IF kept = Null THEN default ELSE kept
applyTheme(theme, dark) == IF theme # "system" THEN theme ELSE IF dark THEN "dark" ELSE "light"

SLInit ==
    /\ slTheme = "dark" /\ slHeard = "dark" /\ slDark = FALSE /\ slRoot = "dark" /\ slFont = FirstFont
    /\ slKept = [theme |-> Null, font |-> Null, open |-> Null]
    /\ slForm = Null
    /\ slOpen = TRUE /\ slOpenMobile = FALSE /\ slMobile = FALSE
    /\ slSearch = FALSE /\ slAlone = TRUE

(* ---------------------------- theme and font ---------------------------- *)
(* The effect on the theme registers the listener anew.                      *)
Registered_Once(theme) == slHeard
Registered(theme) == theme

Painted(theme) ==
    /\ slTheme' = theme /\ slHeard' = Registered(theme) /\ slRoot' = applyTheme(theme, slDark)
    /\ UNCHANGED slDark

setTheme(theme) ==
    /\ Painted(theme) /\ slKept' = [slKept EXCEPT !.theme = theme]
    /\ UNCHANGED <<slFont, slAlone>>

handleChange ==
    /\ slDark' = ~slDark
    /\ slRoot' = IF slHeard = "system" THEN applyTheme("system", slDark') ELSE slRoot
    /\ UNCHANGED <<slTheme, slHeard, slFont, slKept, slForm, barVars, slSearch, slAlone>>

ThemeSwitch ==
    /\ ~slSearch
    /\ \E theme \in Theme : setTheme(theme)
    /\ UNCHANGED <<slForm, barVars, slSearch>>

(* The form keeps the values it was mounted with while the theme is switched.  *)
AppearanceForm ==
    /\ slForm # Null /\ ~slSearch
    /\ slForm' \in [theme : {"light", "dark"}, font : Font] \cup
                   {[slForm EXCEPT !.font = f] : f \in Font}
    /\ UNCHANGED <<themeVars, slKept, barVars, slSearch, slAlone>>

(* Sets what differs from what is shown; "system" is not a value of the form.   *)
UpdatePreferences ==
    /\ slForm # Null /\ slForm.theme # "system" /\ ~slSearch
    /\ Painted(slForm.theme) /\ slFont' = slForm.font
    /\ slKept' = [slKept EXCEPT !.theme = IF slForm.theme = slTheme THEN @ ELSE slForm.theme,
                                !.font = IF slForm.font = slFont THEN @ ELSE slForm.font]
    /\ UNCHANGED <<slForm, barVars, slSearch, slAlone>>

(* ------------------------------ the sidebar ----------------------------- *)
setOpen(value) == slOpen' = value /\ slKept' = [slKept EXCEPT !.open = value]

(* The button, the rail and Ctrl-B.                                           *)
toggleSidebar ==
    /\ IF slMobile THEN slOpenMobile' = ~slOpenMobile /\ UNCHANGED <<slOpen, slKept>>
       ELSE setOpen(~slOpen) /\ UNCHANGED slOpenMobile
    /\ UNCHANGED <<themeVars, slForm, slMobile, slSearch, slAlone>>

SheetClosed ==
    /\ slMobile /\ slOpenMobile /\ slOpenMobile' = FALSE
    /\ UNCHANGED <<themeVars, slKept, slForm, slOpen, slMobile, slSearch, slAlone>>

(* A sheet that was open is open again when the window is narrow again.        *)
isMobile ==
    /\ slMobile' = ~slMobile
    /\ UNCHANGED <<themeVars, slKept, slForm, slOpen, slOpenMobile, slSearch, slAlone>>

(* --------------------------------- pages -------------------------------- *)
Arrives == slForm' \in {Null, [theme |-> slTheme, font |-> slFont]}

SidebarMenuLink ==
    /\ ~slSearch /\ slOpenMobile' = FALSE /\ Arrives
    /\ UNCHANGED <<themeVars, slKept, slOpen, slMobile, slSearch, slAlone>>

(* Ctrl-K, the field in the header, Escape.                                   *)
SearchToggled ==
    /\ slSearch' = ~slSearch
    /\ UNCHANGED <<themeVars, slKept, slForm, barVars, slAlone>>

runCommand ==
    /\ slSearch /\ slSearch' = FALSE
    /\ \/ Arrives /\ UNCHANGED <<themeVars, slKept, slAlone>>
       \/ (\E theme \in Theme : setTheme(theme)) /\ UNCHANGED slForm
    /\ UNCHANGED barVars

(* ------------------------------- mounting ------------------------------- *)
(* Signing out and in again mounts the layout anew: it reads the cookie.       *)
AuthenticatedLayout ==
    /\ slOpen' = KeptOr(slKept.open, TRUE) /\ slOpenMobile' = FALSE /\ slSearch' = FALSE
    /\ slForm' = Null
    /\ UNCHANGED <<slKept, slMobile, slAlone>>

SignedInAgain == AuthenticatedLayout /\ UNCHANGED themeVars

Reloaded ==
    /\ AuthenticatedLayout
    /\ slTheme' = KeptOr(slKept.theme, "dark") /\ slHeard' = slTheme' /\ slRoot' = applyTheme(slTheme', slDark)
    /\ slFont' = KeptOr(slKept.font, FirstFont)
    /\ UNCHANGED slDark

OtherTab ==
    /\ \/ \E theme \in Theme : slKept' = [slKept EXCEPT !.theme = theme]
       \/ \E font \in Font : slKept' = [slKept EXCEPT !.font = font]
       \/ \E open \in {TRUE, FALSE, Null} : slKept' = [slKept EXCEPT !.open = open]
    /\ slAlone' = FALSE
    /\ UNCHANGED <<themeVars, slForm, barVars, slSearch>>

SLNext ==
    \/ handleChange \/ ThemeSwitch \/ AppearanceForm \/ UpdatePreferences
    \/ toggleSidebar \/ SheetClosed \/ isMobile
    \/ SidebarMenuLink \/ SearchToggled \/ runCommand
    \/ SignedInAgain \/ Reloaded \/ OtherTab

(* The page is painted in the theme chosen, from whichever of the three places   *)
(* it was chosen, and in the system's while it is chosen and the system changes   *)
(* its mind: never by a listener of a theme chosen before (theme-context.tsx).    *)
RootShowsTheme == slRoot = applyTheme(slTheme, slDark)

(* Theme, font and sidebar are after a reload, or after signing out and in, what   *)
(* they were before it, however the window was narrowed and the sheet opened in   *)
(* between, unless another tab chose or a week went by (the cookie's max-age).    *)
ReloadKeeps ==
    [][(Reloaded \/ SignedInAgain) /\ slAlone => UNCHANGED <<slTheme, slFont, slRoot, slOpen>>]_slVars
=============================================================================
